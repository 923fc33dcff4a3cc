\* Writes whose copy_from_user() may fault part way, then seeks past the end
\* of the data and writes again.
CONSTANTS
    f1 = f1
    f2 = f2
    Files <- TwoFiles
    BUFFER_SIZE = 4
    Chars = {1, 2}
    Counts = {1, 2, 5}
    Offsets <- EdgeOffsets
    MaxPos = 5
    WriteFaults = TRUE
SPECIFICATION Spec
PROPERTY RefinesByteFile
