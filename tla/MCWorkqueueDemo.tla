--------------------------- MODULE MCWorkqueueDemo ---------------------------
EXTENDS WorkqueueDemo

CONSTANTS w1, w2

OneWriter == {w1}
TwoWriters == {w1, w2}
AllCommands == {"immediate", "delayed", "custom", "start", "stop"}
PeriodicCommands == {"start", "stop"}
=============================================================================
