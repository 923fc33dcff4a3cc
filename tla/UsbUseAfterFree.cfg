\* Two files of /dev/usb_demo against one device that may fail to probe
\* and may be unplugged.  After a failed probe, or once the device is gone
\* and the files are closed, nothing can happen any more.
CONSTANTS
    x1 = x1
    x2 = x2
    Files <- TwoFiles
SPECIFICATION Spec
PROPERTY NoUseAfterFree
CHECK_DEADLOCK FALSE
