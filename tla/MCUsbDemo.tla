------------------------------- MODULE MCUsbDemo -------------------------------
(* Instantiates UsbDemo for TLC with two open files of /dev/usb_demo.      *)
EXTENDS UsbDemo

CONSTANTS x1, x2

TwoFiles == {x1, x2}
================================================================================
