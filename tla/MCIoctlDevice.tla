---------------------------- MODULE MCIoctlDevice ----------------------------
(***************************************************************************)
(* Small instances of IoctlDevice: a name of 4 bytes, two characters, and  *)
(* counts below, at and above the clamp.  Speeds and modes include values  *)
(* on both sides of each bound SET_CONFIG checks.                          *)
(***************************************************************************)
EXTENDS IoctlDevice

CONSTANTS p1, p2

TwoProcs == {p1, p2}
SmallChars == {1, 2}
SmallCounts == {1, 3, 4}
EdgeSpeeds == {-1, 1000, 1001}
EdgeModes == {-1, 3, 4}
=============================================================================
