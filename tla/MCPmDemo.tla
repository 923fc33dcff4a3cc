------------------------------- MODULE MCPmDemo -------------------------------
(* Instantiates PmDemo for TLC with two sysfs users.                         *)
EXTENDS PmDemo

CONSTANTS u1, u2

TwoUsers == {u1, u2}
=============================================================================
