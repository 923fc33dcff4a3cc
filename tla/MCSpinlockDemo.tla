---------------------------- MODULE MCSpinlockDemo ----------------------------
(* Instantiates SpinlockDemo for TLC; the cfg says whether kthread_run()    *)
(* may fail.                                                                *)
EXTENDS SpinlockDemo
=============================================================================
