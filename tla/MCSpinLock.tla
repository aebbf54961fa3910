---------------------------- MODULE MCSpinLock ----------------------------
(* SpinLock with a few threads on processors of their own. *)
EXTENDS SpinLock
=============================================================================
