------------------------------ MODULE FramePool -----------------------------
(***************************************************************************)
(* What the physical memory manager promises: a frame that is out is not   *)
(* handed out again until it has been given back.                          *)
(***************************************************************************)
EXTENDS Integers

CONSTANT Frames
VARIABLES
    out,        \* the frames handed out and not given back
    count       \* how many they are

vars == <<out, count>>

Init == out = {} /\ count = 0

Take(f) == f \notin out /\ out' = out \cup {f} /\ count' = count + 1
Give(f) == f \in out    /\ out' = out \ {f}    /\ count' = count - 1

Next == \E f \in Frames : Take(f) \/ Give(f)

Spec == Init /\ [][Next]_vars
=============================================================================
