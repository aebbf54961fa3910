------------------------------- MODULE Mutex -------------------------------
(***************************************************************************)
(* What a lock promises to the code between lock and unlock: at most one   *)
(* thread at a time is inside.  Nothing is said about which waiter gets in *)
(* or when.  SpinLock (spinlock.h) is shown to implement this module.      *)
(***************************************************************************)
CONSTANT Threads   \* the execution contexts that may take the lock

VARIABLE holders   \* the threads inside, a set of at most one element

Init == holders = {}

Acquire(t) ==
    /\ holders = {}
    /\ holders' = {t}

Release(t) ==
    /\ holders = {t}
    /\ holders' = {}

Next == \E t \in Threads : Acquire(t) \/ Release(t)

Spec == Init /\ [][Next]_holders
=============================================================================
