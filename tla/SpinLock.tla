------------------------------ MODULE SpinLock ------------------------------
(***************************************************************************)
(* The test-and-test-and-set lock of kernel/spinlock.h, through which      *)
(* liballoc_lock and liballoc_unlock (rise.c) serialise malloc, free and   *)
(* realloc.  A thread is an execution context on a processor of its own.   *)
(*                                                                         *)
(* The lock word and the data it guards live in memory; stores go through  *)
(* the processor's FIFO store buffer (x86-TSO), so spin_unlock's plain     *)
(* store of 0 reaches memory some time after the store was executed.  The  *)
(* compiler barrier in spin_unlock is what keeps the critical section's    *)
(* stores in front of it in that buffer.  xchg is a locked instruction: it *)
(* takes effect only once the processor's own buffer is empty.             *)
(*                                                                         *)
(* Interrupts are not disabled by spin_lock: a handler may run on top of a *)
(* thread at any step, the critical section included.  No handler of this  *)
(* kernel takes the lock.                                                  *)
(***************************************************************************)
EXTENDS Integers, Sequences

CONSTANTS
    Threads,     \* execution contexts, one per processor
    Word         \* the guarded word counts modulo Word

ASSUME WordAssumption == Word \in Nat \ {0}

VARIABLES
    lock,        \* the lock word in memory: 0, or EBUSY
    count,       \* a word guarded by the lock, in memory
    buf,         \* buf[t]: store buffer of t's processor, oldest store first
    reg,         \* reg[t]: the value of count t read in its critical section
    pc,          \* pc[t]: the next instruction of t
    preempted,   \* the threads whose processor is running a handler
    done         \* history: critical sections completed, modulo Word

vars == <<lock, count, buf, reg, pc, preempted, done>>

EBUSY == 1

Inc(v) == IF v = Word - 1 THEN 0 ELSE v + 1

DataStore(v) == [var |-> "count", val |-> v]
UnlockStore  == [var |-> "lock",  val |-> 0]
Stores       == {DataStore(v) : v \in 0 .. Word - 1} \cup {UnlockStore}

Trying   == {"xchg", "poll", "pause"}
Inside   == {"critical", "update", "unlock"}

HasUnlock(t) == \E i \in 1 .. Len(buf[t]) : buf[t][i] = UnlockStore

(* A thread holds the lock from its successful exchange until its unlocking
   store has reached memory. *)
Holds(t) == pc[t] \in Inside \/ HasUnlock(t)
Holders  == {t \in Threads : Holds(t)}

Init ==
    /\ lock = 0
    /\ count = 0
    /\ buf = [t \in Threads |-> <<>>]
    /\ reg = [t \in Threads |-> 0]
    /\ pc = [t \in Threads |-> "idle"]
    /\ preempted = {}
    /\ done = 0

Goto(t, from, to) ==
    /\ t \notin preempted
    /\ pc[t] = from
    /\ pc' = [pc EXCEPT ![t] = to]

-----------------------------------------------------------------------------
(* spin_lock *)

CallLock(t) ==
    /\ Goto(t, "idle", "xchg")
    /\ UNCHANGED <<lock, count, buf, reg, preempted, done>>

(* Mutant: EBUSY is added to the word, as by xadd, and not put in its place. *)
ExchangeAdds(t) ==
    /\ buf[t] = <<>>
    /\ Goto(t, "xchg", IF lock = 0 THEN "critical" ELSE "poll")
    /\ lock' = lock + EBUSY
    /\ UNCHANGED <<count, buf, reg, preempted, done>>

(* xchg_32: swap EBUSY in; the lock is ours iff the old word was 0. *)
Exchange(t) ==
    /\ buf[t] = <<>>
    /\ Goto(t, "xchg", IF lock = 0 THEN "critical" ELSE "poll")
    /\ lock' = EBUSY
    /\ UNCHANGED <<count, buf, reg, preempted, done>>

(* Mutant: the loop takes a lock word of 0 for possession, without a second
   exchange. *)
PollEnters(t) ==
    /\ Goto(t, "poll", IF lock = 0 THEN "critical" ELSE "pause")
    /\ UNCHANGED <<lock, count, buf, reg, preempted, done>>

(* The inner loop of spin_lock: read the lock word, pause while it is not 0. *)
Poll(t) ==
    /\ Goto(t, "poll", IF lock = 0 THEN "xchg" ELSE "pause")
    /\ UNCHANGED <<lock, count, buf, reg, preempted, done>>

(* Mutant: the loop pauses without reading the lock word again. *)
PauseForever(t) ==
    /\ Goto(t, "pause", "pause")
    /\ UNCHANGED <<lock, count, buf, reg, preempted, done>>

Pause(t) ==
    /\ Goto(t, "pause", "poll")
    /\ UNCHANGED <<lock, count, buf, reg, preempted, done>>

(* Mutant: a failed attempt puts 0 back. *)
TryLockUndone(t) ==
    /\ buf[t] = <<>>
    /\ Goto(t, "idle", IF lock = 0 THEN "critical" ELSE "idle")
    /\ lock' = IF lock = 0 THEN EBUSY ELSE 0
    /\ UNCHANGED <<count, buf, reg, preempted, done>>

(* spin_trylock: one exchange; its result, the old word, is 0 on success. *)
TryLock(t) ==
    /\ buf[t] = <<>>
    /\ Goto(t, "idle", IF lock = 0 THEN "critical" ELSE "idle")
    /\ lock' = EBUSY
    /\ UNCHANGED <<count, buf, reg, preempted, done>>

-----------------------------------------------------------------------------
(* The critical section: a read-modify-write of the guarded word, as in
   l_completePages[index] -= 1. *)

ReadData(t) ==
    /\ Goto(t, "critical", "update")
    /\ reg' = [reg EXCEPT ![t] = count]
    /\ UNCHANGED <<lock, count, buf, preempted, done>>

WriteData(t) ==
    /\ Goto(t, "update", "unlock")
    /\ buf' = [buf EXCEPT ![t] = Append(@, DataStore(Inc(reg[t])))]
    /\ UNCHANGED <<lock, count, reg, preempted, done>>

(* Mutant: no compiler barrier, the unlocking store is issued first. *)
UnlockNoBarrier(t) ==
    /\ Goto(t, "unlock", "idle")
    /\ buf' = [buf EXCEPT ![t] = <<UnlockStore>> \o @]
    /\ done' = Inc(done)
    /\ UNCHANGED <<lock, count, reg, preempted>>

(* Mutant: an exit from the critical section that forgets to unlock. *)
UnlockForgotten(t) ==
    /\ Goto(t, "unlock", "idle")
    /\ done' = Inc(done)
    /\ UNCHANGED <<lock, count, buf, reg, preempted>>

(* spin_unlock *)
Unlock(t) ==
    /\ Goto(t, "unlock", "idle")
    /\ buf' = [buf EXCEPT ![t] = Append(@, UnlockStore)]
    /\ done' = Inc(done)
    /\ UNCHANGED <<lock, count, reg, preempted>>

-----------------------------------------------------------------------------
(* The processor *)

(* The oldest buffered store reaches memory. *)
Drain(t) ==
    /\ buf[t] # <<>>
    /\ buf' = [buf EXCEPT ![t] = Tail(@)]
    /\ IF Head(buf[t]).var = "lock"
          THEN lock' = Head(buf[t]).val /\ UNCHANGED count
          ELSE count' = Head(buf[t]).val /\ UNCHANGED lock
    /\ UNCHANGED <<reg, pc, preempted, done>>

Interrupt(t) ==
    /\ t \notin preempted
    /\ preempted' = preempted \cup {t}
    /\ UNCHANGED <<lock, count, buf, reg, pc, done>>

Iret(t) ==
    /\ t \in preempted
    /\ preempted' = preempted \ {t}
    /\ UNCHANGED <<lock, count, buf, reg, pc, done>>

-----------------------------------------------------------------------------
(* The instructions a thread executes once it has entered spin_lock or the
   critical section. *)
Instruction(t) ==
    \/ Exchange(t) \/ Poll(t) \/ Pause(t)
    \/ ReadData(t) \/ WriteData(t) \/ Unlock(t)

Next ==
    \E t \in Threads :
        \/ CallLock(t) \/ TryLock(t)
        \/ Instruction(t)
        \/ Drain(t)
        \/ Interrupt(t) \/ Iret(t)

Spec == Init /\ [][Next]_vars

(* Buffers drain and handlers return.  A thread that has instructions left
   executes them although it is interrupted again and again: handlers are
   shorter than the period of their interrupt.  Nobody has to call. *)
Fairness ==
    \A t \in Threads :
        WF_vars(Drain(t)) /\ WF_vars(Iret(t)) /\ SF_vars(Instruction(t))

FairSpec == Spec /\ Fairness

-----------------------------------------------------------------------------
TypeOK ==
    /\ lock \in {0, EBUSY}
    /\ count \in 0 .. Word - 1
    /\ buf \in [Threads -> Seq(Stores)]
    /\ reg \in [Threads -> 0 .. Word - 1]
    /\ pc \in [Threads -> {"idle"} \cup Trying \cup Inside]
    /\ preempted \subseteq Threads
    /\ done \in 0 .. Word - 1

(* At most one thread holds the lock, counting one whose unlocking store is
   still on its way to memory: xchg_32 lets a second thread in only after
   spin_unlock's store is visible. *)
MutualExclusion == \A t, u \in Threads : Holds(t) /\ Holds(u) => t = u

(* Whenever the lock is free, memory holds the result of every critical
   section completed so far: no update is lost to a store that was delayed or
   that overtook the unlocking store (the barrier of spin_unlock). *)
NoLostUpdate == Holders = {} => count = done

(* The lock word in memory is 0 exactly when nobody holds the lock: a failed
   spin_trylock or exchange, which also writes EBUSY, never leaves a free
   lock marked busy. *)
LockWordTruthful == lock = 0 <=> Holders = {}

(* Taking the spin lock implements an abstract mutex. *)
Abstract == INSTANCE Mutex WITH holders <- Holders
ImplementsMutex == Abstract!Spec

(* Whoever takes the lock gives it back, whatever interrupts arrive. *)
LockIsReleased == lock = EBUSY ~> lock = 0

(* A free lock with a thread in spin_lock's loop is taken by somebody: the
   spinning threads never all miss a release. *)
FreeLockIsTaken ==
    (lock = 0 /\ \E t \in Threads : pc[t] \in Trying) ~> lock = EBUSY
=============================================================================
