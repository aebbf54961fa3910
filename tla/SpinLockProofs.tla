--------------------------- MODULE SpinLockProofs ---------------------------
(***************************************************************************)
(* Theorems about SpinLock, for any set of threads and any word size.      *)
(*                                                                         *)
(* Mutual exclusion is not inductive: it depends on what may still sit in  *)
(* the store buffers.  IInv says which stores a buffer can hold at each    *)
(* program point and what they carry.                                      *)
(***************************************************************************)
EXTENDS SpinLock, SequenceTheorems, TLAPS

(* The buffer of a thread that is not between lock and unlock: empty, or the
   tail of its last critical section. *)
LeavingBuffer(t) ==
    \/ buf[t] = <<>>
    \/ buf[t] = <<UnlockStore>> /\ count = done
    \/ buf[t] = <<DataStore(done), UnlockStore>>

(* What a thread's buffer and register hold at its program point. *)
ThreadInv(t) ==
    /\ pc[t] \in {"idle", "xchg"} => LeavingBuffer(t)
    /\ pc[t] \in {"poll", "pause"} => buf[t] = <<>>
    /\ pc[t] = "critical" => buf[t] = <<>> /\ count = done
    /\ pc[t] = "update" => buf[t] = <<>> /\ count = done /\ reg[t] = done
    /\ pc[t] = "unlock" => \/ buf[t] = <<>> /\ count = Inc(done)
                           \/ buf[t] = <<DataStore(Inc(done))>>

IInv ==
    /\ TypeOK
    /\ MutualExclusion
    /\ LockWordTruthful
    /\ NoLostUpdate
    /\ \A t \in Threads : ThreadInv(t)

LEMMA IncType == ASSUME NEW v \in 0 .. Word - 1 PROVE Inc(v) \in 0 .. Word - 1
  BY WordAssumption DEF Inc

LEMMA StoresDistinct == \A v : DataStore(v) # UnlockStore
  BY DEF DataStore, UnlockStore

(* A buffer that holds no unlocking store, and those that do. *)
LEMMA UnlockInBuffer ==
  ASSUME NEW t, NEW v
  PROVE  /\ buf[t] = <<>> => ~HasUnlock(t)
         /\ buf[t] = <<DataStore(v)>> => ~HasUnlock(t)
         /\ buf[t] = <<UnlockStore>> => HasUnlock(t)
         /\ buf[t] = <<DataStore(v), UnlockStore>> => HasUnlock(t)
  BY StoresDistinct DEF HasUnlock

(* One- and two-element sequences, for any elements. *)
LEMMA ShortSequences ==
  ASSUME NEW a, NEW x
  PROVE  /\ Append(<<>>, x) = <<x>>
         /\ Append(<<a>>, x) = <<a, x>>
         /\ Len(<<x>>) = 1 /\ <<x>>[1] = x
         /\ Len(<<a, x>>) = 2 /\ <<a, x>>[2] = x
<1> DEFINE S == {a, x}
<1>1. Append(<<>>, x) = <<x>>
  <2>1. <<>> \in Seq(S) /\ <<x>> \in Seq(S)
    OBVIOUS
  <2>2. QED
    BY <2>1, AppendProperties, SeqEqual, Len(<<>>) = 0, Len(<<x>>) = 1, <<x>>[1] = x
<1>2. Append(<<a>>, x) = <<a, x>>
  <2>1. <<a>> \in Seq(S) /\ <<a, x>> \in Seq(S)
    OBVIOUS
  <2>2. Len(<<a>>) = 1 /\ <<a>>[1] = a
    OBVIOUS
  <2>3. Len(<<a, x>>) = 2 /\ <<a, x>>[1] = a /\ <<a, x>>[2] = x
    OBVIOUS
  <2> HIDE DEF S
  <2> DEFINE p == Append(<<a>>, x)
  <2>4. p \in Seq(S) /\ Len(p) = 2 /\ p[1] = a /\ p[2] = x
    BY <2>1, <2>2, AppendProperties DEF S
  <2> HIDE DEF p
  <2>5. \A i \in 1 .. Len(p) : p[i] = <<a, x>>[i]
    BY <2>3, <2>4
  <2>6. p = <<a, x>>
    BY <2>1, <2>3, <2>4, <2>5, SeqEqual
  <2>7. QED
    BY <2>6 DEF p
<1>3. QED
  BY <1>1, <1>2

LEMMA InitIInv == Init => IInv
<1> SUFFICES ASSUME Init PROVE IInv
  OBVIOUS
<1>1. TypeOK
  BY WordAssumption DEF Init, TypeOK, EBUSY, Trying, Inside
<1>2. \A t \in Threads : ~Holds(t)
  BY UnlockInBuffer DEF Init, Holds, Inside
<1>3. QED
  BY <1>1, <1>2 DEF Init, IInv, MutualExclusion, LockWordTruthful, NoLostUpdate,
     Holders, ThreadInv, LeavingBuffer

(* A thread that does not hold the lock has nothing left to store. *)
LEMMA IdleBuffer ==
  ASSUME IInv, NEW u \in Threads, ~Holds(u)
  PROVE  buf[u] = <<>> /\ pc[u] \in {"idle"} \cup Trying
<1>1. ThreadInv(u) /\ pc[u] \in {"idle"} \cup Trying
  BY DEF IInv, TypeOK, Holds
<1>2. QED
  BY <1>1, UnlockInBuffer DEF ThreadInv, LeavingBuffer, Holds, Trying

(* A step of a thread that holds the lock, whatever it does to the guarded
   word, leaves the others as they were: they are outside, with an empty
   buffer. *)
LEMMA OthersUntouched ==
  ASSUME IInv, NEW t \in Threads, Holds(t),
         NEW u \in Threads, u # t,
         buf'[u] = buf[u], pc'[u] = pc[u]
  PROVE  ThreadInv(u)' /\ ~Holds(u)'
<1>1. ~Holds(u)
  BY DEF IInv, MutualExclusion
<1>2. buf[u] = <<>> /\ pc[u] \in {"idle"} \cup Trying
  BY <1>1, IdleBuffer
<1>3. ~Holds(u)'
  BY <1>1, <1>2 DEF Holds, HasUnlock
<1>4. QED
  BY <1>2, <1>3 DEF ThreadInv, LeavingBuffer, Trying

(* How the invariant follows after such a step. *)
LEMMA HolderStep ==
  ASSUME IInv, TypeOK', NEW t \in Threads, Holds(t), ThreadInv(t)',
         \A u \in Threads \ {t} : buf'[u] = buf[u] /\ pc'[u] = pc[u],
         lock' = 0 <=> ~Holds(t)',
         ~Holds(t)' => count' = done'
  PROVE  IInv'
<1>1. \A u \in Threads \ {t} : ThreadInv(u)' /\ ~Holds(u)'
  BY OthersUntouched
<1>2. QED
  BY <1>1 DEF IInv, MutualExclusion, LockWordTruthful, NoLostUpdate, Holders

(* A step that touches neither the guarded word nor any buffer, and by which
   nobody becomes or stops being a holder. *)
LEMMA QuietStep ==
  ASSUME IInv, TypeOK', UNCHANGED <<count, buf, reg, done>>,
         lock' = lock,
         NEW t \in Threads, buf[t] = <<>> \/ pc'[t] \in {"idle", "xchg"},
         pc[t] \in {"idle"} \cup Trying, pc'[t] \in {"idle"} \cup Trying,
         buf[t] # <<>> => pc[t] \in {"idle", "xchg"},
         \A u \in Threads \ {t} : pc'[u] = pc[u]
  PROVE  IInv'
<1>1. \A u \in Threads : Holds(u)' <=> Holds(u)
  BY DEF Holds, HasUnlock, Inside, Trying
<1>2. \A u \in Threads \ {t} : ThreadInv(u)'
  BY DEF IInv, ThreadInv, LeavingBuffer
<1>3. ThreadInv(t)'
  BY DEF IInv, ThreadInv, LeavingBuffer, Trying
<1>4. QED
  BY <1>1, <1>2, <1>3 DEF IInv, MutualExclusion, LockWordTruthful, NoLostUpdate, Holders

(* An exchange that finds 0 in the lock word admits a thread when nobody
   holds the lock. *)
LEMMA EnterStep ==
  ASSUME IInv, TypeOK', NEW t \in Threads, UNCHANGED <<count, buf, reg, done>>,
         lock = 0, lock' = EBUSY, pc' = [pc EXCEPT ![t] = "critical"]
  PROVE  IInv'
<1>1. \A u \in Threads : ~Holds(u)
  BY DEF IInv, LockWordTruthful, Holders
<1>2. count = done
  BY <1>1 DEF IInv, NoLostUpdate, Holders
<1>3. \A u \in Threads : Holds(u)' <=> u = t
  BY <1>1 DEF IInv, TypeOK, Holds, HasUnlock, Inside
<1>4. \A u \in Threads \ {t} : ThreadInv(u)'
  BY DEF IInv, TypeOK, ThreadInv, LeavingBuffer
<1>5. ThreadInv(t)'
  BY <1>1, <1>2, IdleBuffer DEF IInv, TypeOK, ThreadInv
<1>6. QED
  BY <1>3, <1>4, <1>5 DEF IInv, MutualExclusion, LockWordTruthful, NoLostUpdate,
     Holders, EBUSY

(* Type correctness is inductive by itself. *)
LEMMA TypeStep == TypeOK /\ [Next]_vars => TypeOK'
<1> SUFFICES ASSUME TypeOK, [Next]_vars PROVE TypeOK'
  OBVIOUS
<1> USE DEF TypeOK, Goto
<1>1. ASSUME NEW t \in Threads, CallLock(t) PROVE TypeOK'
  BY <1>1 DEF CallLock, Trying
<1>2. ASSUME NEW t \in Threads, TryLock(t) PROVE TypeOK'
  BY <1>2 DEF TryLock, Inside
<1>3. ASSUME NEW t \in Threads, Exchange(t) PROVE TypeOK'
  BY <1>3 DEF Exchange, Trying, Inside
<1>4. ASSUME NEW t \in Threads, Poll(t) PROVE TypeOK'
  BY <1>4 DEF Poll, Trying
<1>5. ASSUME NEW t \in Threads, Pause(t) PROVE TypeOK'
  BY <1>5 DEF Pause, Trying
<1>6. ASSUME NEW t \in Threads, ReadData(t) PROVE TypeOK'
  BY <1>6 DEF ReadData, Inside
<1>7. ASSUME NEW t \in Threads, WriteData(t) PROVE TypeOK'
  <2>1. DataStore(Inc(reg[t])) \in Stores
    BY IncType DEF Stores
  <2>2. Append(buf[t], DataStore(Inc(reg[t]))) \in Seq(Stores)
    BY <2>1
  <2>3. QED
    BY <1>7, <2>2 DEF WriteData, Inside
<1>8. ASSUME NEW t \in Threads, Unlock(t) PROVE TypeOK'
  <2>1. Append(buf[t], UnlockStore) \in Seq(Stores)
    BY DEF Stores
  <2>2. QED
    BY <1>8, <2>1, IncType DEF Unlock, Inside
<1>9. ASSUME NEW t \in Threads, Drain(t) PROVE TypeOK'
  <2>1. Tail(buf[t]) \in Seq(Stores) /\ Head(buf[t]) \in Stores
    BY <1>9 DEF Drain
  <2>2. CASE Head(buf[t]) = UnlockStore
    BY <1>9, <2>1, <2>2 DEF Drain, UnlockStore
  <2>3. CASE \E v \in 0 .. Word - 1 : Head(buf[t]) = DataStore(v)
    BY <1>9, <2>1, <2>3 DEF Drain, DataStore
  <2>4. QED
    BY <2>1, <2>2, <2>3 DEF Stores
<1>10. ASSUME NEW t \in Threads, Interrupt(t) \/ Iret(t) PROVE TypeOK'
  BY <1>10 DEF Interrupt, Iret
<1>11. CASE UNCHANGED vars
  BY <1>11 DEF vars
<1>12. QED
  BY <1>1, <1>2, <1>3, <1>4, <1>5, <1>6, <1>7, <1>8, <1>9, <1>10, <1>11
     DEF Next, Instruction

(* The steps of a thread inside the critical section, and the arrival of its
   stores in memory. *)
LEMMA HolderSteps ==
  ASSUME IInv, TypeOK', NEW t \in Threads,
         ReadData(t) \/ WriteData(t) \/ Unlock(t) \/ Drain(t)
  PROVE  IInv'
<1> USE DEF IInv, TypeOK
<1>1. Holds(t) /\ lock = EBUSY
  <2>1. CASE buf[t] # <<>> /\ pc[t] \notin Inside
    BY <2>1, IdleBuffer, Holds(t) \/ ~Holds(t) DEF LockWordTruthful, Holders
  <2>2. CASE pc[t] \in Inside
    BY <2>2 DEF LockWordTruthful, Holders, Holds
  <2>3. QED
    BY <2>1, <2>2 DEF ReadData, WriteData, Unlock, Drain, Goto, Inside
<1>2. ThreadInv(t)
  OBVIOUS
<1>3. CASE ReadData(t)
  <2>1. ThreadInv(t)' /\ Holds(t)'
    BY <1>2, <1>3 DEF ReadData, Goto, ThreadInv, Holds, Inside
  <2>2. QED
    BY <1>1, <1>3, <2>1, HolderStep DEF ReadData, Goto, EBUSY
<1>4. CASE WriteData(t)
  <2>1. buf'[t] = <<DataStore(Inc(done))>> /\ pc'[t] = "unlock"
    BY <1>2, <1>4 DEF WriteData, Goto, ThreadInv
  <2>2. ThreadInv(t)' /\ Holds(t)'
    BY <1>4, <2>1 DEF WriteData, ThreadInv, Holds, Inside
  <2>3. QED
    BY <1>1, <1>4, <2>2, HolderStep DEF WriteData, Goto, EBUSY
<1>5. CASE Unlock(t)
  <2>1. pc'[t] = "idle" /\ done' = Inc(done) /\ count' = count
    BY <1>5 DEF Unlock, Goto
  <2>2. \/ buf'[t] = <<UnlockStore>> /\ count' = done'
        \/ buf'[t] = <<DataStore(done'), UnlockStore>>
    <3>1. buf'[t] = Append(buf[t], UnlockStore)
      BY <1>5 DEF Unlock
    <3>2. CASE buf[t] = <<>> /\ count = Inc(done)
      BY <2>1, <3>1, <3>2
    <3>3. CASE buf[t] = <<DataStore(Inc(done))>>
      <4> DEFINE d == DataStore(Inc(done))
      <4>1. buf[t] = <<d>> /\ DataStore(done') = d
        BY <2>1, <3>3
      <4> HIDE DEF d
      <4>2. buf'[t] = <<d, UnlockStore>>
        BY <3>1, <4>1, ShortSequences
      <4>3. QED
        BY <4>1, <4>2
    <3>4. QED
      BY <1>2, <1>5, <3>2, <3>3 DEF Unlock, Goto, ThreadInv
  <2>3. ThreadInv(t)'
    BY <2>1, <2>2 DEF ThreadInv, LeavingBuffer
  <2>4. Holds(t)'
    <3>1. \/ Len(buf'[t]) = 1 /\ buf'[t][1] = UnlockStore
          \/ Len(buf'[t]) = 2 /\ buf'[t][2] = UnlockStore
      <4>1. CASE buf'[t] = <<UnlockStore>>
        BY <4>1
      <4>2. CASE buf'[t] = <<DataStore(done'), UnlockStore>>
        BY <4>2
      <4>3. QED
        BY <2>2, <4>1, <4>2
    <3>2. QED
      BY <3>1 DEF Holds, HasUnlock
  <2>5. QED
    BY <1>1, <1>5, <2>3, <2>4, HolderStep DEF Unlock, Goto, EBUSY
<1>6. CASE Drain(t)
  <2>1. CASE pc[t] = "unlock"
    <3>1. buf[t] = <<DataStore(Inc(done))>>
      BY <1>2, <1>6, <2>1 DEF ThreadInv, Drain
    <3>2. buf'[t] = <<>> /\ count' = Inc(done) /\ lock' = lock
      BY <1>6, <3>1 DEF Drain, DataStore
    <3>3. ThreadInv(t)' /\ Holds(t)'
      BY <1>6, <2>1, <3>2 DEF Drain, ThreadInv, Holds, Inside
    <3>4. QED
      BY <1>1, <1>6, <3>2, <3>3, HolderStep DEF Drain, EBUSY
  <2>2. CASE buf[t] = <<DataStore(done), UnlockStore>> /\ pc[t] \in {"idle", "xchg"}
    <3>1. buf'[t] = <<UnlockStore>> /\ count' = done /\ lock' = lock
      BY <1>6, <2>2 DEF Drain, DataStore
    <3>2. ThreadInv(t)' /\ Holds(t)'
      BY <1>6, <2>2, <3>1 DEF Drain, ThreadInv, LeavingBuffer, Holds, HasUnlock
    <3>3. QED
      BY <1>1, <1>6, <3>1, <3>2, HolderStep DEF Drain, EBUSY
  <2>3. CASE buf[t] = <<UnlockStore>> /\ count = done /\ pc[t] \in {"idle", "xchg"}
    <3>1. buf'[t] = <<>> /\ lock' = 0 /\ count' = count
      BY <1>6, <2>3 DEF Drain, UnlockStore
    <3>2. ThreadInv(t)' /\ ~Holds(t)'
      BY <1>6, <2>3, <3>1 DEF Drain, ThreadInv, LeavingBuffer, Holds, HasUnlock, Inside
    <3>3. QED
      BY <1>1, <1>6, <2>3, <3>1, <3>2, HolderStep DEF Drain
  <2>4. QED
    BY <1>2, <1>6, <2>1, <2>2, <2>3 DEF Drain, ThreadInv, LeavingBuffer, Trying, Inside
<1>7. QED
  BY <1>3, <1>4, <1>5, <1>6

(* The steps of a thread outside: calling, exchanging, polling. *)
LEMMA OutsideSteps ==
  ASSUME IInv, TypeOK', NEW t \in Threads,
         CallLock(t) \/ TryLock(t) \/ Exchange(t) \/ Poll(t) \/ Pause(t)
  PROVE  IInv'
<1> USE DEF IInv, TypeOK, Goto
<1>1. CASE CallLock(t)
  BY <1>1, QuietStep DEF CallLock, Trying
<1>2. CASE TryLock(t)
  <2>1. CASE lock = 0
    BY <1>2, <2>1, EnterStep DEF TryLock
  <2>2. CASE lock = EBUSY
    BY <1>2, <2>2, QuietStep DEF TryLock, EBUSY
  <2>3. QED
    BY <2>1, <2>2
<1>3. CASE Exchange(t)
  <2>1. CASE lock = 0
    BY <1>3, <2>1, EnterStep DEF Exchange
  <2>2. CASE lock = EBUSY
    BY <1>3, <2>2, QuietStep DEF Exchange, EBUSY, Trying
  <2>3. QED
    BY <2>1, <2>2
<1>4. CASE Poll(t)
  <2>1. buf[t] = <<>>
    BY <1>4 DEF Poll, ThreadInv
  <2>2. QED
    BY <1>4, <2>1, QuietStep DEF Poll, Trying
<1>5. CASE Pause(t)
  <2>1. buf[t] = <<>>
    BY <1>5 DEF Pause, ThreadInv
  <2>2. QED
    BY <1>5, <2>1, QuietStep DEF Pause, Trying
<1>6. QED
  BY <1>1, <1>2, <1>3, <1>4, <1>5

(* Every step preserves the inductive invariant. *)
LEMMA NextIInv == IInv /\ [Next]_vars => IInv'
<1> SUFFICES ASSUME IInv, [Next]_vars PROVE IInv'
  OBVIOUS
<1>1. TypeOK'
  BY TypeStep DEF IInv
<1>2. ASSUME NEW t \in Threads, CallLock(t) \/ TryLock(t) \/ Instruction(t) \/ Drain(t)
      PROVE  IInv'
  BY <1>1, <1>2, HolderSteps, OutsideSteps DEF Instruction
<1>3. ASSUME UNCHANGED <<lock, count, buf, reg, pc, done>> PROVE IInv'
  BY <1>1, <1>3 DEF IInv, MutualExclusion, LockWordTruthful, NoLostUpdate, Holders,
     Holds, HasUnlock, ThreadInv, LeavingBuffer
<1>4. QED
  BY <1>2, <1>3 DEF Next, Interrupt, Iret, vars

-----------------------------------------------------------------------------
LEMMA Inductive == Spec => []IInv
  BY InitIInv, NextIInv, PTL DEF Spec

(* The lock word, the buffers and the program counters keep their types. *)
THEOREM TypeCorrect == Spec => []TypeOK
<1>1. IInv => TypeOK
  BY DEF IInv
<1>2. QED
  BY <1>1, Inductive, PTL

(* spin_lock admits one thread at a time, for any number of threads, with
   unlocking stores delayed in store buffers and handlers running anywhere. *)
THEOREM OneHolder == Spec => []MutualExclusion
<1>1. IInv => MutualExclusion
  BY DEF IInv
<1>2. QED
  BY <1>1, Inductive, PTL

(* The data a critical section wrote is in memory by the time spin_unlock's
   store frees the lock: no update is lost. *)
THEOREM UpdatesSurvive == Spec => []NoLostUpdate
<1>1. IInv => NoLostUpdate
  BY DEF IInv
<1>2. QED
  BY <1>1, Inductive, PTL

(* The lock word is 0 exactly while nobody holds the lock, so spin_trylock's
   and xchg_32's reading of the old value is right. *)
THEOREM WordTruthful == Spec => []LockWordTruthful
<1>1. IInv => LockWordTruthful
  BY DEF IInv
<1>2. QED
  BY <1>1, Inductive, PTL

(* Holders is a set of at most one thread. *)
LEMMA AtMostOne ==
  ASSUME IInv, NEW t \in Threads, Holds(t)
  PROVE  Holders = {t}
  BY DEF IInv, MutualExclusion, Holders

(* A step changes the holders only by admitting a thread when there is none
   or by dismissing the one there is. *)
LEMMA MutexStep == IInv /\ IInv' /\ [Next]_vars => [Abstract!Next]_Holders
<1> SUFFICES ASSUME IInv, IInv', [Next]_vars PROVE [Abstract!Next]_Holders
  OBVIOUS
<1> USE DEF Abstract!Next, Abstract!Acquire, Abstract!Release
<1>1. CASE Holders = {} /\ Holders' = {}
  BY <1>1
<1>2. ASSUME NEW t \in Threads, Holds(t)' PROVE Holders' = {t}
  BY <1>2 DEF IInv, MutualExclusion, Holders
<1>3. CASE Holders = {} /\ Holders' # {}
  BY <1>2, <1>3 DEF Holders
<1>4. CASE Holders # {} /\ Holders' = {}
  BY <1>4, AtMostOne DEF Holders
<1>5. ASSUME NEW t \in Threads, Holds(t), NEW u \in Threads, Holds(u)'
      PROVE  t = u
  <2> SUFFICES ASSUME t # u PROVE FALSE
    OBVIOUS
  <2>1. ~Holds(u) /\ lock = EBUSY
    BY <1>5 DEF IInv, TypeOK, MutualExclusion, LockWordTruthful, Holders
  <2>2. buf[u] = <<>> /\ pc[u] \in {"idle"} \cup Trying
    BY <2>1, IdleBuffer
  <2>3. buf'[u] = <<>> /\ pc'[u] \in {"idle"} \cup Trying
    <3> USE <2>1, <2>2 DEF IInv, TypeOK, Goto, Trying
    <3>1. ASSUME NEW v \in Threads,
                 CallLock(v) \/ TryLock(v) \/ Exchange(v) \/ Poll(v) \/ Pause(v)
          PROVE  buf'[u] = <<>> /\ pc'[u] \in {"idle"} \cup Trying
      BY <3>1 DEF CallLock, TryLock, Exchange, Poll, Pause, EBUSY
    <3>2. ASSUME NEW v \in Threads,
                 ReadData(v) \/ WriteData(v) \/ Unlock(v) \/ Drain(v)
          PROVE  buf'[u] = <<>> /\ pc'[u] \in {"idle"} \cup Trying
      BY <3>2 DEF ReadData, WriteData, Unlock, Drain
    <3>3. CASE UNCHANGED <<buf, pc>>
      BY <3>3
    <3>4. QED
      BY <3>1, <3>2, <3>3 DEF Next, Instruction, Interrupt, Iret, vars
  <2>4. ~Holds(u)'
    BY <2>3 DEF Holds, HasUnlock, Inside, Trying
  <2>5. QED
    BY <1>5, <2>4
<1>6. CASE Holders # {} /\ Holders' # {}
  <2>1. PICK t \in Threads : Holds(t)
    BY <1>6 DEF Holders
  <2>2. PICK u \in Threads : Holds(u)'
    BY <1>6 DEF Holders
  <2>3. Holders = {t} /\ Holders' = {t}
    BY <1>2, <1>5, <2>1, <2>2, AtMostOne
  <2>4. QED
    BY <2>3
<1>7. QED
  BY <1>1, <1>3, <1>4, <1>6

(* spin_lock, spin_trylock and spin_unlock together implement a mutex: what
   malloc and free rely on when they call liballoc_lock. *)
THEOREM LockImplementsMutex == Spec => ImplementsMutex
<1>1. Init => Abstract!Init
  BY UnlockInBuffer DEF Init, Abstract!Init, Holders, Holds, Inside
<1>2. IInv /\ IInv' /\ [Next]_vars => [Abstract!Next]_Holders
  BY MutexStep
<1>3. QED
  BY <1>1, <1>2, Inductive, PTL DEF Spec, ImplementsMutex, Abstract!Spec

=============================================================================
