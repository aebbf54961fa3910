--------------------------- MODULE InterruptProofs --------------------------
(***************************************************************************)
(* Proofs about interrupts, for any exceptions, devices, depth of handlers *)
(* and contents of the memory the stubs push from.                         *)
(*                                                                         *)
(* The inductive invariant says how far kernel_main has come with the      *)
(* tables (BootInv), what the frames of the handlers under way are         *)
(* (FrameInv), and the properties the frames give (NoNesting,              *)
(* MasterInService).                                                       *)
(***************************************************************************)
EXTENDS Interrupts, TLAPS

(* What the calls kernel_main has made leave behind, and that nothing interrupts it
   before the last. *)
BootInv ==
    /\ boot >= 1 => gdt = descriptors
    /\ boot >= 3 => \A v \in Exceptions : v \in DOMAIN idt /\ idt[v] = idt_gate(Stub(v))
    /\ boot >= 4 =>
           /\ \A v \in Interrupts : v \in DOMAIN idt /\ idt[v] = idt_gate(Stub(v))
           /\ \A l \in Lines : vector[l] = NExc + l
    /\ boot < 6 => ~iflag /\ stack = <<>>

(* A frame's words are the two its return takes off, its handler is that of its
   vector, and only the outermost interrupted code with interrupts on. *)
FrameInv ==
    \A i \in DOMAIN stack :
        /\ stack[i].words = Dropped
        /\ stack[i].at \in {"dispatch", "slave", "master"} => stack[i].vector \in Interrupts
        /\ i > 1 => ~stack[i].iflag

IInv ==
    /\ TypeOK
    /\ BootInv
    /\ FrameInv
    /\ NoNesting
    /\ MasterInService
    /\ status \notin {"unbalanced", "ungated"}

(***************************************************************************)
(* Lemmas                                                                  *)
(***************************************************************************)

(* kernel_main's calls come in its order. *)
LEMMA BootOrder ==
  /\ Len(kernel_main) = 6
  /\ kernel_main[1] = "gdt_install" /\ kernel_main[2] = "idt_install"
  /\ kernel_main[3] = "isrs_install" /\ kernel_main[4] = "irq_install"
  /\ kernel_main[5] = "timer_install" /\ kernel_main[6] = "sti"
BY DEF kernel_main

(* What the quotient and the remainder are. *)
LEMMA DivMod ==
  ASSUME NEW x \in Nat, NEW d \in Nat \ {0}
  PROVE  /\ x = d * (x \div d) + (x % d)
         /\ x \div d \in Nat
         /\ x % d \in 0 .. d - 1
OBVIOUS

(* A number below d is its own remainder. *)
LEMMA SmallMod ==
  ASSUME NEW d \in Nat \ {0}, NEW x \in 0 .. d - 1
  PROVE  x % d = x
OBVIOUS

(* A gate put together from halves is taken apart again, and keeps its types. *)
LEMMA GateAddress ==
  ASSUME NEW v \in Vectors
  PROVE  /\ idt_gate(Stub(v)).hi * Half + idt_gate(Stub(v)).lo = Stub(v)
         /\ idt_gate(Stub(v)) \in PresentGates
<1>1. Stub(v) \in Nat /\ Stub(v) \div Half < Half /\ Half \in Nat \ {0}
  BY InterruptAssumption DEF Half
<1>2. /\ Stub(v) = Half * (Stub(v) \div Half) + (Stub(v) % Half)
      /\ Stub(v) \div Half \in Nat
      /\ Stub(v) % Half \in 0 .. Half - 1
  <2> DEFINE x == Stub(v)
             d == Half
  <2>1. x \in Nat /\ d \in Nat \ {0}
    BY <1>1
  <2> HIDE DEF x, d
  <2>2. /\ x = d * (x \div d) + (x % d)
        /\ x \div d \in Nat
        /\ x % d \in 0 .. d - 1
    BY <2>1, DivMod
  <2> QED
    BY <2>2 DEF x, d
<1>3. (Stub(v) \div Half) % Half = Stub(v) \div Half
  <2> DEFINE x == Stub(v) \div Half
             d == Half
  <2>1. d \in Nat \ {0} /\ x \in 0 .. d - 1
    BY <1>1, <1>2
  <2> HIDE DEF x, d
  <2>2. x % d = x
    BY <2>1, SmallMod
  <2> QED
    BY <2>2 DEF x, d
<1> QED
  BY <1>1, <1>2, <1>3, Half * (Stub(v) \div Half) = (Stub(v) \div Half) * Half
  DEF idt_gate, PresentGates

(* Filling gates keeps the others, and the table's type. *)
LEMMA GatesFilled ==
  ASSUME NEW S \in SUBSET Vectors, Gates(S),
         DOMAIN idt \subseteq Vectors,
         idt \in [DOMAIN idt -> PresentGates]
  PROVE  /\ \A v \in S : v \in DOMAIN idt' /\ idt'[v] = idt_gate(Stub(v))
         /\ \A v \in DOMAIN idt \ S : v \in DOMAIN idt' /\ idt'[v] = idt[v]
         /\ DOMAIN idt' \subseteq Vectors
         /\ idt' \in [DOMAIN idt' -> PresentGates]
BY GateAddress DEF Gates

(* The second descriptor is of flat code, the third of flat and writable data. *)
LEMMA SegmentsFlat ==
  /\ DOMAIN descriptors = 1 .. 3
  /\ Flat(descriptors[2]) /\ Code(descriptors[2])
  /\ Flat(descriptors[3]) /\ WritableData(descriptors[3])
<1>1. /\ DOMAIN descriptors = 1 .. 3
      /\ descriptors[2] = gdt_entry(Zero, Ones, 154, 207)
      /\ descriptors[3] = gdt_entry(Zero, Ones, 146, 207)
  BY DEF descriptors
<1>2. ASSUME NEW access
      PROVE  LET d == gdt_entry(Zero, Ones, access, 207)
             IN  /\ d.access = access /\ d.granularity = 207
                 /\ d.base_low = 0 /\ d.base_middle = 0 /\ d.base_high = 0
                 /\ d.limit_low = Half - 1
  BY DEF gdt_entry, Zero, Ones, Half
<1>3. Bit(207, 128) = 1 /\ Bit(207, 64) = 1 /\ 207 % 16 = 15
  BY DEF Bit
<1>4. Bit(154, 128) = 1 /\ Bit(154, 16) = 1 /\ Bit(154, 8) = 1
  BY DEF Bit
<1>5. Bit(146, 128) = 1 /\ Bit(146, 16) = 1 /\ Bit(146, 8) = 0 /\ Bit(146, 2) = 1
  BY DEF Bit
<1> QED
  BY <1>1, <1>2, <1>3, <1>4, <1>5 DEF Flat, Code, WritableData

(* A sequence is the whole of itself. *)
LEMMA WholeSubSeq == ASSUME NEW S, NEW s \in Seq(S) PROVE SubSeq(s, 1, Len(s)) = s
OBVIOUS

(* gdt_flush loads all three. *)
LEMMA AllLoaded == gdt_install => gdt' = descriptors
<1>1. (8 * 3 - 1 + 1) \div 8 = 3
  OBVIOUS
<1>2. descriptors \in Seq({descriptors[1], descriptors[2], descriptors[3]})
      /\ Len(descriptors) = 3
  BY DEF descriptors
<1>3. SubSeq(descriptors, 1, 3) = descriptors
  BY <1>2, WholeSubSeq
<1> QED
  BY <1>1, <1>3 DEF gdt_install

(* A stub and the processor push two words for all that may come. *)
LEMMA TwoWords ==
  ASSUME NEW v \in Raised \cup Interrupts
  PROVE  Pushed(v) = Dropped
<1>1. CASE v \in Interrupts
  BY <1>1 DEF Pushed, Dropped, ErrorCodes, NoDummy, Interrupts, NExc, NLines
<1>2. CASE v \in Raised
  BY <1>2, InterruptAssumption DEF Pushed, Dropped, ErrorCodes, NoDummy, Exceptions, NExc
<1> QED
  BY <1>1, <1>2

Stages == {"dispatch", "slave", "master", "fault", "return"}

(* A handler moves on: only the innermost frame's stage changes. *)
LEMMA Moved ==
  ASSUME TypeOK, stack # <<>>, NEW a \in Stages, NEW r \in Lines \cup {None},
         \/ Goto(a)
         \/ stack' = [stack EXCEPT ![Len(stack)].at = a, ![Len(stack)].ran = r]
  PROVE  /\ stack' \in Seq(Frames) /\ Len(stack') = Len(stack)
         /\ DOMAIN stack' = DOMAIN stack
         /\ \A i \in DOMAIN stack :
                /\ stack'[i].vector = stack[i].vector
                /\ stack'[i].words = stack[i].words
                /\ stack'[i].iflag = stack[i].iflag
                /\ stack'[i].at = IF i = Len(stack) THEN a ELSE stack[i].at
<1> DEFINE n == Len(stack)
<1>1. stack \in Seq(Frames) /\ n \in DOMAIN stack /\ stack[n] \in Frames
  BY DEF TypeOK
<1>2. PICK f \in Frames :
         /\ stack' = [stack EXCEPT ![n] = f]
         /\ f.vector = stack[n].vector /\ f.words = stack[n].words
         /\ f.iflag = stack[n].iflag /\ f.at = a
  <2>1. CASE Goto(a)
    <3>1. [stack[n] EXCEPT !.at = a] \in Frames
      BY <1>1 DEF Frames, Stages
    <3> QED
      BY <1>1, <2>1, <3>1 DEF Goto, Frames
  <2>2. CASE stack' = [stack EXCEPT ![Len(stack)].at = a, ![Len(stack)].ran = r]
    <3>1. [stack[n] EXCEPT !.at = a, !.ran = r] \in Frames
      BY <1>1 DEF Frames, Stages
    <3>2. stack' = [stack EXCEPT ![n] = [stack[n] EXCEPT !.at = a, !.ran = r]]
      BY <1>1, <2>2
    <3> QED
      BY <1>1, <3>1, <3>2 DEF Frames
  <2> QED
    BY <2>1, <2>2
<1> HIDE DEF n
<1>3. stack' \in Seq(Frames) /\ Len(stack') = Len(stack) /\ DOMAIN stack' = DOMAIN stack
  BY <1>1, <1>2
<1>4. \A i \in DOMAIN stack : stack'[i] = IF i = n THEN f ELSE stack[i]
  BY <1>1, <1>2
<1> QED
  BY <1>1, <1>2, <1>3, <1>4 DEF n

(* The start of a sequence. *)
LEMMA Prefix ==
  ASSUME NEW S, NEW s \in Seq(S), NEW n \in Nat, n < Len(s)
  PROVE  /\ SubSeq(s, 1, n) \in Seq(S)
         /\ Len(SubSeq(s, 1, n)) = n
         /\ \A i \in 1 .. n : SubSeq(s, 1, n)[i] = s[i]
OBVIOUS

(* What an entry leaves on the stack. *)
LEMMA Entered ==
  ASSUME TypeOK, NEW v \in Raised \cup Interrupts, Enter(v)
  PROVE  /\ stack' \in Seq(Frames) /\ Len(stack') = Len(stack) + 1
         /\ Len(stack') <= MaxDepth
         /\ \A i \in DOMAIN stack : i \in DOMAIN stack' /\ stack'[i] = stack[i]
         /\ stack'[Len(stack) + 1].vector = v
         /\ stack'[Len(stack) + 1].words = Dropped
         /\ stack'[Len(stack) + 1].iflag = iflag
         /\ stack'[Len(stack) + 1].at = IF v \in Interrupts THEN "dispatch" ELSE "fault"
<1>1. PICK word \in Words : stack' = Append(stack, Frame(v, word))
  BY DEF Enter
<1>2. Pushed(v) \in 0 .. 3 /\ Pushed(v) = Dropped
  BY TwoWords DEF Dropped
<1>3. Frame(v, word) \in Frames
  BY <1>1, <1>2, InterruptAssumption DEF Frame, Frames, TypeOK
<1>4. stack \in Seq(Frames) /\ Len(stack) < MaxDepth /\ MaxDepth \in Nat
  BY InterruptAssumption DEF TypeOK, Enter
<1>5. stack' \in Seq(Frames) /\ Len(stack') = Len(stack) + 1
  BY <1>1, <1>3, <1>4
<1>6. \A i \in DOMAIN stack : i \in DOMAIN stack' /\ stack'[i] = stack[i]
  BY <1>1, <1>3, <1>4
<1>7. stack'[Len(stack) + 1] = Frame(v, word)
  BY <1>1, <1>3, <1>4
<1> QED
  BY <1>2, <1>4, <1>5, <1>6, <1>7 DEF Frame

(* With no frame there is no unacknowledged one, and nothing in service. *)
LEMMA NoFrames ==
  ASSUME IInv, stack = <<>>
  PROVE  Unacknowledged = {} /\ inservice \cap Master = {}
BY DEF IInv, MasterInService, Unacknowledged

(* Only the outermost frame is an interrupt's. *)
LEMMA OneInterrupt ==
  ASSUME IInv, NEW i \in DOMAIN stack,
         stack[i].at \in {"dispatch", "slave", "master"}
  PROVE  i = 1
BY DEF IInv, FrameInv, NoNesting

(***************************************************************************)
(* The invariant                                                           *)
(***************************************************************************)

LEMMA InvInit == Init => IInv
<1> SUFFICES ASSUME Init PROVE IInv
  OBVIOUS
<1>1. TypeOK
  <2>1. boot \in 0 .. Len(kernel_main)
    BY BootOrder DEF Init
  <2>2. /\ DOMAIN idt = {}
        /\ idt \in [DOMAIN idt -> PresentGates]
    BY DEF Init, NoGates
  <2>3. vector \in [Lines -> Vectors]
    BY DEF Init, Vectors, Lines, NLines, Master, NMaster
  <2>4. stack \in Seq(Frames) /\ Len(stack) <= MaxDepth
    BY InterruptAssumption DEF Init
  <2> QED
    BY <2>1, <2>2, <2>3, <2>4 DEF Init, TypeOK
<1>2. BootInv /\ FrameInv /\ NoNesting /\ MasterInService
  BY BootOrder DEF Init, BootInv, FrameInv, NoNesting, MasterInService, Unacknowledged
<1> QED
  BY <1>1, <1>2 DEF Init, IInv

(* kernel_main's calls. *)
LEMMA BootStep ==
  ASSUME IInv, Boot
  PROVE  IInv'
<1>1. /\ stack = <<>> /\ iflag = FALSE /\ boot \in 0 .. 5 /\ boot' = boot + 1
      /\ stack' = stack /\ status' = status
  <2>1. boot < Len(kernel_main) /\ boot' = boot + 1
    BY DEF Boot, gdt_install, idt_install, isrs_install, irq_install, timer_install, sti,
       Call
  <2>2. boot \in 0 .. 5
    BY <2>1, BootOrder DEF IInv, TypeOK
  <2>3. stack = <<>> /\ iflag = FALSE
    BY <2>2 DEF IInv, BootInv, TypeOK
  <2>4. stack' = stack /\ status' = status
    BY DEF Boot, gdt_install, idt_install, isrs_install, irq_install, timer_install,
       sti, cpu
  <2> QED
    BY <2>1, <2>2, <2>3, <2>4
<1>2. inservice' \cap Master = {} /\ inservice' \subseteq inservice
  BY NoFrames, <1>1 DEF Boot, gdt_install, idt_install, isrs_install, irq_install,
     irq_remap, timer_install, sti, pic
<1>3. NoNesting' /\ FrameInv' /\ MasterInService'
  BY <1>1, <1>2 DEF NoNesting, FrameInv, MasterInService, Unacknowledged
<1>4. /\ requested' \subseteq requested
      /\ iflag' \in BOOLEAN /\ (boot # 5 => iflag' = iflag)
      /\ routines' \subseteq Lines
  <2>1. requested' \subseteq requested
    BY DEF Boot, gdt_install, idt_install, isrs_install, irq_install, irq_remap,
       timer_install, sti, pic
  <2>2. routines \subseteq Lines /\ 0 \in Lines
    BY DEF IInv, TypeOK, Lines, NLines
  <2>3. routines' \subseteq Lines
    BY <2>2 DEF Boot, gdt_install, idt_install, isrs_install, irq_install,
       timer_install, sti
  <2>4. iflag' = iflag \/ sti
    BY DEF Boot, gdt_install, idt_install, isrs_install, irq_install, timer_install, cpu
  <2>5. sti => iflag' = TRUE /\ boot = 5
    BY <1>1, BootOrder DEF sti, Call
  <2> QED
    BY <1>1, <2>1, <2>3, <2>4, <2>5

<1>5. /\ idt \in [DOMAIN idt -> PresentGates] /\ DOMAIN idt \subseteq Vectors
      /\ vector \in [Lines -> Vectors]
      /\ gdt \in {<<>>, descriptors}
  BY DEF IInv, TypeOK
<1>6. Exceptions \subseteq Vectors /\ Interrupts \subseteq Vectors
      /\ Exceptions \cap Interrupts = {}
  BY DEF Exceptions, Interrupts, Vectors, NExc, NLines
<1>7. ASSUME gdt' \in {<<>>, descriptors},
             idt' \in [DOMAIN idt' -> PresentGates], DOMAIN idt' \subseteq Vectors,
             vector' \in [Lines -> Vectors]
      PROVE  TypeOK'
  BY <1>1, <1>2, <1>4, <1>7, BootOrder DEF IInv, TypeOK
<1>8. CASE gdt_install
  <2>1. boot = 0
    BY <1>1, <1>8, BootOrder DEF gdt_install, Call
  <2> QED
    BY <1>1, <1>3, <1>4, <1>5, <1>7, <1>8, <2>1, AllLoaded DEF gdt_install, IInv, BootInv
<1>9. CASE idt_install
  <2>1. boot = 1
    BY <1>1, <1>9, BootOrder DEF idt_install, Call
  <2> QED
    BY <1>1, <1>3, <1>4, <1>5, <1>7, <1>9, <2>1 DEF idt_install, NoGates, IInv, BootInv
<1>10. CASE isrs_install
  <2>1. boot = 2
    BY <1>1, <1>10, BootOrder DEF isrs_install, Call
  <2>2. /\ \A v \in Exceptions : v \in DOMAIN idt' /\ idt'[v] = idt_gate(Stub(v))
        /\ idt' \in [DOMAIN idt' -> PresentGates] /\ DOMAIN idt' \subseteq Vectors
    BY <1>5, <1>6, <1>10, GatesFilled DEF isrs_install
  <2> QED
    BY <1>1, <1>3, <1>4, <1>5, <1>7, <1>10, <2>1, <2>2 DEF isrs_install, IInv, BootInv
<1>11. CASE irq_install
  <2>1. boot = 3
    BY <1>1, <1>11, BootOrder DEF irq_install, Call
  <2>2. /\ \A v \in Interrupts : v \in DOMAIN idt' /\ idt'[v] = idt_gate(Stub(v))
        /\ \A v \in DOMAIN idt \ Interrupts : v \in DOMAIN idt' /\ idt'[v] = idt[v]
        /\ idt' \in [DOMAIN idt' -> PresentGates] /\ DOMAIN idt' \subseteq Vectors
    BY <1>5, <1>6, <1>11, GatesFilled DEF irq_install
  <2>3. \A v \in Exceptions : v \in DOMAIN idt' /\ idt'[v] = idt_gate(Stub(v))
    BY <1>6, <2>1, <2>2 DEF IInv, BootInv
  <2>4. vector' = [l \in Lines |-> NExc + l] /\ vector' \in [Lines -> Vectors]
    BY <1>11 DEF irq_install, irq_remap, Lines, NLines, NExc, Vectors
  <2> QED
    BY <1>1, <1>3, <1>4, <1>5, <1>7, <1>11, <2>1, <2>2, <2>3, <2>4
       DEF irq_install, IInv, BootInv
<1>12. CASE timer_install
  <2>1. boot = 4
    BY <1>1, <1>12, BootOrder DEF timer_install, Call
  <2> QED
    BY <1>1, <1>3, <1>4, <1>5, <1>7, <1>12, <2>1 DEF timer_install, IInv, BootInv
<1>13. CASE sti
  <2>1. boot = 5
    BY <1>1, <1>13, BootOrder DEF sti, Call
  <2> QED
    BY <1>1, <1>3, <1>4, <1>5, <1>7, <1>13, <2>1 DEF sti, IInv, BootInv
<1> QED
  BY <1>8, <1>9, <1>10, <1>11, <1>12, <1>13 DEF Boot

(* A device's request, and handlers put in and taken out of irq_routines. *)
LEMMA QuietStep ==
  ASSUME IInv, NEW l \in Devices,
         Raise(l) \/ irq_install_handler(l) \/ irq_uninstall_handler(l)
  PROVE  IInv'
<1>1. /\ UNCHANGED <<tables, cpu, inservice, status>>
      /\ requested' \subseteq requested \cup {l}
      /\ routines' \subseteq routines \cup {l}
  BY DEF Raise, irq_install_handler, irq_uninstall_handler, pic
<1>2. l \in Lines
  BY InterruptAssumption
<1> QED
  BY <1>1, <1>2 DEF IInv, TypeOK, BootInv, FrameInv, NoNesting, MasterInService,
     Unacknowledged, tables, cpu

(* A line is taken up: only in the main program, with the tables in place. *)
LEMMA DeliverStep ==
  ASSUME IInv, NEW l \in Devices, Deliver(l)
  PROVE  IInv'
<1>1. /\ iflag = TRUE /\ stack = <<>> /\ boot = 6 /\ l \in Lines
      /\ vector[l] = NExc + l /\ NExc + l \in Interrupts /\ vector[l] \in DOMAIN idt
  <2>1. iflag = TRUE /\ stack = <<>> /\ l \in Lines
    BY InterruptAssumption DEF Deliver, IInv, TypeOK, NoNesting
  <2>2. boot = 6
    BY <2>1, BootOrder DEF IInv, TypeOK, BootInv
  <2>3. NExc + l \in Interrupts
    BY <2>1 DEF Interrupts, Lines, NExc, NLines
  <2> QED
    BY <2>1, <2>2, <2>3 DEF IInv, BootInv
<1>2. /\ Enter(NExc + l) /\ status' = status
      /\ requested' = requested \ {l}
      /\ inservice' = inservice \cup {l, Wire(l)}
      /\ UNCHANGED <<tables, routines>>
  BY <1>1 DEF Deliver
<1>3. /\ stack' \in Seq(Frames) /\ Len(stack') = 1 /\ Len(stack') <= MaxDepth
      /\ stack'[1].vector = NExc + l /\ stack'[1].words = Dropped
      /\ stack'[1].at = "dispatch"
      /\ iflag' = FALSE
  <2>1. Len(stack) = 0 /\ Len(stack) + 1 = 1
    BY <1>1
  <2>2. iflag' = FALSE
    BY <1>2 DEF Enter
  <2>3. TypeOK /\ NExc + l \in Raised \cup Interrupts
    BY <1>1 DEF IInv
  <2>4. /\ stack' \in Seq(Frames) /\ Len(stack') = Len(stack) + 1
        /\ Len(stack') <= MaxDepth
        /\ stack'[Len(stack) + 1].vector = NExc + l
        /\ stack'[Len(stack) + 1].words = Dropped
        /\ stack'[Len(stack) + 1].at = "dispatch"
    BY <1>1, <1>2, <2>3, Entered
  <2> QED
    BY <2>1, <2>2, <2>4
<1>4. DOMAIN stack' = {1}
  BY <1>3
<1>5. BootInv' /\ FrameInv' /\ NoNesting'
  <2>1. BootInv'
    BY <1>1, <1>2 DEF IInv, BootInv, tables
  <2>2. FrameInv'
    BY <1>1, <1>3, <1>4 DEF FrameInv
  <2>3. NoNesting'
    BY <1>3, <1>4 DEF NoNesting
  <2> QED
    BY <2>1, <2>2, <2>3
<1>6. inservice' \cap Master = {Wire(l)} /\ Wire(l) \in {l, Cascade}
  BY <1>1, <1>2, NoFrames
     DEF Wire, Lines, Master, Slave, Cascade, NMaster, NLines
<1>7. Unacknowledged' = {1}
  BY <1>3, <1>4 DEF Unacknowledged
<1>8. MasterInService'
  BY <1>1, <1>3, <1>6, <1>7 DEF MasterInService, Lines, NExc, NLines
<1>9. TypeOK'
  BY <1>1, <1>2, <1>3, <1>6 DEF IInv, TypeOK, tables
<1> QED
  BY <1>2, <1>5, <1>8, <1>9 DEF IInv

(* A fault, of the main program or of a handler. *)
LEMMA FaultStep ==
  ASSUME IInv, NEW v \in Raised, Fault(v)
  PROVE  IInv'
<1>1. Enter(v) /\ boot = 6 /\ UNCHANGED <<tables, routines, pic, status>>
  BY BootOrder DEF Fault, Booted
<1>2. v \notin Interrupts
  BY InterruptAssumption DEF Exceptions, Interrupts, NExc
<1>3. /\ stack' \in Seq(Frames) /\ Len(stack') = Len(stack) + 1
      /\ Len(stack') <= MaxDepth
      /\ \A i \in DOMAIN stack : i \in DOMAIN stack' /\ stack'[i] = stack[i]
      /\ stack'[Len(stack) + 1].vector = v
      /\ stack'[Len(stack) + 1].words = Dropped
      /\ stack'[Len(stack) + 1].iflag = iflag
      /\ stack'[Len(stack) + 1].at = "fault"
      /\ iflag' = FALSE
  BY <1>1, <1>2, Entered DEF IInv, Enter
<1>4. /\ stack \in Seq(Frames)
      /\ DOMAIN stack' = DOMAIN stack \cup {Len(stack) + 1}
      /\ Len(stack) + 1 \notin DOMAIN stack
      /\ Len(stack) \in Nat
  BY <1>3 DEF IInv, TypeOK
<1>5. BootInv'
  BY <1>1 DEF IInv, BootInv, tables
<1>6. FrameInv'
  <2>1. Len(stack) + 1 > 1 => iflag = FALSE
    BY <1>4 DEF IInv, TypeOK, NoNesting
  <2> QED
    BY <1>3, <1>4, <2>1 DEF IInv, FrameInv
<1>7. NoNesting'
  BY <1>2, <1>3, <1>4 DEF IInv, NoNesting
<1>8. Unacknowledged' = Unacknowledged
  BY <1>3, <1>4 DEF Unacknowledged
<1>9. {Wire(stack'[i].vector - NExc) : i \in Unacknowledged'}
        = {Wire(stack[i].vector - NExc) : i \in Unacknowledged}
  BY <1>3, <1>8 DEF Unacknowledged
<1>10. MasterInService'
  BY <1>1, <1>9 DEF IInv, MasterInService, pic
<1>11. TypeOK'
  BY <1>1, <1>3 DEF IInv, TypeOK, tables, pic
<1> QED
  BY <1>1, <1>5, <1>6, <1>7, <1>10, <1>11 DEF IInv

(* What a handler's step that stays on the stack has to show. *)
LEMMA StageStep ==
  ASSUME IInv, stack # <<>>, NEW a \in Stages, NEW r \in Lines \cup {None},
         \/ Goto(a)
         \/ stack' = [stack EXCEPT ![Len(stack)].at = a, ![Len(stack)].ran = r],
         Top.at \in {"dispatch", "slave", "master"} \/ a \in {"fault", "return"},
         UNCHANGED <<tables, routines, iflag, requested>>,
         inservice' \subseteq inservice,
         status' = status
  PROVE  TypeOK' /\ BootInv' /\ FrameInv' /\ NoNesting'
<1>1. /\ stack' \in Seq(Frames) /\ Len(stack') = Len(stack)
      /\ DOMAIN stack' = DOMAIN stack
      /\ \A i \in DOMAIN stack :
             /\ stack'[i].vector = stack[i].vector
             /\ stack'[i].words = stack[i].words
             /\ stack'[i].iflag = stack[i].iflag
             /\ stack'[i].at = IF i = Len(stack) THEN a ELSE stack[i].at
  BY Moved DEF IInv
<1>2. TypeOK'
  BY <1>1 DEF IInv, TypeOK, tables
<1>3. BootInv'
  BY <1>1 DEF IInv, BootInv, tables
<1>4. FrameInv'
  BY <1>1 DEF IInv, FrameInv, Top, Last, Stages
<1>5. NoNesting'
  <2>1. stack \in Seq(Frames) /\ stack' \in Seq(Frames)
    BY <1>1 DEF IInv, TypeOK
  <2>2. stack' # <<>> /\ ~iflag'
    BY <1>1, <2>1 DEF IInv, NoNesting
  <2> QED
    BY <1>1, <2>2 DEF IInv, NoNesting
<1> QED
  BY <1>2, <1>3, <1>4, <1>5

(* A line's frame that has not acknowledged stays such a frame. *)
LEMMA StaysUnacknowledged ==
  ASSUME IInv, stack # <<>>, NEW a \in {"slave", "master"}, NEW r \in Lines \cup {None},
         \/ Goto(a)
         \/ stack' = [stack EXCEPT ![Len(stack)].at = a, ![Len(stack)].ran = r],
         Top.at \in {"dispatch", "slave", "master"},
         inservice' \cap Master = inservice \cap Master, status' = status
  PROVE  MasterInService'
<1>1. /\ DOMAIN stack' = DOMAIN stack
      /\ \A i \in DOMAIN stack :
             /\ stack'[i].vector = stack[i].vector
             /\ stack'[i].at = IF i = Len(stack) THEN a ELSE stack[i].at
  BY Moved DEF IInv, Stages
<1>2. Unacknowledged' = Unacknowledged
  BY <1>1 DEF Unacknowledged, Top, Last
<1>3. {Wire(stack'[i].vector - NExc) : i \in Unacknowledged'}
        = {Wire(stack[i].vector - NExc) : i \in Unacknowledged}
  BY <1>1, <1>2 DEF Unacknowledged
<1> QED
  BY <1>3 DEF IInv, MasterInService

LEMMA FaultHandlerStep ==
  ASSUME IInv, fault_handler
  PROVE  IInv'
<1>1. /\ stack # <<>> /\ Top.at = "fault"
      /\ UNCHANGED <<tables, routines, iflag, requested, inservice>>
  BY DEF fault_handler, Running, pic
<1>2. CASE status' = "halted" /\ stack' = stack
  BY <1>1, <1>2 DEF IInv, TypeOK, BootInv, FrameInv, NoNesting, MasterInService,
     Unacknowledged, tables
<1>3. CASE Goto("return") /\ status' = status
  <2>1. TypeOK' /\ BootInv' /\ FrameInv' /\ NoNesting'
    BY <1>1, <1>3, StageStep DEF Stages
  <2>2. /\ DOMAIN stack' = DOMAIN stack
        /\ \A i \in DOMAIN stack :
               /\ stack'[i].vector = stack[i].vector
               /\ stack'[i].at = IF i = Len(stack) THEN "return" ELSE stack[i].at
    BY <1>1, <1>3, Moved DEF IInv, Stages
  <2>3. Unacknowledged' = Unacknowledged
    BY <1>1, <2>2 DEF Unacknowledged, Top, Last
  <2>4. {Wire(stack'[i].vector - NExc) : i \in Unacknowledged'}
          = {Wire(stack[i].vector - NExc) : i \in Unacknowledged}
    BY <2>2, <2>3 DEF Unacknowledged
  <2>5. MasterInService'
    BY <1>1, <1>3, <2>4 DEF IInv, MasterInService
  <2> QED
    BY <1>3, <2>1, <2>5 DEF IInv
<1> QED
  BY <1>2, <1>3 DEF fault_handler

LEMMA DispatchStep ==
  ASSUME IInv, irq_dispatch
  PROVE  IInv'
<1>1. /\ stack # <<>> /\ Top.at = "dispatch"
      /\ UNCHANGED <<tables, routines, iflag, requested, inservice>>
  BY DEF irq_dispatch, Running, pic
<1>2. CASE status' = "astray" /\ stack' = stack
  BY <1>1, <1>2 DEF IInv, TypeOK, BootInv, FrameInv, NoNesting, MasterInService,
     Unacknowledged, tables
<1>3. ASSUME NEW r \in Lines \cup {None}, status' = status,
             \/ Goto("slave")
             \/ stack' = [stack EXCEPT ![Len(stack)].at = "slave",
                                       ![Len(stack)].ran = r]
      PROVE  IInv'
  <2>1. TypeOK' /\ BootInv' /\ FrameInv' /\ NoNesting'
    BY <1>1, <1>3, StageStep DEF Stages
  <2>2. MasterInService'
    BY <1>1, <1>3, StaysUnacknowledged
  <2> QED
    BY <1>3, <2>1, <2>2 DEF IInv
<1>4. CASE Top.int_no - NExc \in Lines
  <2> DEFINE r == IF Top.int_no - NExc \in routines THEN Top.int_no - NExc ELSE None
  <2>1. r \in Lines \cup {None} /\ status' = status
    BY <1>4 DEF irq_dispatch
  <2>2. stack' = [stack EXCEPT ![Len(stack)].at = "slave", ![Len(stack)].ran = r]
    BY <1>4 DEF irq_dispatch
  <2> HIDE DEF r
  <2> QED
    BY <1>3, <2>1, <2>2
<1>5. CASE Top.int_no - NExc \notin Lines
  <2>1. \/ Goto("slave") /\ status' = status
        \/ status' = "astray" /\ stack' = stack
    BY <1>5 DEF irq_dispatch
  <2> QED
    BY <1>2, <1>3, <2>1
<1> QED
  BY <1>4, <1>5

LEMMA SlaveStep ==
  ASSUME IInv, irq_eoi_slave
  PROVE  IInv'
<1>1. /\ stack # <<>> /\ Top.at = "slave" /\ Goto("master")
      /\ UNCHANGED <<tables, routines, iflag, requested, status>>
  BY DEF irq_eoi_slave, Running
<1>2. inservice' \subseteq inservice /\ inservice' \cap Master = inservice \cap Master
  BY DEF irq_eoi_slave, Acknowledged, Master, Slave, NMaster, NLines
<1>3. TypeOK' /\ BootInv' /\ FrameInv' /\ NoNesting'
  BY <1>1, <1>2, StageStep DEF Stages
<1>4. MasterInService'
  BY <1>1, <1>2, StaysUnacknowledged
<1> QED
  BY <1>1, <1>3, <1>4 DEF IInv

(* The acknowledgement takes out the only line of the first controller in service. *)
LEMMA MasterStep ==
  ASSUME IInv, irq_eoi_master
  PROVE  IInv'
<1>1. /\ stack # <<>> /\ Top.at = "master" /\ Goto("return")
      /\ inservice' = inservice \ Acknowledged(Master)
      /\ UNCHANGED <<tables, routines, iflag, requested, status>>
  BY DEF irq_eoi_master, Running
<1>2. TypeOK' /\ BootInv' /\ FrameInv' /\ NoNesting'
  BY <1>1, StageStep DEF Stages
<1>3. stack \in Seq(Frames) /\ Len(stack) \in DOMAIN stack
  BY <1>1 DEF IInv, TypeOK
<1>4. Len(stack) = 1 /\ stack[1].at = "master"
  BY <1>1, <1>3, OneInterrupt DEF Top, Last
<1>5. DOMAIN stack = {1}
  BY <1>3, <1>4
<1>6. Unacknowledged = {1}
  BY <1>4, <1>5 DEF Unacknowledged
<1>7. inservice \cap Master = {Wire(stack[1].vector - NExc)}
  BY <1>6 DEF IInv, MasterInService
<1>8. Wire(stack[1].vector - NExc) \in Int
  <2>1. inservice \subseteq Int
    BY InterruptAssumption DEF IInv, TypeOK, Lines, NLines, Cascade
  <2> QED
    BY <1>7, <2>1
<1>9. inservice' \cap Master = {}
  BY <1>1, <1>7, <1>8 DEF Acknowledged
<1>10. /\ DOMAIN stack' = DOMAIN stack
       /\ stack'[1].at = "return"
  BY <1>1, <1>4, <1>5, Moved DEF IInv, Stages
<1>11. Unacknowledged' = {}
  BY <1>5, <1>10 DEF Unacknowledged
<1>12. MasterInService'
  BY <1>9, <1>11 DEF MasterInService
<1> QED
  BY <1>1, <1>2, <1>12 DEF IInv

LEMMA ReturnStep ==
  ASSUME IInv, Return
  PROVE  IInv'
<1>1. /\ stack # <<>> /\ Top.at = "return"
      /\ UNCHANGED <<tables, routines, pic>>
  BY DEF Return, Running
<1>2. stack \in Seq(Frames) /\ Len(stack) \in DOMAIN stack /\ Len(stack) \in Nat \ {0}
  BY <1>1 DEF IInv, TypeOK
<1>3. Top.words = Dropped /\ Top = stack[Len(stack)] /\ Top \in Frames
  BY <1>2 DEF IInv, FrameInv, Top, Last
<1>4. stack' = Front(stack) /\ iflag' = Top.iflag /\ status' = status
  BY <1>3 DEF Return
<1>5. /\ stack' \in Seq(Frames) /\ Len(stack') = Len(stack) - 1
      /\ DOMAIN stack' = DOMAIN stack \ {Len(stack)}
      /\ \A i \in DOMAIN stack' : stack'[i] = stack[i]
  <2>1. stack' = SubSeq(stack, 1, Len(stack) - 1)
    BY <1>4 DEF Front
  <2>2. /\ stack' \in Seq(Frames) /\ Len(stack') = Len(stack) - 1
        /\ \A i \in 1 .. Len(stack) - 1 : stack'[i] = stack[i]
    <3> DEFINE n == Len(stack) - 1
    <3>1. n \in Nat /\ n < Len(stack) /\ stack' = SubSeq(stack, 1, n)
      BY <1>2, <2>1
    <3> HIDE DEF n
    <3>2. /\ stack' \in Seq(Frames) /\ Len(stack') = n
          /\ \A i \in 1 .. n : stack'[i] = stack[i]
      BY <1>2, <3>1, Prefix
    <3> QED
      BY <3>2 DEF n
  <2>3. DOMAIN stack' = 1 .. Len(stack) - 1 /\ DOMAIN stack = 1 .. Len(stack)
    BY <1>2, <2>2
  <2>4. 1 .. Len(stack) - 1 = (1 .. Len(stack)) \ {Len(stack)}
    BY <1>2
  <2> QED
    BY <2>2, <2>3, <2>4
<1>6. TypeOK'
  BY <1>1, <1>2, <1>3, <1>4, <1>5, InterruptAssumption
     DEF IInv, TypeOK, tables, pic, Frames
<1>7. boot = 6
  BY <1>1, BootOrder DEF IInv, TypeOK, BootInv
<1>8. BootInv'
  BY <1>1, <1>7 DEF IInv, BootInv, tables
<1>9. FrameInv'
  BY <1>5 DEF IInv, FrameInv
<1>10. NoNesting'
  <2>1. iflag' => Len(stack) = 1
    <3>1. Len(stack) > 1 => ~stack[Len(stack)].iflag
      BY <1>2 DEF IInv, FrameInv
    <3>2. Len(stack) = 1 \/ Len(stack) > 1
      <4> DEFINE n == Len(stack)
      <4>1. n \in Nat \ {0}
        BY <1>2
      <4> HIDE DEF n
      <4>2. n = 1 \/ n > 1
        BY <4>1
      <4> QED
        BY <4>2 DEF n
    <3>3. iflag' = stack[Len(stack)].iflag
      BY <1>3, <1>4
    <3> QED
      BY <3>1, <3>2, <3>3
  <2>2. iflag' => stack' = <<>>
    <3>1. Len(stack) = 1 => Len(stack') = 0
      BY <1>5
    <3>2. Len(stack') = 0 => stack' = <<>>
      BY <1>5
    <3> QED
      BY <2>1, <3>1, <3>2
  <2> QED
    BY <1>5, <2>2 DEF IInv, NoNesting
<1>11. Unacknowledged' = Unacknowledged
  BY <1>1, <1>3, <1>5 DEF Unacknowledged
<1>12. {Wire(stack'[i].vector - NExc) : i \in Unacknowledged'}
         = {Wire(stack[i].vector - NExc) : i \in Unacknowledged}
  BY <1>5, <1>11 DEF Unacknowledged
<1>13. MasterInService'
  BY <1>1, <1>4, <1>12 DEF IInv, MasterInService, pic
<1> QED
  BY <1>4, <1>6, <1>8, <1>9, <1>10, <1>13 DEF IInv

LEMMA Inductive == Spec => []IInv
<1>1. Init => IInv
  BY InvInit
<1>2. IInv /\ [Next]_vars => IInv'
  <2> SUFFICES ASSUME IInv, [Next]_vars PROVE IInv'
    OBVIOUS
  <2>1. CASE UNCHANGED vars
    BY <2>1 DEF vars, tables, cpu, pic, IInv, TypeOK, BootInv, FrameInv, NoNesting,
       MasterInService, Unacknowledged
  <2>2. CASE Boot
    BY <2>2, BootStep
  <2>3. CASE \E l \in Devices : \/ Raise(l) \/ Deliver(l)
                                \/ irq_install_handler(l) \/ irq_uninstall_handler(l)
    BY <2>3, QuietStep, DeliverStep
  <2>4. CASE \E v \in Raised : Fault(v)
    BY <2>4, FaultStep
  <2>5. CASE Handle
    BY <2>5, FaultHandlerStep, DispatchStep, SlaveStep, MasterStep, ReturnStep DEF Handle
  <2> QED
    BY <2>1, <2>2, <2>3, <2>4, <2>5 DEF Next
<1> QED
  BY <1>1, <1>2, PTL DEF Spec

(***************************************************************************)
(* Theorems                                                                *)
(***************************************************************************)

(* The tables, the stack of handlers and the controllers keep their types. *)
THEOREM TypeCorrect == Spec => []TypeOK
<1>1. IInv => TypeOK
  BY DEF IInv
<1> QED
  BY <1>1, Inductive, PTL

(* kernel_main's order is right: once it has executed sti, every exception and line
   has a gate to its own stub, put together again from its halves, in the code
   segment, and no line has an exception's vector. *)
THEOREM TablesReady == Spec => []GatesReady
<1>1. IInv => GatesReady
  <2> SUFFICES ASSUME IInv, boot = Len(kernel_main)
               PROVE  /\ \A v \in Exceptions \cup Interrupts : GateReady(v)
                      /\ Selects(DataSelector, WritableData)
                      /\ \A l \in Lines : vector[l] = NExc + l
    BY DEF GatesReady
  <2>1. boot = 6
    BY BootOrder
  <2>2. \A v \in Exceptions \cup Interrupts : v \in DOMAIN idt /\ idt[v] = idt_gate(Stub(v))
    BY <2>1 DEF IInv, BootInv
  <2>3. gdt = descriptors
    BY <2>1 DEF IInv, BootInv
  <2>4. Selects(CodeSelector, Code) /\ Selects(DataSelector, WritableData)
    BY <2>3, SegmentsFlat DEF Selects, CodeSelector, DataSelector
  <2>5. ASSUME NEW v \in Exceptions \cup Interrupts PROVE GateReady(v)
    <3>1. v \in Vectors
      BY DEF Exceptions, Interrupts, Vectors, NExc, NLines
    <3>2. idt_gate(Stub(v)).flags = 142 /\ idt_gate(Stub(v)).sel = CodeSelector
      BY DEF idt_gate
    <3>3. Bit(142, 128) = 1 /\ 142 % 16 = 14
      BY DEF Bit
    <3> QED
      BY <2>2, <2>4, <3>1, <3>2, <3>3, GateAddress DEF GateReady
  <2> QED
    BY <2>1, <2>4, <2>5 DEF IInv, BootInv
<1> QED
  BY <1>1, Inductive, PTL

(* irq_handler never runs on top of a handler, to any depth of faults. *)
THEOREM HandlersDoNotNest == Spec => []NoNesting
<1>1. IInv => NoNesting
  BY DEF IInv
<1> QED
  BY <1>1, Inductive, PTL

(* Whatever number irq_handler reads, the first controller is left with no line in
   service but that of a handler still to acknowledge. *)
THEOREM LinesAcknowledged == Spec => []MasterInService
<1>1. IInv => MasterInService
  BY DEF IInv
<1> QED
  BY <1>1, Inductive, PTL

(* Every iret finds what the processor pushed. *)
THEOREM StackBalanced == Spec => []ReturnsWhereInterrupted
<1>1. IInv => ReturnsWhereInterrupted
  BY DEF IInv, ReturnsWhereInterrupted
<1> QED
  BY <1>1, Inductive, PTL
=============================================================================
