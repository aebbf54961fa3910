----------------------------- MODULE Interrupts -----------------------------
(***************************************************************************)
(* Interrupts and exceptions: the descriptor tables (gdt.c, idt.c), the    *)
(* stubs of boot.S, the handlers of isrc.c and irq.c, the two interrupt    *)
(* controllers they program, and kernel_main's order of installation.      *)
(*                                                                         *)
(* A stub says "push N", which pushes the word of memory at address N, not *)
(* N: what the handlers take for the vector is whatever lies there.        *)
(***************************************************************************)
EXTENDS Integers, Sequences, SequencesExt

CONSTANTS
    Stub(_),        \* the address of the stub of a vector
    Raised,         \* the exceptions that may occur
    Devices,        \* the lines devices may raise
    Words,          \* what memory may hold at addresses 0 .. 47
    MaxDepth        \* bound: handlers on top of each other

\* isr0 .. isr31 and irq0 .. irq15.
NExc   == 32
NLines == 16

\* The lines of the first controller, and the one the second is wired to.
NMaster == 8
Cascade == 2

Lines   == 0 .. NLines - 1
Master  == 0 .. NMaster - 1
Slave   == NMaster .. NLines - 1
Vectors == 0 .. 255

Exceptions == 0 .. NExc - 1
Interrupts == NExc .. NExc + NLines - 1

\* The exceptions the processor pushes an error code for.
ErrorCodes == {8, 10, 11, 12, 13, 14, 17, 21, 29, 30}

(* Mutant: the double fault's stub pushes a dummy. *)
NoDummy_but_8 == {10, 11, 12, 13, 14}

\* The stubs that push no dummy for it.
NoDummy == {8, 10, 11, 12, 13, 14}

\* Half of an address.
Half == 65536

ASSUME InterruptAssumption ==
    /\ Devices \subseteq Lines \ {Cascade}
    /\ Raised \subseteq Exceptions \ {17, 21, 29, 30}   \* user mode, or virtualization
    /\ \A v \in Vectors : Stub(v) \in Nat /\ Stub(v) \div Half < Half
    /\ Words \subseteq Nat
    /\ MaxDepth \in Nat \ {0}

VARIABLES
    boot,           \* how many of its calls kernel_main has made
    gdt,            \* the descriptors lgdt has loaded, the null one first
    idt,            \* the gates that are present, by vector
    vector,         \* the controllers' vector of each line
    routines,       \* irq_routines: the lines that have a handler
    iflag,          \* interrupts are enabled
    stack,          \* the frames of the handlers under way, innermost last
    requested,      \* lines raised and not taken up
    inservice,      \* lines taken up and not acknowledged
    status          \* "up", or how the system stopped

tables == <<boot, gdt, idt, vector>>
cpu    == <<iflag, stack>>
pic    == <<requested, inservice>>
vars   == <<tables, routines, cpu, pic, status>>

kernel_main == <<"gdt_install", "idt_install", "isrs_install", "irq_install",
                 "timer_install", "sti">>

NoGates == [v \in {} |-> 0]
None   == -1

Init ==
    /\ boot = 0
    /\ gdt = <<>>
    /\ idt = NoGates
    /\ vector = [l \in Lines |-> IF l \in Master THEN 8 + l ELSE 112 + l - NMaster]
    /\ routines = {}
    /\ iflag = FALSE
    /\ stack = <<>>
    /\ requested = {}
    /\ inservice = {}
    /\ status = "up"

-----------------------------------------------------------------------------
(* Booting *)

Call(f) ==
    /\ boot < Len(kernel_main) /\ kernel_main[boot + 1] = f
    /\ boot' = boot + 1

\* A word of 32 bits by its halves.
Zero == [hi |-> 0, lo |-> 0]
Ones == [hi |-> Half - 1, lo |-> Half - 1]

(* gdt_set_gate takes base and limit apart; the limit's upper 12 bits go nowhere. *)
gdt_entry(base, limit, access, gran) ==
    [base_low |-> base.lo, base_middle |-> base.hi % 256, base_high |-> base.hi \div 256,
     limit_low |-> limit.lo, granularity |-> (limit.hi % 16) + 16 * (gran \div 16),
     access |-> access]

\* A null, a code and a data descriptor.
descriptors == <<gdt_entry(Zero, Zero, 0, 0), gdt_entry(Zero, Ones, 154, 207),
                 gdt_entry(Zero, Ones, 146, 207)>>

(* gdt_flush loads as many of them as its limit says, the offset of the last byte. *)
gdt_install ==
    /\ Call("gdt_install")
    /\ LET limit == 8 * 3 - 1
       IN  gdt' = SubSeq(descriptors, 1, (limit + 1) \div 8)
    /\ UNCHANGED <<idt, vector, routines, cpu, pic, status>>

idt_install ==
    /\ Call("idt_install")
    /\ idt' = NoGates
    /\ UNCHANGED <<gdt, vector, routines, cpu, pic, status>>

\* Offsets of the descriptors of code and data.
CodeSelector == 8
DataSelector == 16

(* Mutant: the gate is in the data segment. *)
idt_gate_data(addr) ==
    [lo |-> addr % Half, hi |-> (addr \div Half) % Half, sel |-> DataSelector, flags |-> 142]

(* idt_set_gate, of a present interrupt gate in the code segment. *)
idt_gate(addr) ==
    [lo |-> addr % Half, hi |-> (addr \div Half) % Half, sel |-> CodeSelector, flags |-> 142]

Gates(S) ==
    idt' = [v \in S \cup DOMAIN idt |-> IF v \in S THEN idt_gate(Stub(v)) ELSE idt[v]]

isrs_install ==
    /\ Call("isrs_install")
    /\ Gates(Exceptions)
    /\ UNCHANGED <<gdt, vector, routines, cpu, pic, status>>

(* Mutant: the controllers are not remapped. *)
irq_remap_not == UNCHANGED <<vector, pic>>

(* Both controllers are initialised anew: they forget what they had. *)
irq_remap ==
    /\ vector' = [l \in Lines |-> NExc + l]
    /\ requested' = {}
    /\ inservice' = {}

irq_install ==
    /\ Call("irq_install")
    /\ irq_remap
    /\ Gates(Interrupts)
    /\ UNCHANGED <<gdt, routines, cpu, status>>

(* timer.c is not in the repository: it installs a handler for line 0. *)
timer_install ==
    /\ Call("timer_install")
    /\ routines' = routines \cup {0}
    /\ UNCHANGED <<gdt, idt, vector, cpu, pic, status>>

sti ==
    /\ Call("sti")
    /\ iflag' = TRUE
    /\ UNCHANGED <<gdt, idt, vector, routines, stack, pic, status>>

Booted == status = "up" /\ boot = Len(kernel_main)

irq_install_handler(l) ==
    /\ Booted /\ stack = <<>>
    /\ routines' = routines \cup {l}
    /\ UNCHANGED <<tables, cpu, pic, status>>

irq_uninstall_handler(l) ==
    /\ Booted /\ stack = <<>>
    /\ routines' = routines \ {l}
    /\ UNCHANGED <<tables, cpu, pic, status>>

-----------------------------------------------------------------------------
(* The processor and the interrupt controllers *)

(* A device raises its line, any time. *)
Raise(l) ==
    /\ status = "up" /\ l \notin requested
    /\ requested' = requested \cup {l}
    /\ UNCHANGED <<tables, routines, cpu, inservice, status>>

Top == Last(stack)

(* What is between the registers pusha saves and the interrupted code's eip: an
   error code from the processor, and the one or two words the stub pushes. *)
Pushed(v) ==
    (IF v \in ErrorCodes THEN 1 ELSE 0) + (IF v \in NoDummy THEN 1 ELSE 2)

Frame(v, word) ==
    [vector |-> v, int_no |-> word, words |-> Pushed(v), iflag |-> iflag,
     at |-> IF v \in Interrupts THEN "dispatch" ELSE "fault", ran |-> None]

(* Mutant: the gate and the stub leave interrupts as they are. *)
Enter_trap(v) ==
    /\ Len(stack) < MaxDepth
    /\ \E word \in Words : stack' = Append(stack, Frame(v, word))
    /\ UNCHANGED iflag

(* Interrupts go off: the gate is an interrupt gate, and the stub executes cli. *)
Enter(v) ==
    /\ Len(stack) < MaxDepth
    /\ \E word \in Words : stack' = Append(stack, Frame(v, word))
    /\ iflag' = FALSE

(* The second controller's lines have the priority of the line it is wired to. *)
Wire(l) == IF l \in Slave THEN Cascade ELSE l

Prior(k, l) == Wire(k) < Wire(l) \/ (Wire(k) = Wire(l) /\ k < l)

(* Nothing of l's priority or before it is in service at its controllers. *)
Free(l) ==
    /\ \A k \in inservice \cap Master : k > Wire(l)
    /\ l \in Slave => \A k \in inservice \cap Slave : k > l

(* The processor takes up the first line that is free.  A vector without a gate is
   an error of its own. *)
Deliver(l) ==
    /\ status = "up" /\ iflag
    /\ l \in requested /\ Free(l)
    /\ \A k \in requested : Free(k) => ~Prior(k, l)
    /\ requested' = requested \ {l}
    /\ inservice' = inservice \cup {l, Wire(l)}
    /\ IF vector[l] \in DOMAIN idt
       THEN Enter(vector[l]) /\ UNCHANGED status
       ELSE status' = "ungated" /\ UNCHANGED cpu
    /\ UNCHANGED <<tables, routines>>

(* The code that runs faults: the main program or a handler. *)
Fault(v) ==
    /\ Booted
    /\ Enter(v)
    /\ UNCHANGED <<tables, routines, pic, status>>

-----------------------------------------------------------------------------
(* Handlers *)

Running(at) == status = "up" /\ stack # <<>> /\ Top.at = at

Goto(at) == stack' = [stack EXCEPT ![Len(stack)].at = at]

(* It loops for ever, with interrupts off, or returns if int_no is no exception's. *)
fault_handler ==
    /\ Running("fault")
    /\ IF Top.int_no < NExc
       THEN status' = "halted" /\ UNCHANGED stack
       ELSE Goto("return") /\ UNCHANGED status
    /\ UNCHANGED <<tables, routines, iflag, pic>>

(* irq_handler calls irq_routines[int_no - 32] if that is not 0.  Past the array it
   is a word of other memory: 0, or an address to run off to. *)
irq_dispatch ==
    /\ Running("dispatch")
    /\ LET line == Top.int_no - NExc
       IN  IF line \in Lines
           THEN /\ stack' = [stack EXCEPT ![Len(stack)].at = "slave",
                                          ![Len(stack)].ran =
                                              IF line \in routines THEN line ELSE None]
                /\ UNCHANGED status
           ELSE \/ Goto("slave") /\ UNCHANGED status
                \/ status' = "astray" /\ UNCHANGED stack
    /\ UNCHANGED <<tables, routines, iflag, pic>>

(* An acknowledgement takes the first of the controller's lines out of service. *)
Acknowledged(S) == {l \in inservice \cap S : \A k \in inservice \cap S : l <= k}

irq_eoi_slave ==
    /\ Running("slave")
    /\ inservice' = IF Top.int_no >= NExc + NMaster
                    THEN inservice \ Acknowledged(Slave) ELSE inservice
    /\ Goto("master")
    /\ UNCHANGED <<tables, routines, iflag, requested, status>>

(* Mutant: the first controller's acknowledgement is the else of the second's. *)
irq_eoi_else ==
    /\ Running("master")
    /\ inservice' = IF Top.int_no >= NExc + NMaster
                    THEN inservice ELSE inservice \ Acknowledged(Master)
    /\ Goto("return")
    /\ UNCHANGED <<tables, routines, iflag, requested, status>>

irq_eoi_master ==
    /\ Running("master")
    /\ inservice' = inservice \ Acknowledged(Master)
    /\ Goto("return")
    /\ UNCHANGED <<tables, routines, iflag, requested, status>>

(* Mutant: the stubs take one word off, not the dummy. *)
Dropped_one == 1

(* add $8, %esp *)
Dropped == 2

(* The stub takes off two words and executes iret, which goes on where the
   interrupted code was only if that is what is then on top of the stack. *)
Return ==
    /\ Running("return")
    /\ IF Top.words = Dropped
       THEN stack' = Front(stack) /\ iflag' = Top.iflag /\ UNCHANGED status
       ELSE status' = "unbalanced" /\ UNCHANGED cpu
    /\ UNCHANGED <<tables, routines, pic>>

-----------------------------------------------------------------------------
Boot == \/ gdt_install \/ idt_install \/ isrs_install \/ irq_install
        \/ timer_install \/ sti

Handle == fault_handler \/ irq_dispatch \/ irq_eoi_slave \/ irq_eoi_master \/ Return

Next ==
    \/ Boot
    \/ \E l \in Devices : \/ Raise(l) \/ Deliver(l)
                          \/ irq_install_handler(l) \/ irq_uninstall_handler(l)
    \/ \E v \in Raised : Fault(v)
    \/ Handle

Spec == Init /\ [][Next]_vars

(* kernel_main and a handler go on running.  Line 0 is before every other, and the
   processor looks at its lines after every instruction that runs with interrupts
   on, iret included: requested often enough, line 0 is taken. *)
FairSpec ==
    /\ Spec
    /\ WF_vars(Boot)
    /\ WF_vars(Handle)
    /\ SF_vars(Deliver(0))

-----------------------------------------------------------------------------
(* Properties *)

Frames == [vector : Exceptions \cup Interrupts, int_no : Words, words : 0 .. 3,
           iflag : BOOLEAN, at : {"dispatch", "slave", "master", "fault", "return"},
           ran : Lines \cup {None}]

PresentGates == [lo : 0 .. Half - 1, hi : 0 .. Half - 1, sel : {CodeSelector}, flags : {142}]

(* The state keeps its types; only memory's words leave the arrays' ranges. *)
TypeOK ==
    /\ boot \in 0 .. Len(kernel_main)
    /\ gdt \in {<<>>, descriptors}
    /\ DOMAIN idt \subseteq Vectors
    /\ idt \in [DOMAIN idt -> PresentGates]
    /\ vector \in [Lines -> Vectors]
    /\ routines \subseteq Lines
    /\ iflag \in BOOLEAN
    /\ stack \in Seq(Frames) /\ Len(stack) <= MaxDepth
    /\ requested \subseteq Devices
    /\ inservice \subseteq Devices \cup {Cascade}
    /\ status \in {"up", "halted", "astray", "unbalanced", "ungated"}

\* The bit of weight b of x.
Bit(x, b) == (x \div b) % 2

(* How the processor reads a descriptor: present, from address 0 to the last, of 32
   bits (the weights 128 and 64 of granularity: pages, and 32-bit operands). *)
Flat(d) ==
    /\ Bit(d.access, 128) = 1 /\ Bit(d.access, 16) = 1
    /\ d.base_low = 0 /\ d.base_middle = 0 /\ d.base_high = 0
    /\ d.limit_low = Half - 1 /\ d.granularity % 16 = 15
    /\ Bit(d.granularity, 128) = 1 /\ Bit(d.granularity, 64) = 1

Code(d) == Bit(d.access, 8) = 1

WritableData(d) == Bit(d.access, 8) = 0 /\ Bit(d.access, 2) = 1

\* The descriptor a selector names, if there is one.
Selects(sel, Kind(_)) ==
    LET k == sel \div 8 + 1
    IN  k \in DOMAIN gdt /\ Flat(gdt[k]) /\ Kind(gdt[k])

(* A present interrupt gate of 32 bits, to the vector's own stub in flat code. *)
GateReady(v) ==
    /\ v \in DOMAIN idt
    /\ idt[v].hi * Half + idt[v].lo = Stub(v)
    /\ Bit(idt[v].flags, 128) = 1 /\ idt[v].flags % 16 = 14
    /\ Selects(idt[v].sel, Code)

(* From the moment kernel_main executes sti, every exception and every line of both
   controllers has a present gate to its own stub, in a loaded code segment over all
   of memory; the data segment the stubs load is as wide and writable; and no line
   shares its vector with an exception. *)
GatesReady ==
    boot = Len(kernel_main) =>
        /\ \A v \in Exceptions \cup Interrupts : GateReady(v)
        /\ Selects(DataSelector, WritableData)
        /\ \A l \in Lines : vector[l] = NExc + l

Unacknowledged == {i \in DOMAIN stack : stack[i].at \in {"dispatch", "slave", "master"}}

(* Interrupts are on only in the main program, so that irq_handler never runs on top
   of irq_handler or fault_handler, however faults and lines come. *)
NoNesting ==
    /\ iflag => stack = <<>>
    /\ \A i \in DOMAIN stack : stack[i].vector \in Interrupts => i = 1

(* The first controller has a line in service exactly while a handler that has not
   yet acknowledged is under way, and it is the line that handler was entered for:
   whatever number irq_handler read, its last acknowledgement is for its own line. *)
MasterInService ==
    status # "ungated" =>
        inservice \cap Master =
            {Wire(stack[i].vector - NExc) : i \in Unacknowledged}

(* Every iret finds the interrupted code's eip on top of the stack: the stubs and the
   processor together push two words for every exception and every line, which is
   what the common stubs take off. *)
ReturnsWhereInterrupted == status # "unbalanced"

HandlerFaults == \E i \in DOMAIN stack : i > 1

(* The timer's line, once raised, is taken up, unless fault_handler halted the system,
   irq_handler ran off or a handler itself faults, which may go on for ever: no line
   that stays unacknowledged shuts the timer out. *)
TimerTaken ==
    (0 \in requested) ~> (0 \notin requested \/ status # "up" \/ HandlerFaults)

(* What irq.c says of irq_handler: a line with a custom handler has that handler run. *)
CustomHandlerUsed ==
    \A i \in DOMAIN stack :
        /\ stack[i].at = "slave"
        /\ stack[i].vector - NExc \in routines
        => stack[i].ran = stack[i].vector - NExc
=============================================================================
