------------------------------- MODULE Serial -------------------------------
(***************************************************************************)
(* The serial port, serial.c: serial_init, write_serial, qemu_printf and   *)
(* vsprintf_helper, printing from kernel_main and from the handlers that   *)
(* interrupt it anywhere, between the test of the transmitter and the      *)
(* write to it included.  The port itself, a 16550, is external.           *)
(***************************************************************************)
EXTENDS Integers, Sequences, SequencesExt, Formats

CONSTANTS
    Prints,         \* what kernel_main prints: formats, sequences of pieces
    Fired,          \* irq_handler's format, less its number: a sequence of pieces
    Messages,       \* exception_messages: a sequence of pieces for each exception
    SystemHalted,   \* the format fault_handler prints after it
    Words,          \* what r->int_no may be: any word of memory (see Interrupts)
    WordCount,      \* 2^32: the values of an unsigned int
    FifoDepth,      \* bytes the transmitter holds once its queue is enabled
    MaxDepth        \* bound: kernel_main and handlers on top of each other

ASSUME SerialAssumption ==
    /\ MaxDepth \in Nat \ {0} /\ FifoDepth \in Nat /\ MaxDepth <= FifoDepth
    /\ WordCount \in Nat \ {0, 1} /\ Words \subseteq 0 .. WordCount - 1

VARIABLES
    boot,           \* how many of serial_init's writes are done; one more: sti
    dlab,           \* line control: the data port is the baud rate's latch
    queued,         \* the transmitter's queue is enabled
    waiting,        \* bytes in the transmitter
    stack,          \* who prints: kernel_main first, then the handlers on top of it
    halted          \* fault_handler's endless loop

port == <<dlab, queued, waiting>>
serial == <<boot, port, stack, halted>>

(* Mutant: the transmitter's queue stays off. *)
serial_init_noqueue ==
    <<<<1, 0>>, <<3, 128>>, <<0, 3>>, <<1, 0>>, <<3, 3>>, <<2, 0>>, <<4, 11>>>>

(* serial_init's writes: a register, counted from PORT, and a value. *)
serial_init == <<<<1, 0>>, <<3, 128>>, <<0, 3>>, <<1, 0>>, <<3, 3>>, <<2, 199>>, <<4, 11>>>>

-----------------------------------------------------------------------------
(* Numbers *)

Characters == <<"0", "1", "2", "3", "4", "5", "6", "7", "8", "9", "a", "b", "c", "d",
                "e", "f">>

ASSUME NumberAssumption ==
    {"u", "p", "-"} \cup {Characters[k] : k \in DOMAIN Characters} \subseteq Letters

Signed(w) == IF w < WordCount \div 2 THEN w ELSE w - WordCount

(* Digits come last one first, and there is at least one. *)
Digits(n, base) ==
    LET digits[m \in 0 .. WordCount - 1] ==
            <<Characters[(m % base) + 1]>> \o
            (IF m \div base = 0 THEN <<>> ELSE digits[m \div base])
    IN  digits[n]

(* Mutant: the digits are left as they come. *)
itoa_backwards(n, base) == Digits(n, base)

itoa(n, base) == Reverse(Digits(n, base))

(* The number case: only d looks at the sign; everything but d and u is printed in
   base 16, the 0 of a width included, and what follows it is text. *)
Number(c, w) ==
    LET minus == c = "d" /\ Signed(w) < 0
        uval  == IF minus THEN -Signed(w) ELSE w
    IN  (IF minus THEN <<"-">> ELSE <<>>)
        \o itoa(uval % WordCount, IF c \in {"d", "u"} THEN 10 ELSE 16)

NumberLetters == {"0", "d", "u", "x", "p"}

-----------------------------------------------------------------------------
(***************************************************************************)
(* Directives for numbers, and the text they stand for: Numeral is n in a   *)
(* base, by the value of its digits.                                       *)
(***************************************************************************)
Powers(base) ==
    LET power[k \in 0 .. WordCount] == IF k = 0 THEN 1 ELSE base * power[k - 1]
    IN  power

Numeral(n, base) ==
    LET power == Powers(base)
        len   == CHOOSE k \in 1 .. WordCount :
                    n < power[k] /\ \A j \in 1 .. k - 1 : n >= power[j]
    IN  [k \in 1 .. len |-> Characters[((n \div power[len - k]) % base) + 1]]

Unsigned(w) == [src |-> <<"%", "u">>, params |-> <<w>>, text |-> Numeral(w, 10)]
Pointer(w)  == [src |-> <<"%", "p">>, params |-> <<w>>, text |-> Numeral(w, 16)]
Decimal(w)  == [src |-> <<"%", "d">>, params |-> <<w>>,
                text |-> IF Signed(w) < 0 THEN <<"-">> \o Numeral(-Signed(w), 10)
                         ELSE Numeral(w, 10)]

IsNumber(p) ==
    /\ p.src \in {<<"%", "u">>, <<"%", "p">>, <<"%", "d">>}
    /\ p.params[1] \in 0 .. WordCount - 1
    /\ \/ p.src = <<"%", "u">> /\ p = Unsigned(p.params[1])
       \/ p.src = <<"%", "p">> /\ p = Pointer(p.params[1])
       \/ p.src = <<"%", "d">> /\ p = Decimal(p.params[1])

(* What is printed has no %%, which vsprintf_helper drops. *)
IsPrint(pieces) ==
    /\ IsSequence(pieces)
    /\ \A k \in DOMAIN pieces :
          IsNumber(pieces[k]) \/ (IsPiece(pieces[k]) /\ pieces[k] # Percent)

ASSUME PrintsAssumption ==
    /\ \A pieces \in Prints : IsPrint(pieces)
    /\ \A w \in DOMAIN Messages : IsPrint(Messages[w])
    /\ IsPrint(Fired) /\ IsPrint(SystemHalted)

-----------------------------------------------------------------------------
(* Who prints: a call of qemu_printf, what is left of its format, its parameters
   and its characters, and the calls that come after it.  at is "write" from the
   test that found the transmitter empty to the write. *)
Printer(who, pieces, next) ==
    [who |-> who, pieces |-> pieces, format |-> Source(pieces), params |-> Params(pieces),
     out |-> <<>>, put |-> <<>>, at |-> "scan", next |-> next]

SerialInit ==
    /\ boot = 0
    /\ dlab \in BOOLEAN /\ queued \in BOOLEAN /\ waiting = 0
    /\ stack = <<Printer("kernel_main", <<>>, <<>>)>>
    /\ halted = FALSE

Top   == Last(stack)
Depth == Len(stack)
Becomes(c) == stack' = [stack EXCEPT ![Depth] = c]

Up == boot = Len(serial_init) + 1 /\ ~halted

Over == Top.format = <<>> /\ Top.out = <<>>

-----------------------------------------------------------------------------
(* The 16550 *)

Capacity == IF queued THEN FifoDepth ELSE 1

(* A byte for the data port: of the baud rate, or to be sent, or lost. *)
Data == waiting' = IF dlab \/ waiting >= Capacity THEN waiting ELSE waiting + 1

outportb(reg, val) ==
    /\ IF reg = 0 THEN Data ELSE IF reg = 2 THEN waiting' = 0 ELSE UNCHANGED waiting
    /\ dlab' = IF reg = 3 THEN val >= 128 ELSE dlab
    /\ queued' = IF reg = 2 THEN val % 2 = 1 ELSE queued

(* A byte leaves. *)
Send ==
    /\ waiting > 0
    /\ waiting' = waiting - 1
    /\ UNCHANGED <<boot, dlab, queued, stack, halted>>

(* Mutant: another bit of the line status, set when a byte has been received. *)
is_transmit_empty_other == FALSE

is_transmit_empty == waiting = 0

-----------------------------------------------------------------------------
(* kernel_main *)

Configure ==
    /\ boot < Len(serial_init)
    /\ outportb(serial_init[boot + 1][1], serial_init[boot + 1][2])
    /\ boot' = boot + 1
    /\ UNCHANGED <<stack, halted>>

sti ==
    /\ boot = Len(serial_init)
    /\ boot' = boot + 1
    /\ UNCHANGED <<port, stack, halted>>

qemu_printf(pieces) ==
    /\ Up /\ Depth = 1 /\ Over
    /\ Becomes(Printer("kernel_main", pieces, <<>>))
    /\ UNCHANGED <<boot, port, halted>>

-----------------------------------------------------------------------------
(* vsprintf_helper, with putchar = write_serial *)

Scanning == Up /\ Top.at = "scan"

After(k) == SubSeq(Top.format, k, Len(Top.format))

Take(out, k, params) ==
    /\ Becomes([Top EXCEPT !.out = out, !.format = After(k), !.params = params])
    /\ UNCHANGED <<boot, port, halted>>

(* The next character or directive; an unknown directive prints nothing. *)
Scan ==
    /\ Scanning /\ Top.out = <<>> /\ Top.format # <<>>
    /\ LET c == Top.format[1]
           d == IF c = "%" THEN Top.format[2] ELSE c
       IN  \/ c # "%" /\ Take(<<c>>, 2, Top.params)
           \/ c = "%" /\ d \in NumberLetters
              /\ Take(Number(d, Head(Top.params)), 3, Tail(Top.params))
           \/ c = "%" /\ d \in {"c", "s"} /\ Take(Head(Top.params), 3, Tail(Top.params))
           \/ c = "%" /\ d \notin NumberLetters \cup {"c", "s"} /\ Take(<<>>, 3, Top.params)

(* write_serial: the loop ends when the transmitter is found empty ... *)
Test ==
    /\ Scanning /\ Top.out # <<>>
    /\ is_transmit_empty
    /\ Becomes([Top EXCEPT !.at = "write"])
    /\ UNCHANGED <<boot, port, halted>>

(* ... and the byte is written, whoever has written in between. *)
Write ==
    /\ Up /\ Top.at = "write"
    /\ outportb(0, Head(Top.out))
    /\ Becomes([Top EXCEPT !.at = "scan", !.out = Tail(@), !.put = Append(@, Head(Top.out))])
    /\ UNCHANGED <<boot, halted>>

-----------------------------------------------------------------------------
(* Handlers *)

Enter(c) == stack' = Append(stack, c) /\ UNCHANGED <<boot, port, halted>>

(* irq_handler prints its number.  Interrupts are on in kernel_main only. *)
Interrupt(w) ==
    /\ Up /\ Depth = 1 /\ Depth < MaxDepth
    /\ Enter(Printer("irq_handler", Fired \o <<Decimal(w)>>, <<>>))

(* Whoever runs faults: fault_handler prints the exception's message, or nothing
   when the number is none's. *)
Fault(w) ==
    /\ Up /\ Depth < MaxDepth
    /\ Enter(IF w \in DOMAIN Messages
             THEN Printer("fault_handler", Messages[w], <<SystemHalted>>)
             ELSE Printer("fault_handler", <<>>, <<>>))

NextCall ==
    /\ Scanning /\ Over /\ Top.next # <<>>
    /\ Becomes(Printer(Top.who, Head(Top.next), Tail(Top.next)))
    /\ UNCHANGED <<boot, port, halted>>

Halts == Top.who = "fault_handler" /\ Top.pieces # <<>>

(* A handler returns to what it interrupted, in whatever place that is. *)
Iret ==
    /\ Scanning /\ Depth > 1 /\ Over /\ Top.next = <<>>
    /\ IF Halts THEN halted' = TRUE /\ UNCHANGED stack
       ELSE stack' = Front(stack) /\ UNCHANGED halted
    /\ UNCHANGED <<boot, port>>

-----------------------------------------------------------------------------
SerialStep == Scan \/ Test \/ Write \/ NextCall \/ Iret

SerialNext ==
    \/ Configure \/ sti
    \/ \E pieces \in Prints : qemu_printf(pieces)
    \/ SerialStep
    \/ Send
    \/ \E w \in Words : Interrupt(w) \/ Fault(w)

SerialSpec == SerialInit /\ [][SerialNext]_serial

(* Handlers keep running and bytes keep leaving.  A byte takes a fraction of a
   millisecond and lines are raised milliseconds apart, so kernel_main,
   interrupted however often, has bytes leave and takes steps in between. *)
SerialFair ==
    /\ WF_serial(Send) /\ SF_serial(Depth = 1 /\ Send)
    /\ WF_serial(Depth > 1 /\ SerialStep) /\ SF_serial(Depth = 1 /\ SerialStep)

-----------------------------------------------------------------------------
SerialTypeOK ==
    /\ boot \in 0 .. Len(serial_init) + 1
    /\ dlab \in BOOLEAN /\ queued \in BOOLEAN /\ halted \in BOOLEAN
    /\ waiting \in 0 .. FifoDepth
    /\ Depth \in 1 .. MaxDepth
    /\ \A k \in 1 .. Depth : stack[k].at \in {"scan", "write"}

(* A write to the data port is always sent: the port is configured by then, and
   there is room, though handlers may have filled what the interrupted code found
   empty.  One byte for everybody who can be between test and write is all it takes. *)
NoByteLost == Up /\ Top.at = "write" => ~dlab /\ waiting < Capacity

(* Whoever else has printed in the middle of it, a call puts exactly the text its
   format stands for, in order: numbers of either sign, both bases and 0 included. *)
TextWhole ==
    \A k \in 1 .. Depth :
        LET c == stack[k]
        IN  /\ IsPrefix(c.put \o c.out, Text(c.pieces))
            /\ c.format = <<>> => c.put \o c.out = Text(c.pieces)

(* kernel_main's line comes to its end, unless the system halts or faults go on
   for ever, however often handlers print in the middle of it. *)
Faulting == Top.who = "fault_handler"

LineEnds ==
    []<>Faulting \/ ((Up /\ ~Over /\ Depth = 1) ~> (halted \/ (Over /\ Depth = 1)))
=============================================================================
