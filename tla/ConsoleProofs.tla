--------------------------- MODULE ConsoleProofs ----------------------------
(***************************************************************************)
(* Proofs about the serial port, for any formats, any depth of handlers    *)
(* and any transmitter with room for one byte of each of them; and that    *)
(* what is proved of each part of the console holds of the whole, a step   *)
(* of which is a step of each part or leaves it alone.                     *)
(*                                                                         *)
(* A byte is written some time after the test that found the transmitter   *)
(* empty.  The inductive invariant counts what may have come in between:   *)
(* only callers on top of the one that has tested have written since, each *)
(* at most one byte after its own test (RoomLeft); and serial_init is over *)
(* by then (PortReady).                                                    *)
(*                                                                         *)
(* What a call puts is the text of its format because at any time what it  *)
(* has put, what it is putting and the text of the pieces it has left are  *)
(* that text (ToPrint), and because itoa's recursion gives every number's  *)
(* numeral (ItoaIsNumeral).                                                *)
(***************************************************************************)
EXTENDS Console, StringsProofs, TerminalProofs, FormatsProofs

(***************************************************************************)
(* The serial port                                                         *)
(***************************************************************************)

Callers(s) == {s[k] : k \in DOMAIN s}

Replace(s, c) == [s EXCEPT ![Len(s)] = c]
Push(s, c)    == Append(s, c)

(* The stack is a sequence, kernel_main at its bottom, and callers have a place. *)
StackInv ==
    /\ stack \in Seq(Callers(stack))
    /\ \A k \in 1 .. Len(stack) :
          "at" \in DOMAIN stack[k] /\ stack[k].at \in {"scan", "write"}
    /\ Len(stack) \in 1 .. MaxDepth

(* What serial_init has set up by then, and that nobody prints before sti. *)
PortReady ==
    /\ boot >= 5 => ~dlab
    /\ boot >= 6 => queued
    /\ boot < 8 => \A k \in 1 .. Len(stack) : stack[k].at = "scan"

(* Since the caller at depth k found the transmitter empty, those above it have
   written a byte each at most. *)
RoomLeft ==
    \A k \in 1 .. Len(stack) : stack[k].at = "write" => waiting <= MaxDepth - k

PortType ==
    /\ boot \in 0 .. 8
    /\ dlab \in BOOLEAN /\ queued \in BOOLEAN /\ halted \in BOOLEAN
    /\ waiting \in 0 .. FifoDepth

SerialInv == PortType /\ StackInv /\ PortReady /\ RoomLeft

(***************************************************************************)
(* Printers on the stack and the port's registers                          *)
(***************************************************************************)

(* serial_init makes seven writes. *)
LEMMA SevenWrites == Len(serial_init) = 7
BY DEF serial_init

(* A function on 1 .. n is a sequence of length n, and the other way round. *)
LEMMA FunctionIsSeq ==
    ASSUME NEW S, NEW n \in Nat, NEW t, t \in [1 .. n -> S]
    PROVE  t \in Seq(S) /\ Len(t) = n
OBVIOUS

(* A sequence is the function of its elements. *)
LEMMA SeqIsFunction ==
    ASSUME NEW S, NEW t \in Seq(S)
    PROVE  Len(t) \in Nat /\ DOMAIN t = 1 .. Len(t) /\ t \in [1 .. Len(t) -> S]
OBVIOUS

(* Replacing the top of a stack leaves the rest as it is. *)
LEMMA TopReplaced ==
    ASSUME NEW s, s \in Seq(Callers(s)), Len(s) >= 1, NEW c, NEW t, t = Replace(s, c)
    PROVE  /\ t \in Seq(Callers(t)) /\ Len(t) = Len(s) /\ t[Len(s)] = c
           /\ \A k \in 1 .. Len(s) : k # Len(s) => t[k] = s[k]
<1>1. Len(s) \in Nat /\ DOMAIN s = 1 .. Len(s)
  OBVIOUS
<1>2. DOMAIN t = 1 .. Len(s) /\ t = [k \in 1 .. Len(s) |-> t[k]]
  BY <1>1 DEF Replace
<1>3. \A k \in 1 .. Len(s) : t[k] \in Callers(t)
  BY <1>2 DEF Callers
<1>4. t \in [1 .. Len(s) -> Callers(t)]
  BY <1>2, <1>3
<1>5. t \in Seq(Callers(t)) /\ Len(t) = Len(s)
  BY <1>1, <1>4, FunctionIsSeq
<1> QED BY <1>1, <1>5 DEF Replace

(* Pushing on a stack leaves what is below as it is. *)
LEMMA Pushed ==
    ASSUME NEW s, s \in Seq(Callers(s)), NEW c, NEW t, t = Push(s, c)
    PROVE  /\ t \in Seq(Callers(t)) /\ Len(t) = Len(s) + 1 /\ t[Len(s) + 1] = c
           /\ \A k \in 1 .. Len(s) : t[k] = s[k]
<1> DEFINE S == Callers(s) \cup {c}
<1>1. s \in Seq(S) /\ c \in S
  OBVIOUS
<1>2. /\ t \in Seq(S) /\ Len(t) = Len(s) + 1 /\ t[Len(s) + 1] = c
      /\ \A k \in 1 .. Len(s) : t[k] = s[k]
  BY <1>1 DEF Push
<1>3. Len(t) \in Nat /\ DOMAIN t = 1 .. Len(t) /\ t \in [1 .. Len(t) -> S]
  BY <1>2, SeqIsFunction
<1>4. t \in [1 .. Len(t) -> Callers(t)]
  BY <1>3 DEF Callers
<1>5. t \in Seq(Callers(t))
  BY <1>3, <1>4, FunctionIsSeq
<1> QED BY <1>2, <1>5

(* Popping a stack leaves what is below as it is. *)
LEMMA Popped ==
    ASSUME NEW s, s \in Seq(Callers(s)), Len(s) > 1, NEW t, t = Front(s)
    PROVE  /\ t \in Seq(Callers(t)) /\ Len(t) = Len(s) - 1
           /\ \A k \in 1 .. Len(s) - 1 : t[k] = s[k]
<1> DEFINE n == Len(s) - 1
<1>1. n \in Nat /\ n >= 1 /\ n <= Len(s) /\ Len(s) \in Nat
  OBVIOUS
<1>2. t = SubSeq(s, 1, n)
  BY DEF Front
<1> HIDE DEF n
<1>3. t \in Seq(Callers(s)) /\ Len(t) = n /\ \A k \in 1 .. n : t[k] = s[k]
  BY <1>1, <1>2
<1>4. DOMAIN t = 1 .. n /\ t \in [1 .. n -> Callers(s)]
  BY <1>1, <1>3
<1>5. t \in [1 .. n -> Callers(t)]
  BY <1>4 DEF Callers
<1>6. t \in Seq(Callers(t))
  BY <1>1, <1>5, FunctionIsSeq
<1> QED BY <1>3, <1>6 DEF n

(* A call starts with the scan of its format. *)
LEMMA PrinterScans ==
    ASSUME NEW who, NEW pieces, NEW next
    PROVE  "at" \in DOMAIN Printer(who, pieces, next) /\ Printer(who, pieces, next).at = "scan"
BY DEF Printer

(* The top is the last of the stack. *)
LEMMA TopIsLast == Top = stack[Len(stack)] /\ Depth = Len(stack)
BY DEF Top, Depth, Last

(* A step of the top, to another place of its call or to another call. *)
LEMMA TopSteps ==
    ASSUME StackInv, NEW c, Becomes(c), "at" \in DOMAIN c, c.at \in {"scan", "write"}
    PROVE  /\ StackInv'
           /\ Len(stack') = Len(stack) /\ stack'[Len(stack)] = c
           /\ \A k \in 1 .. Len(stack) : k # Len(stack) => stack'[k] = stack[k]
<1>1. stack' = Replace(stack, c)
  BY DEF Becomes, Depth, Replace
<1>2. stack \in Seq(Callers(stack)) /\ Len(stack) >= 1
  BY DEF StackInv
<1>3. /\ stack' \in Seq(Callers(stack')) /\ Len(stack') = Len(stack)
      /\ stack'[Len(stack)] = c
      /\ \A k \in 1 .. Len(stack) : k # Len(stack) => stack'[k] = stack[k]
  BY <1>1, <1>2, TopReplaced
<1> QED BY <1>3 DEF StackInv

(* A step of the top to a place where it has not tested the transmitter leaves
   those below what they had. *)
LEMMA ScanSteps ==
    ASSUME SerialInv, Up, NEW c, Becomes(c), "at" \in DOMAIN c, c.at = "scan",
           UNCHANGED <<boot, port, halted>>
    PROVE  SerialInv'
<1>1. /\ StackInv'
      /\ Len(stack') = Len(stack) /\ stack'[Len(stack)] = c
      /\ \A k \in 1 .. Len(stack) : k # Len(stack) => stack'[k] = stack[k]
  BY TopSteps DEF SerialInv
<1>2. PortType'
  BY DEF SerialInv, PortType, port
<1>3. PortReady'
  BY SevenWrites DEF SerialInv, PortReady, PortType, Up, port
<1>4. RoomLeft'
  BY <1>1 DEF SerialInv, RoomLeft, port
<1> QED BY <1>1, <1>2, <1>3, <1>4 DEF SerialInv

(* A write to a register leaves the transmitter within its queue. *)
LEMMA RegisterWritten ==
    ASSUME PortType, NEW reg, NEW val, outportb(reg, val), SerialAssumption
    PROVE  dlab' \in BOOLEAN /\ queued' \in BOOLEAN /\ waiting' \in 0 .. FifoDepth
<1>1. FifoDepth \in Nat /\ FifoDepth >= 1
  BY DEF SerialAssumption
<1>2. waiting \in 0 .. FifoDepth
  BY DEF PortType
<1>3. Capacity \in 1 .. FifoDepth
  BY <1>1 DEF Capacity
<1>4. Data => waiting' \in 0 .. FifoDepth
  BY <1>1, <1>2, <1>3 DEF Data
<1>5. waiting' \in 0 .. FifoDepth
  BY <1>1, <1>2, <1>4 DEF outportb
<1>6. dlab' \in BOOLEAN
  <2>1. dlab \in BOOLEAN
    BY DEF PortType
  <2>2. dlab' = (val >= 128) \/ dlab' = dlab
    BY DEF outportb
  <2>3. (val >= 128) \in BOOLEAN
    OBVIOUS
  <2> QED BY <2>1, <2>2, <2>3, Zenon
<1>7. queued' \in BOOLEAN
  <2>1. queued \in BOOLEAN
    BY DEF PortType
  <2>2. queued' = (val % 2 = 1) \/ queued' = queued
    BY DEF outportb
  <2> QED BY <2>1, <2>2, Zenon
<1> QED BY <1>5, <1>6, <1>7

(***************************************************************************)
(* A byte never finds the transmitter full                                 *)
(***************************************************************************)

(* kernel_main runs, with nothing to print, before serial_init. *)
LEMMA SerialInvInit == SerialInit /\ SerialAssumption => SerialInv
<1> SUFFICES ASSUME SerialInit, SerialAssumption PROVE SerialInv
  OBVIOUS
<1> DEFINE c == Printer("kernel_main", <<>>, <<>>)
<1>1. stack = <<c>> /\ "at" \in DOMAIN c /\ c.at = "scan"
  BY PrinterScans DEF SerialInit
<1> HIDE DEF c
<1>2. stack \in [1 .. 1 -> Callers(stack)] /\ stack[1] = c
  BY <1>1 DEF Callers
<1>3. stack \in Seq(Callers(stack)) /\ Len(stack) = 1
  BY <1>2, FunctionIsSeq
<1>4. StackInv
  BY <1>1, <1>2, <1>3 DEF StackInv, SerialAssumption
<1>5. PortType
  <2>1. boot \in 0 .. 8 /\ waiting \in 0 .. FifoDepth
    BY DEF SerialInit, SerialAssumption
  <2>2. dlab \in BOOLEAN /\ queued \in BOOLEAN /\ halted \in BOOLEAN
    BY Zenon DEF SerialInit
  <2> QED BY <2>1, <2>2 DEF PortType
<1>6. PortReady /\ RoomLeft
  BY <1>1, <1>2, <1>3 DEF PortReady, RoomLeft, SerialInit
<1> QED BY <1>4, <1>5, <1>6 DEF SerialInv

(* Every step keeps the invariant. *)
LEMMA SerialInvNext ==
    ASSUME SerialInv, [SerialNext]_serial, SerialAssumption
    PROVE  SerialInv'
<1> USE DEF SerialInv
<1>0. /\ MaxDepth \in Nat /\ FifoDepth \in Nat /\ MaxDepth <= FifoDepth /\ MaxDepth >= 1
      /\ Len(stack) \in 1 .. MaxDepth /\ waiting \in Nat /\ boot \in Nat
  BY DEF SerialAssumption, StackInv, PortType
<1>1. CASE Configure
  <2>1. boot \in 0 .. 6 /\ boot' = boot + 1 /\ stack' = stack /\ halted' = halted
    BY <1>1, SevenWrites DEF Configure, PortType
  <2>2. outportb(serial_init[boot + 1][1], serial_init[boot + 1][2])
    BY <1>1 DEF Configure
  <2>3. dlab' \in BOOLEAN /\ queued' \in BOOLEAN /\ waiting' \in 0 .. FifoDepth
    BY <2>2, RegisterWritten
  <2>4. PortType'
    BY <2>1, <2>3 DEF PortType
  <2>5. StackInv'
    BY <2>1 DEF StackInv
  <2>6. \A k \in 1 .. Len(stack) : stack[k].at = "scan"
    BY <2>1 DEF PortReady
  <2>7. RoomLeft'
    BY <2>1, <2>6 DEF RoomLeft
  <2>8. boot = 4 => outportb(3, 3)
    BY <2>2 DEF serial_init
  <2>9. boot = 5 => outportb(2, 199)
    BY <2>2 DEF serial_init
  <2>10. boot = 6 => outportb(4, 11)
    BY <2>2 DEF serial_init
  <2>11. boot = 4 => ~dlab'
    <3>1. ~(3 >= 128)
      OBVIOUS
    <3>2. boot = 4 => dlab' = (3 >= 128)
      BY <2>8 DEF outportb
    <3> QED BY <3>1, <3>2, Zenon
  <2>12. boot = 5 => ~dlab' /\ queued'
    <3>1. 199 % 2 = 1
      OBVIOUS
    <3>2. boot = 5 => dlab' = dlab /\ queued' = (199 % 2 = 1)
      BY <2>9 DEF outportb
    <3>3. boot = 5 => ~dlab
      BY DEF PortReady
    <3> QED BY <3>1, <3>2, <3>3, Zenon
  <2>13. boot = 6 => ~dlab' /\ queued'
    BY <2>10 DEF outportb, PortReady
  <2>14. PortReady'
    BY <2>1, <2>6, <2>11, <2>12, <2>13 DEF PortReady
  <2> QED BY <2>4, <2>5, <2>7, <2>14
<1>2. CASE sti
  <2>1. boot = 7 /\ boot' = 8 /\ UNCHANGED <<dlab, queued, waiting, stack, halted>>
    BY <1>2, SevenWrites DEF sti, port
  <2> QED BY <2>1 DEF PortType, StackInv, PortReady, RoomLeft
<1>3. ASSUME NEW pieces \in Prints, qemu_printf(pieces) PROVE SerialInv'
  <2> DEFINE c == Printer("kernel_main", pieces, <<>>)
  <2>1. "at" \in DOMAIN c /\ c.at = "scan"
    BY PrinterScans
  <2>2. Up /\ Becomes(c) /\ UNCHANGED <<boot, port, halted>>
    BY <1>3 DEF qemu_printf
  <2> QED BY <2>1, <2>2, ScanSteps
<1>4. CASE Scan
  <2>1. Up /\ Top.at = "scan" /\ "at" \in DOMAIN Top
    BY <1>0, <1>4, TopIsLast DEF Scan, Scanning, StackInv
  <2>2. PICK out, k, params : Take(out, k, params)
    BY <1>4 DEF Scan
  <2> DEFINE c == [Top EXCEPT !.out = out, !.format = After(k), !.params = params]
  <2>3. "at" \in DOMAIN c /\ c.at = "scan"
    BY <2>1
  <2>4. Becomes(c) /\ UNCHANGED <<boot, port, halted>>
    BY <2>2 DEF Take
  <2> QED BY <2>1, <2>3, <2>4, ScanSteps
<1>5. CASE Test
  <2> DEFINE c == [Top EXCEPT !.at = "write"]
  <2>1. Up /\ "at" \in DOMAIN Top
    BY <1>0, <1>5, TopIsLast DEF Test, Scanning, StackInv
  <2>2. "at" \in DOMAIN c /\ c.at = "write"
    BY <2>1
  <2>3. Becomes(c) /\ waiting = 0 /\ UNCHANGED <<boot, dlab, queued, waiting, halted>>
    BY <1>5 DEF Test, is_transmit_empty, port
  <2> HIDE DEF c
  <2>4. StackInv' /\ Len(stack') = Len(stack)
    BY <2>2, <2>3, TopSteps
  <2>5. PortType' /\ PortReady'
    BY <2>1, <2>3, SevenWrites DEF PortType, PortReady, Up
  <2>6. RoomLeft'
    BY <1>0, <2>3, <2>4 DEF RoomLeft
  <2> QED BY <2>4, <2>5, <2>6
<1>6. CASE Write
  <2> DEFINE c == [Top EXCEPT !.at = "scan", !.out = Tail(Top.out),
                              !.put = Append(Top.put, Head(Top.out))]
  <2>1. Up /\ Top.at = "write" /\ "at" \in DOMAIN Top /\ Top = stack[Len(stack)]
    BY <1>0, <1>6, TopIsLast DEF Write, StackInv
  <2>2. "at" \in DOMAIN c /\ c.at = "scan"
    BY <2>1
  <2>3. Becomes(c) /\ UNCHANGED <<boot, halted>> /\ outportb(0, Head(Top.out))
    BY <1>6 DEF Write
  <2> HIDE DEF c
  <2>4. /\ StackInv'
        /\ Len(stack') = Len(stack) /\ stack'[Len(stack)] = c
        /\ \A k \in 1 .. Len(stack) : k # Len(stack) => stack'[k] = stack[k]
    BY <2>2, <2>3, TopSteps
  <2>5. PortType'
    BY <2>3, RegisterWritten DEF PortType
  <2>6. dlab' = dlab /\ queued' = queued /\ waiting' <= waiting + 1
    BY <1>0, <2>3 DEF outportb, Data
  <2>7. PortReady'
    BY <2>1, <2>3, <2>6, SevenWrites DEF PortReady, Up
  <2>8. waiting <= MaxDepth - Len(stack)
    BY <1>0, <2>1 DEF RoomLeft
  <2>9. waiting' \in Nat
    BY <1>0, <2>5 DEF PortType
  <2>10. ASSUME NEW k \in 1 .. Len(stack'), stack'[k].at = "write"
         PROVE  waiting' <= MaxDepth - k
    <3>1. k # Len(stack)
      BY <2>2, <2>4, <2>10
    <3>2. k <= Len(stack) - 1
      BY <1>0, <2>4, <3>1
    <3> QED BY <1>0, <2>6, <2>8, <2>9, <3>2
  <2> QED BY <2>4, <2>5, <2>7, <2>10 DEF RoomLeft
<1>7. CASE NextCall
  <2> DEFINE c == Printer(Top.who, Head(Top.next), Tail(Top.next))
  <2>1. "at" \in DOMAIN c /\ c.at = "scan"
    BY PrinterScans
  <2>2. Up /\ Becomes(c) /\ UNCHANGED <<boot, port, halted>>
    BY <1>7 DEF NextCall, Scanning
  <2> QED BY <2>1, <2>2, ScanSteps
<1>8. CASE Iret
  <2>1. Up /\ Len(stack) > 1 /\ UNCHANGED <<boot, dlab, queued, waiting>> /\ halted' \in BOOLEAN
    BY <1>8 DEF Iret, Scanning, Depth, port, PortType
  <2>2. CASE stack' = stack
    BY <2>1, <2>2, SevenWrites DEF PortType, StackInv, PortReady, RoomLeft, Up
  <2>3. CASE stack' = Front(stack)
    <3>1. /\ stack' \in Seq(Callers(stack')) /\ Len(stack') = Len(stack) - 1
          /\ \A k \in 1 .. Len(stack) - 1 : stack'[k] = stack[k]
      BY <2>1, <2>3, Popped DEF StackInv
    <3>2. StackInv'
      BY <1>0, <2>1, <3>1 DEF StackInv
    <3>3. PortType' /\ PortReady'
      BY <2>1, SevenWrites DEF PortType, PortReady, Up
    <3>4. RoomLeft'
      BY <1>0, <2>1, <3>1 DEF RoomLeft
    <3> QED BY <3>2, <3>3, <3>4
  <2> QED BY <1>8, <2>2, <2>3 DEF Iret
<1>9. CASE Send
  <2>1. waiting' = waiting - 1 /\ waiting > 0 /\ UNCHANGED <<boot, dlab, queued, stack, halted>>
    BY <1>9 DEF Send
  <2> QED BY <1>0, <2>1 DEF PortType, StackInv, PortReady, RoomLeft
<1>10. ASSUME NEW w \in Words, Interrupt(w) \/ Fault(w) PROVE SerialInv'
  <2>1. PICK who, pieces, next : Enter(Printer(who, pieces, next))
    <3>1. CASE Interrupt(w)
      BY <3>1 DEF Interrupt
    <3>2. CASE Fault(w) /\ w \in DOMAIN Messages
      BY <3>2 DEF Fault
    <3>3. CASE Fault(w) /\ w \notin DOMAIN Messages
      BY <3>3 DEF Fault
    <3> QED BY <1>10, <3>1, <3>2, <3>3
  <2> DEFINE c == Printer(who, pieces, next)
  <2>2. "at" \in DOMAIN c /\ c.at = "scan"
    BY PrinterScans
  <2>3. Up /\ Len(stack) < MaxDepth
    BY <1>10 DEF Interrupt, Fault, Depth
  <2>4. stack' = Push(stack, c) /\ UNCHANGED <<boot, dlab, queued, waiting, halted>>
    BY <2>1 DEF Enter, Push, port
  <2> HIDE DEF c
  <2>5. /\ stack' \in Seq(Callers(stack')) /\ Len(stack') = Len(stack) + 1
        /\ stack'[Len(stack) + 1] = c
        /\ \A k \in 1 .. Len(stack) : stack'[k] = stack[k]
    BY <2>4, Pushed DEF StackInv
  <2>6. StackInv'
    BY <1>0, <2>2, <2>3, <2>5 DEF StackInv
  <2>7. PortType' /\ PortReady'
    BY <2>3, <2>4, SevenWrites DEF PortType, PortReady, Up
  <2>8. RoomLeft'
    BY <1>0, <2>2, <2>4, <2>5 DEF RoomLeft
  <2> QED BY <2>6, <2>7, <2>8
<1>11. CASE UNCHANGED serial
  BY <1>11 DEF serial, port, PortType, StackInv, PortReady, RoomLeft
<1> QED
  BY <1>1, <1>2, <1>3, <1>4, <1>5, <1>6, <1>7, <1>8, <1>9, <1>10, <1>11
  DEF SerialNext, SerialStep

(* The invariant holds throughout. *)
LEMMA SerialInvariance == SerialSpec => []SerialInv
BY SerialInvInit, SerialInvNext, SerialAssumption, PTL DEF SerialSpec

(* write_serial's byte is always sent, though handlers may have filled what the
   interrupted code found empty. *)
THEOREM BytesAreSent == SerialSpec => []NoByteLost
<1>1. SerialInv => NoByteLost
  <2> SUFFICES ASSUME SerialInv, Up, Top.at = "write" PROVE ~dlab /\ waiting < Capacity
    BY DEF NoByteLost
  <2>1. ~dlab /\ queued
    BY SevenWrites DEF SerialInv, PortReady, Up
  <2>2. Len(stack) \in 1 .. MaxDepth /\ stack[Len(stack)].at = "write" /\ waiting \in Nat
    BY TopIsLast DEF SerialInv, StackInv, PortType
  <2>3. waiting <= MaxDepth - Len(stack)
    BY <2>2, SerialAssumption DEF SerialInv, RoomLeft, SerialAssumption
  <2> QED BY <2>1, <2>2, <2>3, SerialAssumption DEF Capacity, SerialAssumption
<1> QED BY <1>1, SerialInvariance, PTL

(* The state of the port and of its callers is of its type. *)
THEOREM SerialTypeCorrect == SerialSpec => []SerialTypeOK
<1>1. SerialInv => SerialTypeOK
  BY SevenWrites, TopIsLast DEF SerialInv, PortType, StackInv, SerialTypeOK
<1> QED BY <1>1, SerialInvariance, PTL

(***************************************************************************)
(* Numbers                                                                 *)
(***************************************************************************)

Power(base, p, n) ==
    p = [k \in 0 .. n |-> IF k = 0 THEN 1 ELSE base * p[k - 1]]

(* There is a function of the powers. *)
LEMMA PowersExist ==
    ASSUME NEW base \in Nat, NEW m \in Nat
    PROVE  \E p : Power(base, p, m)
<1> DEFINE T == {n \in Nat : \E p : Power(base, p, n)}
<1>1. 0 \in T
  <2> DEFINE p == [k \in 0 .. 0 |-> 1]
  <2>1. Power(base, p, 0)
    BY DEF Power
  <2> QED BY <2>1
<1>2. ASSUME NEW n \in T PROVE n + 1 \in T
  <2>0. n \in Nat /\ n + 1 \in Nat
    OBVIOUS
  <2>1. PICK p : Power(base, p, n)
    OBVIOUS
  <2> HIDE DEF T
  <2> DEFINE q == [k \in 0 .. n + 1 |-> IF k = n + 1 THEN base * p[n] ELSE p[k]]
  <2>2. ASSUME NEW k \in 0 .. n + 1 PROVE q[k] = IF k = 0 THEN 1 ELSE base * q[k - 1]
    <3>1. CASE k = n + 1
      <4>1. k # 0 /\ k - 1 = n /\ n \in 0 .. n + 1 /\ n # n + 1
        BY <2>0, <3>1
      <4>2. q[n] = p[n] /\ q[k] = base * p[n]
        BY <3>1, <4>1
      <4> QED BY <4>1, <4>2
    <3>2. CASE k # n + 1
      <4>1. k \in 0 .. n /\ q[k] = p[k] /\ p[k] = IF k = 0 THEN 1 ELSE base * p[k - 1]
        BY <2>0, <2>1, <3>2 DEF Power
      <4>2. k # 0 => k - 1 \in 0 .. n + 1 /\ k - 1 # n + 1 /\ q[k - 1] = p[k - 1]
        BY <2>0, <4>1
      <4> QED BY <4>1, <4>2
    <3> QED BY <3>1, <3>2
  <2>3. q = [k \in 0 .. n + 1 |-> q[k]]
    OBVIOUS
  <2> HIDE DEF q
  <2>4. Power(base, q, n + 1)
    BY <2>2, <2>3 DEF Power
  <2> QED BY <2>0, <2>4 DEF T
<1>3. T \in SUBSET Nat
  OBVIOUS
<1> HIDE DEF T
<1>4. T = Nat
  BY <1>1, <1>2, <1>3, SetInduction
<1> QED BY <1>4 DEF T

(* Powers of a base from 2 on: they grow faster than their exponents. *)
LEMMA PowersOf ==
    ASSUME NEW base \in Nat, base >= 2, WordCount \in Nat,
           NEW p, p = Powers(base)
    PROVE  /\ p[0] = 1
           /\ \A k \in 1 .. WordCount : p[k] = base * p[k - 1]
           /\ \A k \in 0 .. WordCount : p[k] \in Nat /\ p[k] > k
<1> DEFINE c == CHOOSE q : Power(base, q, WordCount)
<1>1. Power(base, c, WordCount)
  <2>1. \E q : Power(base, q, WordCount)
    BY PowersExist
  <2> QED BY <2>1, Zenon
<1>2. p = c
  BY DEF Powers, Power
<1> HIDE DEF c
<1>3. /\ p[0] = 1
      /\ \A k \in 1 .. WordCount : p[k] = base * p[k - 1]
  <2>1. p = [k \in 0 .. WordCount |-> IF k = 0 THEN 1 ELSE base * p[k - 1]]
    BY <1>1, <1>2, Zenon DEF Power
  <2>2. \A k \in 0 .. WordCount : p[k] = IF k = 0 THEN 1 ELSE base * p[k - 1]
    BY <2>1, Zenon
  <2> QED BY <2>2
<1> DEFINE T == {k \in Nat : k <= WordCount => p[k] \in Nat /\ p[k] > k}
<1>4. 0 \in T
  BY <1>3
<1>5. ASSUME NEW k \in T PROVE k + 1 \in T
  <2> SUFFICES ASSUME k + 1 <= WordCount PROVE p[k + 1] \in Nat /\ p[k + 1] > k + 1
    <3>1. k + 1 \in Nat
      OBVIOUS
    <3> QED BY <3>1
  <2>1. k \in Nat /\ k <= WordCount /\ p[k] \in Nat /\ p[k] > k
    OBVIOUS
  <2>2. k + 1 \in 1 .. WordCount /\ (k + 1) - 1 = k
    BY <2>1
  <2>3. p[k + 1] = base * p[k]
    BY <1>3, <2>2
  <2> DEFINE x == p[k]
  <2>4. x \in Nat /\ x > k
    BY <2>1
  <2> HIDE DEF x, T
  <2>5. base * x \in Nat /\ base * x >= 2 * x
    BY <2>4
  <2>6. base * x > k + 1
    BY <2>1, <2>4, <2>5
  <2> QED BY <2>3, <2>5, <2>6 DEF x
<1>6. T \in SUBSET Nat
  OBVIOUS
<1> HIDE DEF T
<1>7. T = Nat
  BY <1>4, <1>5, <1>6, SetInduction
<1> QED BY <1>3, <1>7 DEF T

(* n has k digits in base. *)
Length(n, p, k) ==
    k \in 1 .. WordCount /\ n < p[k] /\ \A j \in 1 .. k - 1 : n >= p[j]

(* A number has one length. *)
LEMMA LengthIs ==
    ASSUME NEW base \in Nat, base >= 2, WordCount \in Nat \ {0},
           NEW n \in 0 .. WordCount - 1
    PROVE  /\ \E k : Length(n, Powers(base), k)
           /\ \A k, j : Length(n, Powers(base), k) /\ Length(n, Powers(base), j) => k = j
<1> DEFINE p == Powers(base)
<1>1. \A k \in 0 .. WordCount : p[k] \in Nat /\ p[k] > k
  BY PowersOf
<1> HIDE DEF p
<1> DEFINE S == {k \in 1 .. WordCount : n < p[k]}
<1>2. WordCount \in S
  BY <1>1
<1>3. S \in SUBSET Nat /\ S # {}
  BY <1>2
<1>4. PICK k \in S : \A j \in S : k <= j
  BY <1>3, LeastNatural
<1>5. \A j \in 1 .. k - 1 : n >= p[j]
  <2> TAKE j \in 1 .. k - 1
  <2>1. j \in 1 .. WordCount /\ ~ (k <= j)
    BY <1>4
  <2>2. ~ (n < p[j])
    BY <1>4, <2>1
  <2> QED BY <1>1, <2>1, <2>2
<1>6. Length(n, p, k)
  BY <1>4, <1>5 DEF Length
<1>7. ASSUME NEW j, NEW y, Length(n, p, j), Length(n, p, y) PROVE y = j
  <2>1. y \in 1 .. WordCount /\ j \in 1 .. WordCount
    BY <1>7 DEF Length
  <2>2. p[y] \in Nat /\ p[j] \in Nat
    BY <1>1, <2>1
  <2> QED BY <1>7, <2>1, <2>2 DEF Length
<1> QED BY <1>6, <1>7 DEF p

(* Dividing by a base and then by p is dividing by their product. *)
LEMMA DivideTwice ==
    ASSUME NEW n \in Nat, NEW base \in {10, 16}, NEW p \in Nat \ {0}
    PROVE  n \div (base * p) = (n \div base) \div p
<1> DEFINE q == n \div base
           u == q \div p
           x == u * p
<1>1. q \in Nat /\ base * q <= n /\ n < base * q + base
  OBVIOUS
<1> HIDE DEF q
<1>2. u \in Nat /\ x \in Nat /\ x <= q /\ q < x + p
  BY <1>1
<1> HIDE DEF u
<1>3. base * x = u * (base * p) /\ base * x \in Nat /\ base * p \in Nat \ {0}
  BY <1>2
<1> HIDE DEF x
<1>4. base * x <= n /\ n < base * x + base * p
  BY <1>1, <1>2
<1> DEFINE d == base * p
<1>5. d \in Nat \ {0} /\ u * d <= n /\ n < u * d + d /\ u \in Nat
  BY <1>2, <1>3, <1>4
<1> HIDE DEF d
<1>6. n \div d = u
  BY <1>5
<1> QED BY <1>6 DEF d, u, q

(* The letter of a digit. *)
LEMMA DigitLetter ==
    ASSUME NEW n \in Nat, NEW base \in {10, 16}
    PROVE  Characters[(n % base) + 1] \in Letters
<1>1. (n % base) + 1 \in 1 .. 16
  OBVIOUS
<1>2. DOMAIN Characters = 1 .. 16
  BY DEF Characters
<1>3. \A k \in 1 .. 16 : Characters[k] \in Letters
  BY <1>2, NumberAssumption
<1> QED BY <1>1, <1>3

(* A number's numeral, given its length. *)
LEMMA NumeralIs ==
    ASSUME NEW base \in {10, 16}, NEW n \in 0 .. WordCount - 1,
           NEW k, Length(n, Powers(base), k)
    PROVE  /\ Numeral(n, base) =
                 [y \in 1 .. k |-> Characters[((n \div Powers(base)[k - y]) % base) + 1]]
           /\ Numeral(n, base) \in Seq(Letters) /\ Len(Numeral(n, base)) = k
<1>0. WordCount \in Nat \ {0} /\ base \in Nat /\ base >= 2
  BY SerialAssumption
<1> DEFINE p == Powers(base)
           len == CHOOSE j \in 1 .. WordCount : n < p[j] /\ \A y \in 1 .. j - 1 : n >= p[y]
           s   == [y \in 1 .. k |-> Characters[((n \div p[k - y]) % base) + 1]]
<1>1. k \in 1 .. WordCount /\ n < p[k] /\ \A y \in 1 .. k - 1 : n >= p[y]
  BY DEF Length
<1>2. len \in 1 .. WordCount /\ n < p[len] /\ \A y \in 1 .. len - 1 : n >= p[y]
  <2>1. \E j \in 1 .. WordCount : n < p[j] /\ \A y \in 1 .. j - 1 : n >= p[y]
    BY <1>1, Zenon
  <2> QED BY <2>1, Zenon
<1> HIDE DEF len, p
<1>3. Length(n, p, len)
  BY <1>2 DEF Length
<1>4. len = k
  BY <1>0, <1>3, LengthIs DEF p
<1>5. Numeral(n, base) = s
  <2>1. Numeral(n, base) = [y \in 1 .. len |-> Characters[((n \div p[len - y]) % base) + 1]]
    BY Zenon DEF Numeral, len, p
  <2> QED BY <1>4, <2>1
<1>6. ASSUME NEW y \in 1 .. k PROVE s[y] \in Letters
  <2>1. k - y \in 0 .. WordCount
    BY <1>0, <1>1
  <2>2. p[k - y] \in Nat /\ p[k - y] > k - y
    BY <1>0, <2>1, PowersOf DEF p
  <2> DEFINE x == p[k - y]
  <2>3. x \in Nat \ {0}
    BY <2>1, <2>2
  <2> HIDE DEF x
  <2>4. n \div x \in Nat
    BY <2>3
  <2> QED BY <2>4, DigitLetter DEF x
<1> HIDE DEF s
<1>7. s \in Seq(Letters) /\ Len(s) = k
  <2>1. k \in Nat
    BY <1>0, <1>1
  <2>2. s = [y \in 1 .. k |-> s[y]]
    BY DEF s
  <2> QED BY <1>6, <2>1, <2>2
<1> QED BY <1>5, <1>7 DEF s, p

(* A digit more is another character at the end. *)
LEMMA NumeralGrows ==
    ASSUME NEW base \in {10, 16}, NEW n \in 0 .. WordCount - 1
    PROVE  /\ Numeral(n, base) \in Seq(Letters)
           /\ n < base => Numeral(n, base) = <<Characters[(n % base) + 1]>>
           /\ n >= base => Numeral(n, base) =
                              Append(Numeral(n \div base, base), Characters[(n % base) + 1])
<1> DEFINE p == Powers(base)
           c == Characters[(n % base) + 1]
           q == n \div base
<1>0. WordCount \in Nat \ {0} /\ base \in Nat /\ base >= 2 /\ n \in Nat /\ n < WordCount
  BY SerialAssumption
<1>1. /\ p[0] = 1
      /\ \A k \in 1 .. WordCount : p[k] = base * p[k - 1]
      /\ \A k \in 0 .. WordCount : p[k] \in Nat /\ p[k] > k
  BY <1>0, PowersOf
<1>2. Numeral(n, base) \in Seq(Letters)
  BY <1>0, LengthIs, NumeralIs
<1>3. p[1] = base
  <2>1. 1 \in 1 .. WordCount /\ 1 - 1 = 0
    BY <1>0
  <2>2. p[1] = base * p[0]
    BY <1>1, <2>1
  <2> QED BY <1>0, <1>1, <2>2
<1>4. c \in Letters
  BY <1>0, DigitLetter
<1>5. CASE n < base
  <2>1. Length(n, p, 1)
    BY <1>0, <1>3, <1>5 DEF Length
  <2>2. Numeral(n, base) = [y \in 1 .. 1 |-> Characters[((n \div p[1 - y]) % base) + 1]]
    <3>1. 1 \in Nat
      OBVIOUS
    <3> HIDE DEF p
    <3> QED BY <2>1, NumeralIs DEF p
  <2>3. ((n \div p[1 - 1]) % base) + 1 = (n % base) + 1
    <3>1. n \div 1 = n
      BY <1>0
    <3> QED BY <1>1, <3>1
  <2> HIDE DEF p
  <2> DEFINE s == Numeral(n, base)
  <2>4. s[1] = c /\ Len(s) = 1
    BY <2>1, <2>2, <2>3, NumeralIs DEF p
  <2> HIDE DEF s, c
  <2>5. s = <<c>>
    BY <1>2, <2>4 DEF s
  <2> QED BY <1>2, <1>5, <2>5 DEF s, c
<1>6. CASE n >= base
  <2>1. q \in Nat /\ q < n /\ q >= 1 /\ base * q <= n /\ n < base * q + base
    BY <1>0, <1>6
  <2>2. q \in 0 .. WordCount - 1
    BY <1>0, <2>1
  <2> HIDE DEF p, q
  <2>3. PICK l : Length(q, p, l)
    BY <1>0, <2>2, LengthIs DEF p
  <2>4. l \in 1 .. WordCount /\ q < p[l] /\ \A j \in 1 .. l - 1 : q >= p[j]
    BY <2>3 DEF Length
  <2>5. p[l] <= n
    <3>1. CASE l = 1
      BY <1>3, <1>6, <3>1
    <3>2. CASE l # 1
      <4>1. l - 1 \in 1 .. l - 1 /\ l - 1 \in 0 .. WordCount
        BY <1>0, <2>4, <3>2
      <4> DEFINE x == p[l - 1]
      <4>2. q >= x /\ x \in Nat /\ p[l] = base * x
        BY <1>1, <2>4, <4>1
      <4> HIDE DEF x
      <4> QED BY <2>1, <4>2
    <3> QED BY <3>1, <3>2
  <2>6. l + 1 \in 1 .. WordCount
    <3>1. p[l] \in Nat /\ p[l] > l
      BY <1>0, <1>1, <2>4
    <3> QED BY <1>0, <2>4, <2>5, <3>1
  <2>7. n < p[l + 1]
    <3> DEFINE x == p[l]
    <3>1. x \in Nat /\ q < x /\ p[l + 1] = base * x
      <4>1. (l + 1) - 1 = l /\ l \in 0 .. WordCount
        BY <1>0, <2>4
      <4> QED BY <1>1, <2>4, <2>6, <4>1
    <3> HIDE DEF x
    <3>2. base * (q + 1) <= base * x
      BY <2>1, <3>1
    <3> QED BY <2>1, <3>1, <3>2
  <2>8. ASSUME NEW j \in 1 .. (l + 1) - 1 PROVE n >= p[j]
    <3>1. CASE j = l
      BY <2>5, <3>1, <1>0, <1>1, <2>4
    <3>2. CASE j # l
      <4>1. j \in 1 .. l - 1 /\ j \in 0 .. WordCount
        BY <1>0, <2>4, <2>8, <3>2
      <4>2. q >= p[j] /\ p[j] \in Nat
        BY <1>1, <2>4, <4>1
      <4>3. n >= q
        BY <1>0, <2>1
      <4> DEFINE x == p[j]
      <4> HIDE DEF x
      <4> QED BY <1>0, <2>1, <4>2, <4>3
    <3> QED BY <3>1, <3>2
  <2>9. Length(n, p, l + 1)
    BY <2>6, <2>7, <2>8 DEF Length
  <2> DEFINE s == Numeral(n, base)
             t == Numeral(q, base)
             e == Append(t, c)
  <2>10. /\ s = [y \in 1 .. l + 1 |-> Characters[((n \div p[(l + 1) - y]) % base) + 1]]
         /\ s \in Seq(Letters) /\ Len(s) = l + 1
    BY <2>9, NumeralIs DEF p
  <2>11. /\ t = [y \in 1 .. l |-> Characters[((q \div p[l - y]) % base) + 1]]
         /\ t \in Seq(Letters) /\ Len(t) = l
    BY <2>2, <2>3, NumeralIs DEF p
  <2>12. ASSUME NEW y \in 1 .. l + 1 PROVE s[y] = e[y]
    <3>1. CASE y = l + 1
      <4>1. n \div p[(l + 1) - y] = n
        <5>1. (l + 1) - y = 0 /\ n \div 1 = n
          BY <1>0, <2>4, <3>1
        <5> QED BY <1>1, <5>1
      <4>2. s[y] = c
        BY <2>10, <4>1
      <4> HIDE DEF t, s, c
      <4>3. Append(t, c)[Len(t) + 1] = c
        <5>1. t \in Seq(Letters)
          BY <2>11
        <5> QED BY <1>4, <5>1
      <4> QED BY <2>11, <3>1, <4>2, <4>3
    <3>2. CASE y # l + 1
      <4>1. y \in 1 .. l /\ l - y \in 0 .. WordCount /\ (l + 1) - y \in 1 .. WordCount
            /\ ((l + 1) - y) - 1 = l - y
        BY <1>0, <2>4, <2>6, <3>2
      <4> DEFINE x == p[l - y]
      <4>2. p[(l + 1) - y] = base * x /\ x \in Nat \ {0}
        BY <1>1, <4>1
      <4> HIDE DEF x
      <4>3. n \div (base * x) = q \div x
        BY <1>0, <4>2, DivideTwice DEF q
      <4>4. s[y] = Characters[((q \div x) % base) + 1]
        BY <2>10, <4>2, <4>3
      <4>5. t[y] = Characters[((q \div x) % base) + 1]
        BY <2>11, <4>1 DEF x
      <4>6. s[y] = t[y]
        BY <4>4, <4>5
      <4> HIDE DEF t, s, c
      <4>7. Append(t, c)[y] = t[y]
        <5>1. t \in Seq(Letters) /\ y \in 1 .. Len(t)
          BY <2>11, <4>1
        <5> QED BY <1>4, <5>1
      <4> QED BY <4>6, <4>7
    <3> QED BY <3>1, <3>2
  <2> HIDE DEF t, c, s
  <2>13. e \in Seq(Letters) /\ Len(e) = l + 1
    <3>1. t \in Seq(Letters) /\ Len(t) = l
      BY <2>11
    <3> QED BY <1>4, <3>1
  <2> HIDE DEF e
  <2>14. s = e
    BY <2>10, <2>12, <2>13, SeqEqual
  <2> QED BY <1>2, <1>6, <2>14 DEF s, e, t, c, q
<1> QED BY <1>5, <1>6, <1>0

(* Reversing a sequence that a character is put before, and one that it is put after. *)
LEMMA ReverseAppended ==
    ASSUME NEW s \in Seq(Letters), NEW c \in Letters
    PROVE  /\ Reverse(Append(s, c)) = <<c>> \o Reverse(s)
           /\ Reverse(s) \in Seq(Letters) /\ Len(Reverse(s)) = Len(s)
           /\ Reverse(Reverse(s)) = s
<1> DEFINE n == Len(s)
           r == [y \in 1 .. n |-> s[(n - y) + 1]]
           a == Append(s, c)
           b == <<c>> \o r
           d == [y \in 1 .. n + 1 |-> a[((n + 1) - y) + 1]]
<1>1. n \in Nat /\ DOMAIN s = 1 .. n /\ \A y \in 1 .. n : s[y] \in Letters
  OBVIOUS
<1>2. a \in Seq(Letters) /\ Len(a) = n + 1 /\ a[n + 1] = c /\ \A y \in 1 .. n : a[y] = s[y]
  OBVIOUS
<1>3. Reverse(s) = r
  BY DEF Reverse
<1>4. Reverse(a) = d
  BY <1>2 DEF Reverse
<1> HIDE DEF n
<1>5. \A y \in 1 .. n : (n - y) + 1 \in 1 .. n /\ (n - ((n - y) + 1)) + 1 = y
  BY <1>1
<1>6. r \in Seq(Letters) /\ Len(r) = n
  BY <1>1, <1>5
<1>7. \A y \in 1 .. n : r[y] = s[(n - y) + 1]
  OBVIOUS
<1> HIDE DEF r
<1>8. b \in Seq(Letters) /\ Len(b) = n + 1 /\ b[1] = c /\ \A y \in 2 .. n + 1 : b[y] = r[y - 1]
  BY <1>1, <1>6
<1>9. d \in Seq(Letters) /\ Len(d) = n + 1
  <2>1. \A y \in 1 .. n + 1 : ((n + 1) - y) + 1 \in 1 .. n + 1
    BY <1>1
  <2>2. \A y \in 1 .. n + 1 : a[y] \in Letters
    BY <1>2
  <2> HIDE DEF a
  <2>3. \A y \in 1 .. n + 1 : d[y] \in Letters
    BY <2>1, <2>2
  <2> QED BY <1>1, <2>3
<1>10. ASSUME NEW y \in 1 .. n + 1 PROVE d[y] = b[y]
  <2>0. d[y] = a[((n + 1) - y) + 1]
    OBVIOUS
  <2> HIDE DEF d, a, b
  <2>1. CASE y = 1
    <3>1. ((n + 1) - y) + 1 = n + 1
      BY <1>1, <2>1
    <3> QED BY <1>2, <1>8, <2>0, <2>1, <3>1
  <2>2. CASE y # 1
    <3>1. y - 1 \in 1 .. n /\ y \in 2 .. n + 1 /\ ((n + 1) - y) + 1 \in 1 .. n
          /\ (n - (y - 1)) + 1 = ((n + 1) - y) + 1
      BY <1>1, <2>2
    <3>2. d[y] = s[((n + 1) - y) + 1]
      BY <1>2, <2>0, <3>1
    <3>3. b[y] = r[y - 1]
      BY <1>8, <3>1
    <3>4. r[y - 1] = s[(n - (y - 1)) + 1]
      BY <1>7, <3>1
    <3> QED BY <3>1, <3>2, <3>3, <3>4
  <2> QED BY <2>1, <2>2
<1> DEFINE e == [y \in 1 .. n |-> r[(n - y) + 1]]
<1>11. Reverse(r) = e
  BY <1>6 DEF Reverse
<1>12. ASSUME NEW y \in 1 .. n PROVE e[y] = s[y]
  <2>1. e[y] = r[(n - y) + 1]
    OBVIOUS
  <2> HIDE DEF e
  <2>2. r[(n - y) + 1] = s[(n - ((n - y) + 1)) + 1]
    BY <1>5, <1>7
  <2> QED BY <1>5, <2>1, <2>2
<1>13. e \in Seq(Letters) /\ Len(e) = n
  <2>1. \A y \in 1 .. n : e[y] \in Letters
    BY <1>1, <1>12
  <2> QED BY <1>1, <2>1
<1> HIDE DEF d, a, b, e
<1>14. d = b
  BY <1>1, <1>8, <1>9, <1>10, SeqEqual
<1>15. e = s
  <2>1. Len(s) = n
    BY DEF n
  <2> QED BY <1>1, <1>12, <1>13, <2>1, SeqEqual
<1> QED BY <1>3, <1>4, <1>6, <1>11, <1>14, <1>15 DEF a, b, n

(* The recursive function of Digits. *)
Recursion(base, f) ==
    f = [m \in 0 .. WordCount - 1 |->
            <<Characters[(m % base) + 1]>> \o
            (IF m \div base = 0 THEN <<>> ELSE f[m \div base])]

(* itoa gives a number's numeral, whatever the number. *)
LEMMA ItoaIsNumeral ==
    ASSUME NEW base \in {10, 16}, NEW n \in 0 .. WordCount - 1
    PROVE  itoa(n, base) = Numeral(n, base) /\ Numeral(n, base) \in Seq(Letters)
<1> DEFINE W == 0 .. WordCount - 1
           N(m) == Numeral(m, base)
           g == [m \in W |-> Reverse(N(m))]
           digits == CHOOSE f : Recursion(base, f)
           last(m) == <<Characters[(m % base) + 1]>>
<1>0. WordCount \in Nat \ {0} /\ base \in Nat /\ base >= 2
  BY SerialAssumption
<1>1. ASSUME NEW m \in W
      PROVE  /\ m \div base \in W /\ (m \div base = 0 <=> m < base)
             /\ m \div base # 0 => m \div base < m
  BY <1>0
<1>2. ASSUME NEW m \in W PROVE N(m) \in Seq(Letters)
  BY NumeralGrows
<1>3. ASSUME NEW m \in W
      PROVE  Reverse(N(m)) =
                last(m) \o (IF m \div base = 0 THEN <<>> ELSE Reverse(N(m \div base)))
  <2> DEFINE c == Characters[(m % base) + 1]
             q == m \div base
  <2>1. c \in Letters
    BY <1>0, DigitLetter
  <2>2. CASE m < base
    <3>1. q = 0 /\ N(m) = <<c>>
      BY <1>1, <2>2, NumeralGrows
    <3> HIDE DEF c, q, N
    <3>2. <<c>> = Append(<<>>, c) /\ <<>> \in Seq(Letters)
      BY <2>1
    <3>3. Reverse(Append(<<>>, c)) = <<c>> \o Reverse(<<>>)
      BY <2>1, <3>2, ReverseAppended
    <3>4. Reverse(<<>>) = <<>>
      BY DEF Reverse
    <3> QED BY <3>1, <3>2, <3>3, <3>4 DEF q, c
  <2>3. CASE ~ (m < base)
    <3>1. m >= base /\ q # 0 /\ q \in W
      BY <1>0, <1>1, <2>3
    <3>2. N(m) = Append(N(q), c)
      BY <3>1, NumeralGrows
    <3>3. N(q) \in Seq(Letters)
      BY <1>2, <3>1
    <3> DEFINE s == N(q)
    <3> HIDE DEF s, c
    <3>4. Reverse(Append(s, c)) = <<c>> \o Reverse(s)
      BY <2>1, <3>3, ReverseAppended DEF s
    <3> HIDE DEF N, q
    <3> QED BY <3>1, <3>2, <3>4 DEF s, c, q
  <2> QED BY <2>2, <2>3
<1> HIDE DEF N, last
<1>4. Recursion(base, g)
  <2>1. ASSUME NEW m \in W
        PROVE  Reverse(N(m)) = last(m) \o (IF m \div base = 0 THEN <<>> ELSE g[m \div base])
    BY <1>1, <1>3
  <2>2. g = [m \in W |-> last(m) \o (IF m \div base = 0 THEN <<>> ELSE g[m \div base])]
    BY <2>1
  <2> HIDE DEF g
  <2> QED BY <2>2 DEF Recursion, last
<1> HIDE DEF g
<1>5. Recursion(base, digits)
  BY <1>4, Zenon
<1> HIDE DEF digits
<1>6. ASSUME NEW m \in W
      PROVE  digits[m] = last(m) \o (IF m \div base = 0 THEN <<>> ELSE digits[m \div base])
  BY <1>5 DEF Recursion, last
<1> DEFINE T == {m \in Nat : m \in W => digits[m] = Reverse(N(m))}
<1>7. ASSUME NEW m \in Nat, \A k \in 0 .. m - 1 : k \in T PROVE m \in T
  <2> SUFFICES ASSUME m \in W PROVE digits[m] = Reverse(N(m))
    OBVIOUS
  <2>1. m \div base # 0 => digits[m \div base] = Reverse(N(m \div base))
    <3>1. ASSUME m \div base # 0 PROVE m \div base \in 0 .. m - 1 /\ m \div base \in W
      BY <1>1, <3>1
    <3> QED BY <1>7, <3>1
  <2> HIDE DEF T
  <2>2. CASE m \div base = 0
    BY <1>3, <1>6, <2>2
  <2>3. CASE m \div base # 0
    BY <1>3, <1>6, <2>1, <2>3
  <2> QED BY <2>2, <2>3
<1>8. T \in SUBSET Nat
  OBVIOUS
<1> HIDE DEF T
<1>9. T = Nat
  BY <1>7, <1>8, SetStrongInduction
<1>10. digits[n] = Reverse(N(n))
  <2>1. n \in Nat
    OBVIOUS
  <2>2. n \in T
    BY <1>9, <2>1
  <2> QED BY <2>2 DEF T
<1>11. Digits(n, base) = digits[n]
  BY DEF Digits, digits, Recursion
<1>12. Reverse(Reverse(N(n))) = N(n)
  <2> DEFINE s == N(n)
  <2>1. s \in Seq(Letters) /\ "0" \in Letters
    <3>1. Characters[1] = "0" /\ 1 \in DOMAIN Characters
      BY DEF Characters
    <3> QED BY <1>2, <3>1, NumberAssumption
  <2> HIDE DEF s
  <2>2. Reverse(Reverse(s)) = s
    BY <2>1, ReverseAppended
  <2> QED BY <2>2 DEF s
<1> QED BY <1>2, <1>10, <1>11, <1>12 DEF itoa, N

(* The number case prints a number's text. *)
LEMMA NumberText ==
    ASSUME NEW w \in 0 .. WordCount - 1
    PROVE  /\ Number("u", w) = Unsigned(w).text /\ Number("u", w) \in Seq(Letters)
           /\ Number("p", w) = Pointer(w).text /\ Number("p", w) \in Seq(Letters)
           /\ Number("d", w) = Decimal(w).text /\ Number("d", w) \in Seq(Letters)
<1>0. WordCount \in Nat /\ WordCount >= 2 /\ w \in Nat /\ w < WordCount
  BY SerialAssumption
<1> DEFINE a == Numeral(w, 10)
           b == Numeral(w, 16)
           n == -Signed(w)
           z == Numeral(n, 10)
<1>1. w % WordCount = w
  BY <1>0
<1>2. /\ itoa(w, 10) = a /\ a \in Seq(Letters)
      /\ itoa(w, 16) = b /\ b \in Seq(Letters)
  BY ItoaIsNumeral
<1>3. <<>> \o a = a /\ <<>> \o b = b
  <2> HIDE DEF a, b
  <2> QED BY <1>2, ConcatEmptySeq
<1>4. Number("u", w) = <<>> \o a
  <2>1. Number("u", w) = <<>> \o itoa(w % WordCount, 10)
    BY DEF Number
  <2> QED BY <1>1, <1>2, <2>1
<1>5. Number("p", w) = <<>> \o b
  <2>1. Number("p", w) = <<>> \o itoa(w % WordCount, 16)
    BY DEF Number
  <2> QED BY <1>1, <1>2, <2>1
<1>6. CASE ~ (Signed(w) < 0)
  <2>1. Number("d", w) = <<>> \o itoa(w % WordCount, 10)
    BY <1>6 DEF Number
  <2>2. Number("d", w) = a
    BY <1>1, <1>2, <1>3, <2>1
  <2>3. Decimal(w).text = a
    BY <1>6 DEF Decimal
  <2> QED BY <1>2, <1>3, <1>4, <1>5, <2>2, <2>3 DEF Unsigned, Pointer
<1>7. CASE Signed(w) < 0
  <2>1. n \in 0 .. WordCount - 1 /\ n % WordCount = n
    BY <1>0, <1>7 DEF Signed
  <2>2. Number("d", w) = <<"-">> \o itoa(n % WordCount, 10)
    BY <1>7 DEF Number
  <2> HIDE DEF n
  <2>3. itoa(n, 10) = z /\ z \in Seq(Letters)
    BY <2>1, ItoaIsNumeral
  <2>4. Number("d", w) = <<"-">> \o z
    BY <2>1, <2>2, <2>3
  <2>5. Decimal(w).text = <<"-">> \o z
    BY <1>7 DEF Decimal, n
  <2> HIDE DEF z
  <2>6. <<"-">> \o z \in Seq(Letters)
    <3>1. <<"-">> \in Seq(Letters)
      BY NumberAssumption
    <3> DEFINE m == <<"-">>
    <3> HIDE DEF m
    <3>2. m \o z \in Seq(Letters)
      BY <2>3, <3>1, ConcatProperties DEF m
    <3> QED BY <3>2 DEF m
  <2> QED BY <1>2, <1>3, <1>4, <1>5, <2>4, <2>5, <2>6 DEF Unsigned, Pointer
<1> QED BY <1>6, <1>7

(***************************************************************************)
(* The pieces of qemu_printf's formats                                     *)
(***************************************************************************)

(* Parameters are strings and words. *)
Parameters == Seq(Letters) \cup 0 .. WordCount - 1

Printable == {p \in PieceOf(Parameters) : IsNumber(p) \/ (IsPiece(p) /\ p # Percent)}

(* The characters of a piece, its parameter, and the text they stand for. *)
LEMMA PrintableForms ==
    ASSUME NEW p \in Printable
    PROVE  \/ /\ Len(p.src) = 1 /\ p.src[1] # "%"
              /\ p.text = p.src /\ p.params = <<>>
           \/ /\ Len(p.src) = 2 /\ p.src[1] = "%" /\ p.src[2] \in {"c", "s"}
              /\ p.params = <<p.text>>
           \/ /\ Len(p.src) = 2 /\ p.src[1] = "%" /\ p.src[2] \in {"u", "p", "d"}
              /\ \E w \in 0 .. WordCount - 1 :
                    p.params = <<w>> /\ p.text = Number(p.src[2], w)
<1>1. CASE IsPiece(p) /\ p # Percent
  BY <1>1, PieceForm
<1>2. CASE IsNumber(p)
  <2> DEFINE w == p.params[1]
  <2>1. w \in 0 .. WordCount - 1
    BY <1>2 DEF IsNumber
  <2>2. \/ p.src = <<"%", "u">> /\ p = Unsigned(w)
        \/ p.src = <<"%", "p">> /\ p = Pointer(w)
        \/ p.src = <<"%", "d">> /\ p = Decimal(w)
    BY <1>2 DEF IsNumber
  <2> HIDE DEF w
  <2>3. CASE p.src = <<"%", "u">> /\ p = Unsigned(w)
    <3>1. p.params = <<w>>
      BY <2>3 DEF Unsigned
    <3>2. p.text = Number("u", w)
      BY <2>1, <2>3, NumberText
    <3> QED BY <2>1, <2>3, <3>1, <3>2
  <2>4. CASE p.src = <<"%", "p">> /\ p = Pointer(w)
    <3>1. p.params = <<w>>
      BY <2>4 DEF Pointer
    <3>2. p.text = Number("p", w)
      BY <2>1, <2>4, NumberText
    <3> QED BY <2>1, <2>4, <3>1, <3>2
  <2>5. CASE p.src = <<"%", "d">> /\ p = Decimal(w)
    <3>1. p.params = <<w>>
      BY <2>5 DEF Decimal
    <3>2. p.text = Number("d", w)
      BY <2>1, <2>5, NumberText
    <3> QED BY <2>1, <2>5, <3>1, <3>2
  <2> QED BY <2>2, <2>3, <2>4, <2>5
<1> QED BY <1>1, <1>2 DEF Printable

(* Numbers and pieces are made of sequences. *)
LEMMA NumberTyped ==
    ASSUME NEW w \in 0 .. WordCount - 1
    PROVE  /\ Unsigned(w) \in PieceOf(Parameters) /\ Pointer(w) \in PieceOf(Parameters)
           /\ Decimal(w) \in PieceOf(Parameters)
<1>1. <<w>> \in Seq(Parameters)
  <2>1. w \in Parameters
    BY DEF Parameters
  <2> HIDE DEF Parameters
  <2> QED BY <2>1
<1>2. {"%", "u", "p", "d"} \subseteq Letters
  <2>1. Characters[14] = "d" /\ 14 \in DOMAIN Characters
    BY DEF Characters
  <2> QED BY <2>1, LettersAssumption, NumberAssumption
<1>3. <<"%", "u">> \in Seq(Letters) /\ <<"%", "p">> \in Seq(Letters) /\ <<"%", "d">> \in Seq(Letters)
  BY <1>2
<1>4. /\ Unsigned(w).text \in Seq(Letters) /\ Pointer(w).text \in Seq(Letters)
      /\ Decimal(w).text \in Seq(Letters)
  BY NumberText
<1>5. Unsigned(w) \in PieceOf(Parameters)
  <2> DEFINE t == Unsigned(w).text
  <2>1. Unsigned(w) = [src |-> <<"%", "u">>, params |-> <<w>>, text |-> t]
    BY DEF Unsigned
  <2> HIDE DEF t
  <2> QED BY <1>1, <1>3, <1>4, <2>1, RecordTyped DEF t
<1>6. Pointer(w) \in PieceOf(Parameters)
  <2> DEFINE t == Pointer(w).text
  <2>1. Pointer(w) = [src |-> <<"%", "p">>, params |-> <<w>>, text |-> t]
    BY DEF Pointer
  <2> HIDE DEF t
  <2> QED BY <1>1, <1>3, <1>4, <2>1, RecordTyped DEF t
<1>7. Decimal(w) \in PieceOf(Parameters)
  <2> DEFINE t == Decimal(w).text
  <2>1. Decimal(w) = [src |-> <<"%", "d">>, params |-> <<w>>, text |-> t]
    BY DEF Decimal
  <2> HIDE DEF t
  <2> QED BY <1>1, <1>3, <1>4, <2>1, RecordTyped DEF t
<1> QED BY <1>5, <1>6, <1>7

(* What is printed are sequences of such pieces. *)
LEMMA PrintsTyped ==
    ASSUME NEW r, IsPrint(r)
    PROVE  r \in Seq(Printable)
<1>1. ASSUME NEW k \in DOMAIN r PROVE r[k] \in Printable
  <2> DEFINE p == r[k]
  <2>1. IsNumber(p) \/ (IsPiece(p) /\ p # Percent)
    BY DEF IsPrint
  <2> HIDE DEF p
  <2>2. CASE IsNumber(p)
    <3>1. p \in PieceOf(Parameters)
      BY <2>2, NumberTyped DEF IsNumber
    <3> QED BY <2>2, <3>1 DEF Printable, p
  <2>3. CASE IsPiece(p) /\ p # Percent
    <3>1. p \in PieceOf(Seq(Letters))
      BY <2>3, PieceTyped
    <3>2. Seq(Letters) \subseteq Parameters
      BY DEF Parameters
    <3> HIDE DEF Parameters
    <3>3. p \in PieceOf(Parameters)
      BY <3>1, <3>2, SeqMonotonic DEF PieceOf
    <3> QED BY <2>3, <3>3 DEF Printable, p
  <2> QED BY <2>1, <2>2, <2>3
<1>2. Len(r) \in Nat /\ r = [k \in 1 .. Len(r) |-> r[k]]
  BY DEF IsPrint, IsSequence
<1>3. DOMAIN r = 1 .. Len(r)
  BY <1>2
<1> QED BY <1>1, <1>2, <1>3

(***************************************************************************)
(* Callers and what they have to print                                     *)
(***************************************************************************)

Printers == [who : {"kernel_main", "irq_handler", "fault_handler"}, pieces : Seq(Printable),
             format : Seq(Letters), params : Seq(Parameters), out : Seq(Letters),
             put : Seq(Letters), at : {"scan", "write"}, next : Seq(Seq(Printable))]

(* The pieces r are what is left of c's format: what it has put, what it is putting
   and what they stand for are the text of the whole format. *)
ToPrint(c, r) ==
    /\ r \in Seq(Printable)
    /\ c.format = Source(r) /\ c.params = Params(r)
    /\ Text(c.pieces) = (c.put \o c.out) \o Text(r)

(* Callers that have something left, after which they have put all of it; and have a
   byte to write when they have tested for it. *)
Whole == {c \in Printers : (c.at = "write" => c.out # <<>>) /\ \E r : ToPrint(c, r)}

TextInv == stack \in Seq(Whole) /\ stack # <<>>

(* A format begins with its first piece, and the rest is a format. *)
LEMMA RestOfPrint ==
    ASSUME NEW r \in Seq(Printable), r # <<>>
    PROVE  /\ r \in Seq(PieceOf(Parameters)) /\ r[1] \in Printable /\ Tail(r) \in Seq(Printable)
           /\ Source(r) = r[1].src \o Source(Tail(r))
           /\ Params(r) = r[1].params \o Params(Tail(r))
           /\ Text(r) = r[1].text \o Text(Tail(r))
           /\ r[1].src \in Seq(Letters) /\ r[1].params \in Seq(Parameters)
           /\ r[1].text \in Seq(Letters)
<1>1. r \in Seq(PieceOf(Parameters))
  <2>1. Printable \subseteq PieceOf(Parameters)
    BY DEF Printable
  <2> QED BY <2>1, SeqMonotonic
<1>2. r[1] \in Printable /\ Tail(r) \in Seq(Printable)
  BY HeadTailProperties
<1>3. r[1] \in PieceOf(Parameters)
  BY <1>2 DEF Printable
<1>4. /\ r[1].src \in Seq(Letters) /\ r[1].params \in Seq(Parameters)
      /\ r[1].text \in Seq(Letters)
  BY <1>3 DEF PieceOf
<1> QED BY <1>1, <1>2, <1>4, FormatCons

(* A format's characters, parameters and text are sequences. *)
LEMMA PrintTyped ==
    ASSUME NEW r \in Seq(Printable)
    PROVE  Source(r) \in Seq(Letters) /\ Params(r) \in Seq(Parameters) /\ Text(r) \in Seq(Letters)
<1>1. r \in Seq(PieceOf(Parameters))
  <2>1. Printable \subseteq PieceOf(Parameters)
    BY DEF Printable
  <2> QED BY <2>1, SeqMonotonic
<1> QED BY <1>1, FieldsTyped

(* A record of such fields is a caller. *)
LEMMA PrinterRecord ==
    ASSUME NEW who \in {"kernel_main", "irq_handler", "fault_handler"},
           NEW pieces \in Seq(Printable), NEW format \in Seq(Letters),
           NEW params \in Seq(Parameters), NEW next \in Seq(Seq(Printable)),
           NEW c, c = [who |-> who, pieces |-> pieces, format |-> format, params |-> params,
                       out |-> <<>>, put |-> <<>>, at |-> "scan", next |-> next]
    PROVE  c \in Printers
BY DEF Printers

(* A call begins with the whole format left. *)
LEMMA PrinterWhole ==
    ASSUME NEW who \in {"kernel_main", "irq_handler", "fault_handler"},
           NEW pieces \in Seq(Printable), NEW next \in Seq(Seq(Printable))
    PROVE  Printer(who, pieces, next) \in Whole
<1> DEFINE c == Printer(who, pieces, next)
           s == Source(pieces)
           q == Params(pieces)
           t == Text(pieces)
<1>1. s \in Seq(Letters) /\ q \in Seq(Parameters) /\ t \in Seq(Letters)
  BY PrintTyped
<1>2. c = [who |-> who, pieces |-> pieces, format |-> s, params |-> q,
           out |-> <<>>, put |-> <<>>, at |-> "scan", next |-> next]
  BY DEF Printer
<1> HIDE DEF c, s, q, t
<1>3. c \in Printers
  BY <1>1, <1>2, PrinterRecord
<1>4. /\ c.pieces = pieces /\ c.format = s /\ c.params = q
      /\ c.out = <<>> /\ c.put = <<>> /\ c.at = "scan"
  BY <1>2
<1>5. t = (<<>> \o <<>>) \o t
  <2>1. <<>> \o t = t
    BY <1>1, ConcatEmptySeq
  <2>2. <<>> \o <<>> = <<>>
    OBVIOUS
  <2> QED BY <2>1, <2>2
<1>6. ToPrint(c, pieces)
  BY <1>4, <1>5 DEF ToPrint, s, q, t
<1> QED BY <1>3, <1>4, <1>6 DEF Whole, c

(* A piece taken from the format moves its text to what is being put. *)
LEMMA TakenWhole ==
    ASSUME NEW c \in Whole, c.out = <<>>, c.at = "scan", NEW r, ToPrint(c, r), r # <<>>,
           NEW out \in Seq(Letters), Text(r) = out \o Text(Tail(r)),
           NEW format, format = Source(Tail(r)), NEW params, params = Params(Tail(r))
    PROVE  [c EXCEPT !.out = out, !.format = format, !.params = params] \in Whole
<1> DEFINE d == [c EXCEPT !.out = out, !.format = format, !.params = params]
           z == Tail(r)
           u == c.put
           t == Text(z)
           w == Text(c.pieces)
<1>1. c \in Printers /\ u \in Seq(Letters)
  BY DEF Whole, Printers
<1>2. r \in Seq(Printable) /\ w = (u \o <<>>) \o Text(r)
  BY DEF ToPrint
<1>3. z \in Seq(Printable) /\ Text(r) = out \o t /\ out \in Seq(Letters)
  BY <1>2, RestOfPrint
<1>4. format \in Seq(Letters) /\ params \in Seq(Parameters) /\ t \in Seq(Letters)
  BY <1>3, PrintTyped
<1>5. d \in Printers
  BY <1>1, <1>3, <1>4 DEF Printers
<1>6. /\ d.pieces = c.pieces /\ d.format = format /\ d.params = params
      /\ d.out = out /\ d.put = u /\ d.at = "scan"
  BY <1>1 DEF Printers
<1> HIDE DEF d, u, t, w, z
<1>7. w = (u \o out) \o t
  <2>1. u \o <<>> = u
    BY <1>1, ConcatEmptySeq
  <2>2. (u \o out) \o t = u \o (out \o t)
    <3>1. u \in Seq(Letters) /\ out \in Seq(Letters) /\ t \in Seq(Letters)
      BY <1>1, <1>3, <1>4
    <3> QED BY <3>1, ConcatAssociative
  <2> QED BY <1>2, <1>3, <2>1, <2>2
<1>8. ToPrint(d, z)
  BY <1>3, <1>6, <1>7 DEF ToPrint, z, t, w
<1> QED BY <1>5, <1>6, <1>8 DEF Whole, d

(* The stack after a step of its top, of a handler that enters and of one that
   returns. *)
LEMMA StackWhole ==
    ASSUME TextInv
    PROVE  /\ Top \in Whole /\ Len(stack) \in Nat /\ Len(stack) >= 1
           /\ \A c \in Whole : Becomes(c) => TextInv'
           /\ \A c \in Whole : stack' = Append(stack, c) => TextInv'
           /\ Len(stack) > 1 /\ stack' = Front(stack) => TextInv'
<1>1. stack \in Seq(Whole) /\ Len(stack) \in Nat /\ Len(stack) >= 1
  BY DEF TextInv
<1>2. Top \in Whole
  BY <1>1 DEF Top, Last
<1>3. ASSUME NEW c \in Whole, Becomes(c) PROVE TextInv'
  BY <1>1, <1>3 DEF TextInv, Becomes, Depth
<1>4. ASSUME NEW c \in Whole, stack' = Append(stack, c) PROVE TextInv'
  BY <1>1, <1>4 DEF TextInv
<1>5. ASSUME Len(stack) > 1, stack' = Front(stack) PROVE TextInv'
  <2> DEFINE n == Len(stack) - 1
  <2>1. n \in 1 .. Len(stack) /\ stack' = SubSeq(stack, 1, n)
    BY <1>1, <1>5 DEF Front
  <2> HIDE DEF n
  <2>2. stack' \in Seq(Whole) /\ Len(stack') = n
    BY <1>1, <2>1
  <2> QED BY <2>1, <2>2 DEF TextInv
<1> QED BY <1>1, <1>2, <1>3, <1>4, <1>5

(* The next piece is scanned: its text is put next, and the rest is left. *)
LEMMA ScanWhole == ASSUME TextInv, Scan PROVE TextInv'
<1>1. /\ Top \in Whole /\ Top.at = "scan" /\ Top.out = <<>> /\ Top.format # <<>>
  BY StackWhole DEF Scan, Scanning
<1> DEFINE c == Top
           f == Top.format
<1>2. PICK r : ToPrint(c, r)
  BY <1>1 DEF Whole
<1>3. r \in Seq(Printable) /\ f = Source(r) /\ c.params = Params(r)
  BY <1>2 DEF ToPrint
<1>4. r # <<>>
  BY <1>1, <1>3, FormatEmpty
<1> DEFINE p == r[1]
           z == Tail(r)
<1>5. /\ p \in Printable /\ z \in Seq(Printable)
      /\ Params(r) = p.params \o Params(z) /\ Text(r) = p.text \o Text(z)
      /\ p.src \in Seq(Letters) /\ p.text \in Seq(Letters) /\ r \in Seq(PieceOf(Parameters))
  BY <1>3, <1>4, RestOfPrint
<1>6. /\ Len(p.src) \in Nat
      /\ \A y \in 1 .. Len(p.src) : f[y] = p.src[y]
      /\ SubSeq(f, Len(p.src) + 1, Len(f)) = Source(z)
  BY <1>3, <1>4, <1>5, FrontOfSource
<1>7. Params(z) \in Seq(Parameters)
  BY <1>5, PrintTyped
<1>8. ASSUME NEW out, NEW k, NEW params, Take(out, k, params),
             out = p.text, k = Len(p.src) + 1, params = Params(z)
      PROVE  TextInv'
  <2>1. After(k) = Source(z)
    BY <1>6, <1>8 DEF After
  <2>2. out \in Seq(Letters) /\ Text(r) = out \o Text(z)
    BY <1>5, <1>8
  <2> DEFINE g == After(k)
             d == [Top EXCEPT !.out = out, !.format = g, !.params = params]
  <2>3. Becomes(d)
    BY <1>8 DEF Take
  <2>4. g = Source(z) /\ params = Params(z)
    BY <1>8, <2>1
  <2> HIDE DEF g
  <2>5. d \in Whole
    BY <1>1, <1>2, <1>4, <2>2, <2>4, TakenWhole
  <2> HIDE DEF d
  <2> QED BY <2>3, <2>5, StackWhole
<1> DEFINE e == IF f[1] = "%" THEN f[2] ELSE f[1]
           m == c.params
<1>9. \/ f[1] # "%" /\ Take(<<f[1]>>, 2, m)
      \/ f[1] = "%" /\ e \in NumberLetters /\ Take(Number(e, Head(m)), 3, Tail(m))
      \/ f[1] = "%" /\ e \in {"c", "s"} /\ Take(Head(m), 3, Tail(m))
      \/ f[1] = "%" /\ e \notin NumberLetters \cup {"c", "s"} /\ Take(<<>>, 3, m)
  BY DEF Scan
<1> HIDE DEF p, z, c, f, m, e
<1>10. CASE Len(p.src) = 1 /\ p.src[1] # "%" /\ p.text = p.src /\ p.params = <<>>
  <2>1. f[1] = p.src[1] /\ f[1] # "%"
    BY <1>6, <1>10
  <2>2. Take(<<f[1]>>, 2, m)
    BY <1>9, <2>1
  <2>3. <<f[1]>> = p.text
    <3> DEFINE s == p.src
    <3>1. s \in Seq(Letters) /\ Len(s) = 1 /\ p.text = s /\ f[1] = s[1]
      BY <1>5, <1>10, <2>1
    <3> HIDE DEF s
    <3>2. s = <<s[1]>>
      BY <3>1
    <3> QED BY <3>1, <3>2
  <2>4. m = Params(z)
    <3> DEFINE q == Params(z)
    <3>1. q \in Seq(Parameters) /\ m = <<>> \o q
      BY <1>3, <1>5, <1>7, <1>10 DEF m, c
    <3> HIDE DEF q
    <3>2. <<>> \o q = q
      BY <3>1, ConcatEmptySeq
    <3> QED BY <3>1, <3>2 DEF q
  <2>5. 2 = Len(p.src) + 1
    BY <1>10
  <2> QED BY <1>8, <2>2, <2>3, <2>4, <2>5
<1>11. ASSUME NEW v, p.params = <<v>>
       PROVE  Head(m) = v /\ Tail(m) = Params(z)
  <2> DEFINE q == Params(z)
  <2>1. q \in Seq(Parameters) /\ m = <<v>> \o q
    BY <1>3, <1>5, <1>7, <1>11 DEF m, c
  <2>2. v \in Parameters
    <3>1. p.params \in Seq(Parameters)
      BY <1>3, <1>4, RestOfPrint DEF p
    <3>2. p.params[1] = v /\ Len(p.params) = 1
      BY <1>11
    <3> QED BY <3>1, <3>2
  <2> HIDE DEF q
  <2>3. Head(<<v>> \o q) = v /\ Tail(<<v>> \o q) = q
    BY <2>1, <2>2
  <2> QED BY <2>1, <2>3 DEF q
<1>12. CASE Len(p.src) = 2 /\ p.src[1] = "%" /\ p.src[2] \in {"c", "s"} /\ p.params = <<p.text>>
  <2>1. f[1] = "%" /\ e \in {"c", "s"}
    BY <1>6, <1>12 DEF e
  <2>2. e \notin NumberLetters
    BY <2>1 DEF NumberLetters
  <2>3. Take(Head(m), 3, Tail(m))
    BY <1>9, <2>1, <2>2
  <2>4. Head(m) = p.text /\ Tail(m) = Params(z)
    BY <1>11, <1>12
  <2>5. 3 = Len(p.src) + 1
    BY <1>12
  <2> QED BY <1>8, <2>3, <2>4, <2>5
<1>13. CASE /\ Len(p.src) = 2 /\ p.src[1] = "%" /\ p.src[2] \in {"u", "p", "d"}
            /\ \E w \in 0 .. WordCount - 1 : p.params = <<w>> /\ p.text = Number(p.src[2], w)
  <2>1. PICK w \in 0 .. WordCount - 1 : p.params = <<w>> /\ p.text = Number(p.src[2], w)
    BY <1>13
  <2>2. f[1] = "%" /\ e = p.src[2] /\ e \in {"u", "p", "d"}
    BY <1>6, <1>13 DEF e
  <2>3. e \in NumberLetters /\ e \notin {"c", "s"}
    BY <2>2 DEF NumberLetters
  <2>4. Take(Number(e, Head(m)), 3, Tail(m))
    BY <1>9, <2>2, <2>3
  <2>5. Head(m) = w /\ Tail(m) = Params(z)
    BY <1>11, <2>1
  <2>6. Number(e, Head(m)) = p.text
    BY <2>1, <2>2, <2>5
  <2>7. 3 = Len(p.src) + 1
    BY <1>13
  <2> QED BY <1>8, <2>4, <2>5, <2>6, <2>7
<1> QED BY <1>5, <1>10, <1>12, <1>13, PrintableForms

(* A byte tested for is there to be written, and once written has been put. *)
LEMMA WriteWhole == ASSUME TextInv, Test \/ Write PROVE TextInv'
<1>1. Top \in Whole
  BY StackWhole
<1> DEFINE c == Top
<1>2. c \in Printers
  BY <1>1 DEF Whole
<1>3. PICK r : ToPrint(c, r)
  BY <1>1 DEF Whole
<1>4. CASE Test
  <2> DEFINE d == [c EXCEPT !.at = "write"]
  <2>1. Becomes(d) /\ c.out # <<>>
    BY <1>4 DEF Test
  <2>2. d \in Printers
    BY <1>2 DEF Printers
  <2>3. /\ d.pieces = c.pieces /\ d.format = c.format /\ d.params = c.params
        /\ d.out = c.out /\ d.put = c.put
    BY <1>2 DEF Printers
  <2> HIDE DEF d, c
  <2>4. ToPrint(d, r)
    BY <1>3, <2>3 DEF ToPrint
  <2>5. d \in Whole
    BY <2>1, <2>2, <2>3, <2>4 DEF Whole
  <2> QED BY <2>1, <2>5, StackWhole
<1>5. CASE Write
  <2> DEFINE e == c.out
             u == c.put
             h == Head(c.out)
             d == [c EXCEPT !.at = "scan", !.out = Tail(@), !.put = Append(@, h)]
  <2>1. Becomes(d) /\ c.at = "write"
    BY <1>5 DEF Write
  <2>2. e # <<>>
    BY <1>1, <2>1 DEF Whole
  <2>3. e \in Seq(Letters) /\ u \in Seq(Letters)
    BY <1>2 DEF Printers
  <2>4. /\ Append(u, h) \in Seq(Letters) /\ Tail(e) \in Seq(Letters)
        /\ Append(u, h) \o Tail(e) = u \o e
    BY <2>2, <2>3, CharacterMoves
  <2> HIDE DEF h
  <2>5. d \in Printers
    BY <1>2, <2>4 DEF Printers
  <2>6. /\ d.pieces = c.pieces /\ d.format = c.format /\ d.params = c.params
        /\ d.out = Tail(e) /\ d.put = Append(u, h) /\ d.at = "scan"
    BY <1>2 DEF Printers
  <2> HIDE DEF d, c
  <2>7. ToPrint(d, r)
    BY <1>3, <2>4, <2>6 DEF ToPrint
  <2>8. d \in Whole
    BY <2>5, <2>6, <2>7 DEF Whole
  <2> QED BY <2>1, <2>8, StackWhole
<1> QED BY <1>4, <1>5

(* kernel_main has nothing to print at first. *)
LEMMA TextInvInit == SerialInit => TextInv
<1> SUFFICES ASSUME SerialInit PROVE TextInv
  OBVIOUS
<1> DEFINE c == Printer("kernel_main", <<>>, <<>>)
<1>1. <<>> \in Seq(Printable) /\ <<>> \in Seq(Seq(Printable))
  OBVIOUS
<1>2. c \in Whole
  BY <1>1, PrinterWhole
<1>3. stack = <<c>>
  BY DEF SerialInit
<1> HIDE DEF c
<1> QED BY <1>2, <1>3 DEF TextInv

(* Every step keeps what is left to print. *)
LEMMA TextInvNext == ASSUME TextInv, [SerialNext]_serial PROVE TextInv'
<1>0. <<>> \in Seq(Seq(Printable)) /\ <<>> \in Seq(Printable)
  OBVIOUS
<1>1. CASE UNCHANGED stack
  BY <1>1 DEF TextInv
<1>2. CASE Scan \/ Test \/ Write
  BY <1>2, ScanWhole, WriteWhole
<1>3. ASSUME NEW pieces \in Prints, qemu_printf(pieces) PROVE TextInv'
  <2> DEFINE c == Printer("kernel_main", pieces, <<>>)
  <2>1. pieces \in Seq(Printable)
    BY PrintsAssumption, PrintsTyped
  <2>2. c \in Whole
    BY <1>0, <2>1, PrinterWhole
  <2>3. Becomes(c)
    BY <1>3 DEF qemu_printf
  <2> HIDE DEF c
  <2> QED BY <2>2, <2>3, StackWhole
<1>4. CASE NextCall
  <2> DEFINE who == Top.who
             n == Top.next
             c == Printer(who, Head(n), Tail(n))
  <2>1. Top \in Printers
    BY StackWhole DEF Whole
  <2>2. who \in {"kernel_main", "irq_handler", "fault_handler"} /\ n \in Seq(Seq(Printable))
    BY <2>1 DEF Printers
  <2>3. n # <<>> /\ Becomes(c)
    BY <1>4 DEF NextCall
  <2> HIDE DEF who, n
  <2>4. Head(n) \in Seq(Printable) /\ Tail(n) \in Seq(Seq(Printable))
    BY <2>2, <2>3, HeadTailProperties
  <2>5. c \in Whole
    BY <2>2, <2>4, PrinterWhole
  <2> HIDE DEF c
  <2> QED BY <2>3, <2>5, StackWhole
<1>5. CASE Iret
  <2>1. stack' = stack \/ (Len(stack) > 1 /\ stack' = Front(stack))
    BY <1>5 DEF Iret, Depth
  <2> QED BY <1>1, <2>1, StackWhole
<1>6. ASSUME NEW who \in {"kernel_main", "irq_handler", "fault_handler"},
             NEW pieces \in Seq(Printable), NEW next \in Seq(Seq(Printable)),
             Enter(Printer(who, pieces, next))
      PROVE  TextInv'
  <2> DEFINE c == Printer(who, pieces, next)
  <2>1. c \in Whole
    BY PrinterWhole
  <2>2. stack' = Append(stack, c)
    BY <1>6 DEF Enter
  <2> HIDE DEF c
  <2> QED BY <2>1, <2>2, StackWhole
<1>7. ASSUME NEW w \in Words, Interrupt(w) PROVE TextInv'
  <2> DEFINE d == Decimal(w)
             r == Fired \o <<d>>
  <2>1. w \in 0 .. WordCount - 1
    BY SerialAssumption
  <2>2. d \in Printable
    <3>1. d \in PieceOf(Parameters)
      BY <2>1, NumberTyped
    <3>2. d.src = <<"%", "d">> /\ d.params[1] = w
      BY DEF Decimal
    <3>3. IsNumber(d)
      BY <2>1, <3>2 DEF IsNumber
    <3> QED BY <3>1, <3>3 DEF Printable
  <2>3. Fired \in Seq(Printable)
    BY PrintsAssumption, PrintsTyped
  <2> HIDE DEF d
  <2>4. r \in Seq(Printable)
    <3> DEFINE o == <<d>>
    <3>1. o \in Seq(Printable)
      BY <2>2
    <3> HIDE DEF o
    <3>2. Fired \o o \in Seq(Printable)
      BY <2>3, <3>1, ConcatProperties
    <3> QED BY <3>2 DEF o
  <2>5. Enter(Printer("irq_handler", r, <<>>))
    BY <1>7 DEF Interrupt, d
  <2> HIDE DEF r
  <2> QED BY <1>0, <1>6, <2>4, <2>5
<1>8. ASSUME NEW w \in Words, Fault(w) PROVE TextInv'
  <2>1. CASE w \in DOMAIN Messages
    <3> DEFINE m == Messages[w]
               n == <<SystemHalted>>
    <3>1. m \in Seq(Printable) /\ SystemHalted \in Seq(Printable)
      BY <2>1, PrintsAssumption, PrintsTyped
    <3>2. n \in Seq(Seq(Printable))
      BY <3>1
    <3>3. Enter(Printer("fault_handler", m, n))
      BY <1>8, <2>1 DEF Fault
    <3> HIDE DEF m, n
    <3> QED BY <1>6, <3>1, <3>2, <3>3
  <2>2. CASE w \notin DOMAIN Messages
    <3>1. Enter(Printer("fault_handler", <<>>, <<>>))
      BY <1>8, <2>2 DEF Fault
    <3> QED BY <1>0, <1>6, <3>1
  <2> QED BY <2>1, <2>2
<1> QED
  BY <1>1, <1>2, <1>3, <1>4, <1>5, <1>7, <1>8
  DEF SerialNext, SerialStep, Configure, sti, Send, serial

(* The invariant holds throughout. *)
LEMMA TextInvariance == SerialSpec => []TextInv
BY TextInvInit, TextInvNext, PTL DEF SerialSpec

(* Whoever prints in the middle of it, a call of qemu_printf puts exactly the text its
   format stands for: of any format, any numbers and any depth of handlers. *)
THEOREM TextsAreWhole == SerialSpec => []TextWhole
<1>1. TextInv => TextWhole
  <2> SUFFICES ASSUME TextInv, NEW k \in 1 .. Depth
               PROVE  /\ IsPrefix(stack[k].put \o stack[k].out, Text(stack[k].pieces))
                      /\ stack[k].format = <<>> =>
                            stack[k].put \o stack[k].out = Text(stack[k].pieces)
    BY DEF TextWhole
  <2> DEFINE c == stack[k]
             u == c.put
             e == c.out
             w == Text(c.pieces)
  <2>1. c \in Whole
    BY DEF TextInv, Depth
  <2>2. PICK r : ToPrint(c, r)
    BY <2>1 DEF Whole
  <2> DEFINE t == Text(r)
             v == u \o e
  <2>3. u \in Seq(Letters) /\ e \in Seq(Letters)
    BY <2>1 DEF Whole, Printers
  <2>4. r \in Seq(Printable) /\ c.format = Source(r) /\ w = v \o t
    BY <2>2 DEF ToPrint
  <2>5. t \in Seq(Letters)
    BY <2>4, PrintTyped
  <2>6. c.format = <<>> => t = <<>>
    <3>1. r \in Seq(PieceOf(Parameters))
      <4>1. Printable \subseteq PieceOf(Parameters)
        BY DEF Printable
      <4> QED BY <2>4, <4>1, SeqMonotonic
    <3>2. r # <<>> => Len(r[1].src) # 0
      BY <2>4, RestOfPrint, PrintableForms
    <3>3. Source(r) = <<>> => r = <<>>
      BY <3>1, <3>2, NothingLeft
    <3> QED BY <2>4, <3>3, FormatEmpty
  <2> HIDE DEF u, e, w, t
  <2>7. v \in Seq(Letters)
    BY <2>3, ConcatProperties
  <2> HIDE DEF v, c
  <2>8. IsPrefix(v, w) /\ (t = <<>> => v = w)
    BY <2>4, <2>5, <2>7, TextBegins
  <2> QED BY <2>6, <2>8 DEF v, u, e, w, c
<1> QED BY <1>1, TextInvariance, PTL

(***************************************************************************)
(* The console                                                             *)
(***************************************************************************)

(* A step of the whole, seen from each part. *)
LEMMA PartSteps ==
    [Next]_vars => [StringsNext]_strings /\ [TerminalNext]_tty /\ [SerialNext]_serial
BY DEF Next, vars

(* The composition is one of byte loops, of a terminal and of a serial port. *)
THEOREM PartsRun == Spec => StringsSpec /\ TerminalSpec /\ SerialSpec
<1>1. Init => StringsInit /\ TerminalInit /\ SerialInit
  BY DEF Init
<1> QED BY <1>1, PartSteps, PTL DEF Spec, StringsSpec, TerminalSpec, SerialSpec

(* Every part's state is of its type. *)
THEOREM TypeCorrect == Spec => []TypeOK
BY PartsRun, StringsTypeCorrect, TerminalTypeCorrect, SerialTypeCorrect, PTL DEF TypeOK

(* What the parts are shown to do, they do together: every byte is sent and every
   text is whole, nothing is printed behind the screen before a newline on its last
   row, printf puts its format's text, and the byte loops do what they promise. *)
THEOREM ConsoleSafe ==
    Spec => /\ []NoByteLost /\ []TextWhole
            /\ []OnScreen /\ []PrintfPromise
            /\ ImplementsLibrary
BY PartsRun, BytesAreSent, TextsAreWhole, PrintedOnScreen, PrintfKeepsPromise,
   LoopsImplementLibrary, PTL
=============================================================================
