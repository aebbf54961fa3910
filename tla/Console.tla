------------------------------ MODULE Console -------------------------------
(***************************************************************************)
(* What kernel_main sets up first and all that is printed with it: the     *)
(* terminal with libc's stdio, the serial port, and libc's byte loops.     *)
(*                                                                         *)
(* terminal_initialize comes before serial_init.  Beyond that the parts    *)
(* share no state, and calls of one part are not interleaved with calls of *)
(* another: the byte loops run before the terminal is set up, which is set *)
(* up when the memory they run over is clear, and either the terminal is   *)
(* printed on or the serial port is.                                       *)
(***************************************************************************)
EXTENDS Strings, Terminal, Serial

vars == <<strings, tty, serial>>

Clear == call = None /\ \A a \in Addr : mem[a] = NUL

Untouched == job = Idle /\ \A x \in Screen : terminal_buffer[x] = Blank

\* The serial port as a reset leaves it; serial_init sets all of it.
Init ==
    /\ StringsInit /\ TerminalInit /\ SerialInit
    /\ ~dlab /\ ~queued

Next ==
    \/ ~ready /\ StringsNext /\ UNCHANGED <<tty, serial>>
    \/ Clear /\ boot = 0 /\ TerminalNext /\ UNCHANGED <<strings, serial>>
    \/ Clear /\ ready /\ Untouched /\ SerialNext /\ UNCHANGED <<strings, tty>>

Spec == Init /\ [][Next]_vars /\ TerminalFair /\ SerialFair

(* Each part's state is of its type. *)
TypeOK == StringsTypeOK /\ TerminalTypeOK /\ SerialTypeOK
=============================================================================
