------------------------------ MODULE Terminal ------------------------------
(***************************************************************************)
(* The VGA terminal of tty.c and libc's stdio on top of it: putchar, puts, *)
(* printf, abort.                                                          *)
(*                                                                         *)
(* One call at a time runs: printf works through its format a directive a  *)
(* step and then puts that directive's characters, a step each.  Colours   *)
(* are left out: nobody calls terminal_setcolor.                           *)
(***************************************************************************)
EXTENDS Integers, Sequences, SequencesExt, Formats

CONSTANTS
    VGA_WIDTH, VGA_HEIGHT,
    Behind,         \* cells of the memory behind the screen that are modelled
    Texts,          \* what terminal_writestring and puts are given
    Formats,        \* what printf is given: sequences of pieces
    INT_MAX,
    MaxRow          \* bound: nothing more is printed from this row on

ASSUME TerminalAssumption ==
    /\ VGA_WIDTH \in Nat \ {0} /\ VGA_HEIGHT \in Nat \ {0}
    /\ Behind \in Nat /\ INT_MAX \in Nat /\ MaxRow \in Nat

Screen  == 0 .. VGA_WIDTH * VGA_HEIGHT - 1
Cells   == 0 .. VGA_WIDTH * VGA_HEIGHT + Behind - 1

NewLine == "\n"
Blank   == " "
Foreign == "?"      \* what the firmware, or somebody else, has in memory

(* Directives this printf does not know. *)
Hex(s) == [src |-> <<"%", "x">>, params |-> <<s>>, text |-> s]
Dec(s) == [src |-> <<"%", "i">>, params |-> <<s>>, text |-> s]

IsUnknown(p) == (p = Hex(p.text) \/ p = Dec(p.text)) /\ p.text \in Seq(Letters)

ASSUME FormatAssumption ==
    /\ {"x", "i", "!", NewLine} \subseteq Letters
    /\ Texts \subseteq Seq(Letters)
    /\ \A pieces \in Formats :
          IsSequence(pieces) /\ \A k \in DOMAIN pieces : IsPiece(pieces[k]) \/ IsUnknown(pieces[k])

Known(piece) == Len(piece.src) = 1 \/ piece.src[2] \in {"%", "c", "s"}

VARIABLES
    terminal_row, terminal_column,
    terminal_buffer,    \* the cells, from the first of the screen on
    ready,              \* terminal_initialize has run
    job,                \* the call under way, or Idle
    aborted,             \* abort's endless loop
    fell                \* history: a newline came on the last row

tty == <<terminal_row, terminal_column, terminal_buffer, ready, job, aborted, fell>>

Idle == [fn |-> "none"]

\* format and params are what is left of them, out what is to be put next, put
\* what has been, written printf's count; failed: it returns -1.
Job(fn, pieces, out) ==
    [fn |-> fn, pieces |-> pieces, format |-> Source(pieces), params |-> Params(pieces),
     out |-> out, put |-> <<>>, written |-> 0, failed |-> FALSE]

TerminalInit ==
    /\ terminal_row = 0 /\ terminal_column = 0
    /\ terminal_buffer = [x \in Cells |-> Foreign]
    /\ ready = FALSE
    /\ job = Idle
    /\ aborted = FALSE
    /\ fell = FALSE

-----------------------------------------------------------------------------
(* tty.c *)

(* kernel_main calls it once, before anything else. *)
terminal_initialize ==
    /\ ~ready
    /\ terminal_row' = 0 /\ terminal_column' = 0
    /\ terminal_buffer' =
          [x \in Cells |-> IF x \in Screen THEN Blank ELSE terminal_buffer[x]]
    /\ ready' = TRUE
    /\ UNCHANGED <<job, aborted, fell>>

Index(x, y) == y * VGA_WIDTH + x

(* A cell past the modelled memory is somebody else's. *)
terminal_putentryat(c, x, y) ==
    terminal_buffer' = [k \in Cells |-> IF k = Index(x, y) THEN c ELSE terminal_buffer[k]]

(* Mutant: a full row goes on on the next whatever row it is. *)
NextRow_down == terminal_row + 1

NextRow == IF terminal_row + 1 = VGA_HEIGHT THEN 0 ELSE terminal_row + 1

(* Mutant: the column is compared before it is raised. *)
terminal_putchar_late(c) ==
    /\ terminal_putentryat(c, terminal_column, terminal_row)
    /\ IF terminal_column = VGA_WIDTH
       THEN terminal_column' = 0 /\ terminal_row' = NextRow
       ELSE terminal_column' = terminal_column + 1 /\ UNCHANGED terminal_row
    /\ UNCHANGED fell

terminal_putchar(c) ==
    /\ terminal_putentryat(c, terminal_column, terminal_row)
    /\ IF terminal_column + 1 = VGA_WIDTH
       THEN terminal_column' = 0 /\ terminal_row' = NextRow
       ELSE terminal_column' = terminal_column + 1 /\ UNCHANGED terminal_row
    /\ UNCHANGED fell

(* No wrap here: after the last row the cursor is behind the screen. *)
terminal_newline ==
    /\ terminal_column' = 0
    /\ terminal_row' = terminal_row + 1
    /\ fell' = (fell \/ terminal_row + 1 = VGA_HEIGHT)
    /\ UNCHANGED terminal_buffer

(* An iteration of terminal_write; print and putchar write one character each. *)
terminal_write(c) ==
    \/ c = NewLine /\ terminal_newline
    \/ c # NewLine /\ terminal_putchar(c)

-----------------------------------------------------------------------------
(* Calls *)

Call(j) ==
    /\ ready /\ ~aborted /\ job = Idle /\ terminal_row < MaxRow
    /\ job' = j
    /\ UNCHANGED <<terminal_row, terminal_column, terminal_buffer, ready, aborted, fell>>

terminal_writestring(s) == Call(Job("terminal_writestring", <<>>, s))

printf(pieces) == Call(Job("printf", pieces, <<>>))

puts(s) == Call(Job("printf", <<Str(s), Literal(NewLine)>>, <<>>))

abort == Call(Job("abort", <<Literal("!"), Literal(NewLine)>>, <<>>))

-----------------------------------------------------------------------------
(* printf *)

\* Where the characters of job.out have gone, the next directive is due.
Due == job # Idle /\ job.out = <<>> /\ job.format # <<>> /\ ~job.failed

First  == job.format[1]
Second == IF Len(job.format) > 1 THEN job.format[2] ELSE ""
From(k) == SubSeq(job.format, k, Len(job.format))

(* Mutant: only that there is room for one more is looked at. *)
Overflows_one(out) == out # <<>> /\ INT_MAX = job.written

Overflows(out) == INT_MAX - job.written < Len(out)

(* out is printed unless it takes the count over INT_MAX: then -1 is returned,
   with everything before it printed. *)
Emit(out, format, params) ==
    /\ job' = IF Overflows(out)
              THEN [job EXCEPT !.failed = TRUE]
              ELSE [job EXCEPT !.out = out, !.format = format, !.params = params,
                               !.written = @ + Len(out)]
    /\ UNCHANGED <<terminal_row, terminal_column, terminal_buffer, ready, aborted, fell>>

(* Characters up to the next %, the first of them being one after another. *)
Plain ==
    /\ Due
    /\ First # "%" \/ Second = "%"
    /\ LET from == IF First = "%" THEN 2 ELSE 1
           stop == SelectInSubSeq(job.format, from + 1, Len(job.format),
                                  LAMBDA c : c = "%")
           end  == IF stop = 0 THEN Len(job.format) ELSE stop - 1
       IN  Emit(SubSeq(job.format, from, end), From(end + 1), job.params)

Directive == Due /\ First = "%" /\ Second # "%"

PrintChar ==
    /\ Directive /\ Second = "c"
    /\ Emit(Head(job.params), From(3), Tail(job.params))

PrintString ==
    /\ Directive /\ Second = "s"
    /\ Emit(Head(job.params), From(3), Tail(job.params))

(* Mutant: the directive is not stepped over. *)
PrintHex_stays ==
    /\ Directive /\ Second = "x"
    /\ Emit(<<>>, job.format, job.params)

(* Nothing is done for x: the letter is the next plain character, and the
   parameter is left for the next directive. *)
PrintHex ==
    /\ Directive /\ Second = "x"
    /\ Emit(<<>>, From(2), job.params)

(* An unknown directive: it is printed as it is, with all that follows. *)
PrintRest ==
    /\ Directive /\ Second \notin {"c", "s", "x"}
    /\ Emit(job.format, <<>>, job.params)

PutNext ==
    /\ job # Idle /\ job.out # <<>>
    /\ terminal_write(Head(job.out))
    /\ job' = [job EXCEPT !.out = Tail(@), !.put = Append(@, Head(job.out))]
    /\ UNCHANGED <<ready, aborted>>

Printed == job # Idle /\ job.out = <<>> /\ (job.format = <<>> \/ job.failed)

PrintReturn ==
    /\ Printed
    /\ job' = Idle
    /\ aborted' = (job.fn = "abort")
    /\ UNCHANGED <<terminal_row, terminal_column, terminal_buffer, ready, fell>>

PrintStep == Plain \/ PrintChar \/ PrintString \/ PrintHex \/ PrintRest \/ PutNext \/ PrintReturn

TerminalNext ==
    \/ terminal_initialize
    \/ \E s \in Texts : terminal_writestring(s) \/ puts(s)
    \/ \E pieces \in Formats : printf(pieces)
    \/ abort
    \/ PrintStep

TerminalSpec == TerminalInit /\ [][TerminalNext]_tty

(* Nothing keeps a call from going on: printf does not wait. *)
TerminalFair == WF_tty(PrintStep)

-----------------------------------------------------------------------------
TerminalTypeOK ==
    /\ terminal_row \in Nat
    /\ terminal_column \in 0 .. VGA_WIDTH - 1
    /\ DOMAIN terminal_buffer = Cells
    /\ ready \in BOOLEAN /\ aborted \in BOOLEAN /\ fell \in BOOLEAN

(* Until a newline comes on the last row, everything printed is on the screen:
   the cursor wraps to the top, and the memory behind the screen is untouched,
   whatever mix of characters, full rows and newlines came before. *)
OnScreen ==
    ready /\ ~fell =>
        /\ terminal_row < VGA_HEIGHT
        /\ \A x \in Cells \ Screen : terminal_buffer[x] = Foreign

(* The k-th piece is not inside a run of plain characters, which printf puts at once. *)
TakenUp(pieces, k) ==
    \/ k = 1
    \/ Len(pieces[k].src) = 2
    \/ Len(pieces[k - 1].src) = 2 /\ pieces[k - 1].src[2] # "%"

(* printf returns the number of characters it has put, which are those of its
   format with every parameter in its place, or -1 exactly when that many would
   not fit an int -- then nothing is put of the directive, or the run of plain
   characters, that did not fit.  Directives it does not know only keep the
   count. *)
PrintfPromise ==
    Printed /\ job.fn # "terminal_writestring" =>
        /\ job.written = Len(job.put) /\ job.written <= INT_MAX
        /\ (\A k \in DOMAIN job.pieces : Known(job.pieces[k])) =>
              /\ IsPrefix(job.put, Text(job.pieces))
              /\ ~job.failed => job.put = Text(job.pieces)
              /\ job.failed =>
                    /\ Len(Text(job.pieces)) > INT_MAX
                    /\ \E k \in DOMAIN job.pieces :
                          LET rest == SubSeq(job.pieces, k, Len(job.pieces))
                          IN  TakenUp(job.pieces, k) /\ Text(job.pieces) = job.put \o Text(rest)

(* Every call comes to an end, a directive that prints nothing included. *)
PrintfReturns == job # Idle ~> job = Idle
=============================================================================
