--------------------------- MODULE TerminalProofs ---------------------------
(***************************************************************************)
(* Proofs about the terminal, for a screen of any size, any formats and    *)
(* any amount of memory behind it: nothing is printed behind the screen    *)
(* until a newline comes on its last row; and printf puts the text its     *)
(* format stands for, or returns -1.                                       *)
(***************************************************************************)
EXTENDS Terminal, FormatsProofs

(* Until the cursor has left the screen downwards it is on it, set up or not. *)
CursorInv ==
    ~fell => /\ terminal_row < VGA_HEIGHT
             /\ \A x \in Cells \ Screen : terminal_buffer[x] = Foreign

TerminalInv == TerminalTypeOK /\ CursorInv

(* A cell of a row and a column of the screen is of the screen. *)
LEMMA IndexOnScreen ==
    ASSUME NEW x \in 0 .. VGA_WIDTH - 1, NEW y \in Nat, y < VGA_HEIGHT
    PROVE  Index(x, y) \in Screen
<1>1. VGA_WIDTH \in Nat /\ VGA_HEIGHT \in Nat /\ x \in Nat /\ x < VGA_WIDTH
  BY TerminalAssumption DEF TerminalAssumption
<1>2. PICK d \in Nat : VGA_HEIGHT = y + 1 + d
  <2>1. VGA_HEIGHT - (y + 1) \in Nat /\ VGA_HEIGHT = y + 1 + (VGA_HEIGHT - (y + 1))
    BY <1>1
  <2> QED BY <2>1
<1>3. VGA_WIDTH * VGA_HEIGHT = y * VGA_WIDTH + VGA_WIDTH + VGA_WIDTH * d
  BY <1>1, <1>2
<1>4. VGA_WIDTH * d \in Nat /\ y * VGA_WIDTH \in Nat
  BY <1>1
<1> QED BY <1>1, <1>3, <1>4 DEF Index, Screen

(* A cell is written, and no other. *)
LEMMA EntryPut ==
    ASSUME NEW c, NEW x, NEW y, terminal_putentryat(c, x, y)
    PROVE  /\ DOMAIN terminal_buffer' = Cells
           /\ \A k \in Cells : k # Index(x, y) => terminal_buffer'[k] = terminal_buffer[k]
BY DEF terminal_putentryat

(* A character, or a newline, keeps the invariant. *)
LEMMA CharacterKeeps ==
    ASSUME TerminalInv, NEW c, terminal_write(c), UNCHANGED <<ready, aborted>>
    PROVE  TerminalInv'
<1>0. /\ terminal_row \in Nat /\ terminal_column \in 0 .. VGA_WIDTH - 1
      /\ VGA_WIDTH \in Nat \ {0} /\ VGA_HEIGHT \in Nat \ {0}
      /\ DOMAIN terminal_buffer = Cells
  BY TerminalAssumption DEF TerminalInv, TerminalTypeOK, TerminalAssumption
<1>1. CASE terminal_newline
  <2>1. TerminalTypeOK'
    BY <1>0, <1>1 DEF TerminalInv, TerminalTypeOK, terminal_newline
  <2>2. CursorInv'
    <3>1. /\ terminal_row' = terminal_row + 1 /\ terminal_buffer' = terminal_buffer
          /\ fell' = (fell \/ terminal_row + 1 = VGA_HEIGHT)
      BY <1>1 DEF terminal_newline
    <3>2. ~fell' => ~fell /\ terminal_row + 1 # VGA_HEIGHT
      BY <3>1, Zenon
    <3> QED BY <1>0, <3>1, <3>2 DEF TerminalInv, CursorInv
  <2> QED BY <2>1, <2>2 DEF TerminalInv
<1>2. CASE terminal_putchar(c)
  <2>1. /\ DOMAIN terminal_buffer' = Cells
        /\ \A k \in Cells : k # Index(terminal_column, terminal_row) =>
              terminal_buffer'[k] = terminal_buffer[k]
    BY <1>2, EntryPut DEF terminal_putchar
  <2>2. fell' = fell
    BY <1>2 DEF terminal_putchar
  <2>3. terminal_column' \in 0 .. VGA_WIDTH - 1 /\ terminal_row' \in Nat
    BY <1>0, <1>2 DEF terminal_putchar, NextRow
  <2>4. TerminalTypeOK'
    BY <2>1, <2>2, <2>3 DEF TerminalInv, TerminalTypeOK
  <2>5. ASSUME ~fell' PROVE terminal_row' < VGA_HEIGHT
    <3>1. terminal_row < VGA_HEIGHT
      BY <2>2, <2>5 DEF TerminalInv, CursorInv
    <3> QED BY <1>0, <1>2, <3>1 DEF terminal_putchar, NextRow
  <2>6. ASSUME ~fell', NEW k \in Cells \ Screen PROVE terminal_buffer'[k] = Foreign
    <3>1. terminal_row < VGA_HEIGHT /\ terminal_buffer[k] = Foreign
      BY <2>2, <2>6 DEF TerminalInv, CursorInv
    <3>2. Index(terminal_column, terminal_row) \in Screen
      BY <1>0, <3>1, IndexOnScreen
    <3> QED BY <2>1, <2>6, <3>1, <3>2
  <2>7. CursorInv'
    BY <2>5, <2>6 DEF CursorInv
  <2> QED BY <2>4, <2>7 DEF TerminalInv
<1> QED BY <1>1, <1>2 DEF terminal_write

(* Nothing is printed before the terminal is set up. *)
LEMMA TerminalInvInit == TerminalInit => TerminalInv
<1>1. VGA_WIDTH \in Nat \ {0} /\ VGA_HEIGHT \in Nat \ {0}
  BY TerminalAssumption DEF TerminalAssumption
<1> SUFFICES ASSUME TerminalInit PROVE TerminalInv
  OBVIOUS
<1>2. ready \in BOOLEAN /\ aborted \in BOOLEAN /\ fell \in BOOLEAN
  BY Zenon DEF TerminalInit
<1>3. terminal_row \in Nat /\ terminal_column \in 0 .. VGA_WIDTH - 1 /\ terminal_row < VGA_HEIGHT
  BY <1>1 DEF TerminalInit
<1>4. /\ DOMAIN terminal_buffer = Cells
      /\ \A x \in Cells : terminal_buffer[x] = Foreign
  BY DEF TerminalInit
<1> QED BY <1>2, <1>3, <1>4 DEF TerminalInv, TerminalTypeOK, CursorInv

(* Every step keeps the invariant. *)
LEMMA TerminalInvNext == ASSUME TerminalInv, [TerminalNext]_tty PROVE TerminalInv'
<1>1. CASE terminal_initialize
  <2>1. 0 < VGA_HEIGHT /\ 0 \in 0 .. VGA_WIDTH - 1
    BY TerminalAssumption DEF TerminalAssumption
  <2>2. /\ DOMAIN terminal_buffer' = Cells
        /\ \A x \in Cells \ Screen : terminal_buffer'[x] = terminal_buffer[x]
    BY <1>1 DEF terminal_initialize
  <2>3. /\ terminal_row' = 0 /\ terminal_column' = 0 /\ ready' = TRUE
        /\ aborted' = aborted /\ fell' = fell
    BY <1>1 DEF terminal_initialize
  <2> QED BY <2>1, <2>2, <2>3 DEF TerminalInv, TerminalTypeOK, CursorInv
<1>2. CASE PutNext
  BY <1>2, CharacterKeeps DEF PutNext
<1>3. ASSUME UNCHANGED <<terminal_row, terminal_column, terminal_buffer, ready, fell>>,
             aborted' \in BOOLEAN
      PROVE  TerminalInv'
  BY <1>3 DEF TerminalInv, TerminalTypeOK, CursorInv
<1>4. aborted \in BOOLEAN
  BY DEF TerminalInv, TerminalTypeOK
<1>5. ASSUME NEW j, Call(j) PROVE TerminalInv'
  BY <1>3, <1>4, <1>5 DEF Call
<1>6. ASSUME NEW s, terminal_writestring(s) \/ puts(s) PROVE TerminalInv'
  BY <1>5, <1>6 DEF terminal_writestring, puts
<1>7. ASSUME NEW pieces, printf(pieces) PROVE TerminalInv'
  BY <1>5, <1>7 DEF printf
<1>8. CASE abort
  BY <1>5, <1>8 DEF abort
<1>9. ASSUME NEW out, NEW format, NEW params, Emit(out, format, params) PROVE TerminalInv'
  BY <1>3, <1>4, <1>9 DEF Emit
<1>10. CASE Plain
  BY <1>9, <1>10 DEF Plain
<1>11. CASE PrintChar \/ PrintString \/ PrintHex \/ PrintRest
  BY <1>9, <1>11 DEF PrintChar, PrintString, PrintHex, PrintRest
<1>12. CASE PrintReturn
  <2>1. aborted' \in BOOLEAN /\ UNCHANGED <<terminal_row, terminal_column, terminal_buffer, ready, fell>>
    BY <1>12 DEF PrintReturn
  <2> QED BY <1>3, <2>1
<1>13. CASE UNCHANGED tty
  BY <1>3, <1>4, <1>13 DEF tty
<1> QED
  BY <1>1, <1>2, <1>6, <1>7, <1>8, <1>10, <1>11, <1>12, <1>13 DEF TerminalNext, PrintStep

(* The invariant holds throughout. *)
LEMMA TerminalInvariance == TerminalSpec => []TerminalInv
BY TerminalInvInit, TerminalInvNext, PTL DEF TerminalSpec

(* Until a newline comes on the last row, everything printed is on the screen. *)
THEOREM PrintedOnScreen == TerminalSpec => []OnScreen
<1>1. TerminalInv => OnScreen
  BY DEF TerminalInv, CursorInv, OnScreen
<1> QED BY <1>1, TerminalInvariance, PTL

(* The cursor and the cells are of their types. *)
THEOREM TerminalTypeCorrect == TerminalSpec => []TerminalTypeOK
BY TerminalInvariance, PTL DEF TerminalInv

(***************************************************************************)
(* The pieces of printf's formats                                          *)
(***************************************************************************)

Pieces == {p \in PieceOf(Seq(Letters)) : IsPiece(p) \/ IsUnknown(p)}
KnownPieces == {p \in Pieces : Known(p)}

(* A piece begins with a %, or is a character that is none and stands for itself. *)
LEMMA PieceForms ==
    ASSUME NEW p \in Pieces
    PROVE  \/ /\ Len(p.src) = 1 /\ p.src[1] # "%"
              /\ p.text = p.src /\ p.params = <<>>
           \/ /\ Len(p.src) = 2 /\ p.src[1] = "%" /\ p.src[2] = "%"
              /\ p.text = <<"%">> /\ p.params = <<>>
           \/ /\ Len(p.src) = 2 /\ p.src[1] = "%" /\ p.src[2] \in {"c", "s", "x", "i"}
              /\ p.params = <<p.text>>
<1>1. CASE IsPiece(p)
  BY <1>1, PieceForm
<1>2. CASE p = Hex(p.text)
  BY <1>2 DEF Hex
<1>3. CASE p = Dec(p.text)
  BY <1>3 DEF Dec
<1> QED BY <1>1, <1>2, <1>3 DEF Pieces, IsUnknown

(* The known pieces are those printf has a case for. *)
LEMMA KnownForms ==
    ASSUME NEW p \in KnownPieces
    PROVE  Len(p.src) = 1 \/ p.src[2] \in {"%", "c", "s"}
BY DEF KnownPieces, Known

(* Pieces are what the assumption on formats says. *)
LEMMA AssumedPieces ==
    ASSUME NEW p, IsPiece(p) \/ IsUnknown(p)
    PROVE  p \in Pieces
<1>1. CASE IsPiece(p)
  BY <1>1, PieceTyped DEF Pieces
<1>2. CASE p = Hex(p.text) /\ p.text \in Seq(Letters)
  <2> DEFINE t == p.text
  <2>1. p = [src |-> <<"%", "x">>, params |-> <<t>>, text |-> t] /\ t \in Seq(Letters)
    BY <1>2 DEF Hex
  <2> HIDE DEF t
  <2>2. <<"%", "x">> \in Seq(Letters) /\ <<t>> \in Seq(Seq(Letters))
    BY <2>1, LettersAssumption, FormatAssumption
  <2>3. p \in PieceOf(Seq(Letters))
    BY <2>1, <2>2, RecordTyped
  <2> QED BY <2>3 DEF Pieces
<1>3. CASE p = Dec(p.text) /\ p.text \in Seq(Letters)
  <2> DEFINE t == p.text
  <2>1. p = [src |-> <<"%", "i">>, params |-> <<t>>, text |-> t] /\ t \in Seq(Letters)
    BY <1>3 DEF Dec
  <2> HIDE DEF t
  <2>2. <<"%", "i">> \in Seq(Letters) /\ <<t>> \in Seq(Seq(Letters))
    BY <2>1, LettersAssumption, FormatAssumption
  <2>3. p \in PieceOf(Seq(Letters))
    BY <2>1, <2>2, RecordTyped
  <2> QED BY <2>3 DEF Pieces
<1> QED BY <1>1, <1>2, <1>3 DEF IsUnknown

(* Formats are sequences of pieces, known ones of known pieces. *)
LEMMA PiecesTyped ==
    /\ Pieces \subseteq PieceOf(Seq(Letters))
    /\ KnownPieces \subseteq Pieces
    /\ \A r \in Seq(Pieces) : r \in Seq(PieceOf(Seq(Letters)))
    /\ \A r \in Seq(KnownPieces) : r \in Seq(Pieces)
<1>1. Pieces \subseteq PieceOf(Seq(Letters)) /\ KnownPieces \subseteq Pieces
  BY DEF Pieces, KnownPieces
<1> QED BY <1>1, SeqMonotonic

(* A format begins with its first piece, and the rest is a format. *)
LEMMA RestOfFormat ==
    ASSUME NEW r \in Seq(Pieces), r # <<>>
    PROVE  /\ r[1] \in Pieces /\ Tail(r) \in Seq(Pieces)
           /\ Len(Tail(r)) = Len(r) - 1
           /\ r \in Seq(KnownPieces) => r[1] \in KnownPieces /\ Tail(r) \in Seq(KnownPieces)
           /\ Source(r) = r[1].src \o Source(Tail(r))
           /\ Params(r) = r[1].params \o Params(Tail(r))
           /\ Text(r) = r[1].text \o Text(Tail(r))
           /\ r[1].src \in Seq(Letters) /\ r[1].params \in Seq(Seq(Letters))
           /\ r[1].text \in Seq(Letters)
<1>1. r \in Seq(PieceOf(Seq(Letters)))
  BY PiecesTyped
<1>2. /\ Source(r) = r[1].src \o Source(Tail(r))
      /\ Params(r) = r[1].params \o Params(Tail(r))
      /\ Text(r) = r[1].text \o Text(Tail(r))
  BY <1>1, FormatCons
<1>3. r[1] \in Pieces /\ Tail(r) \in Seq(Pieces) /\ Len(Tail(r)) = Len(r) - 1
  BY HeadTailProperties
<1>4. r \in Seq(KnownPieces) => r[1] \in KnownPieces /\ Tail(r) \in Seq(KnownPieces)
  BY HeadTailProperties
<1>5. r[1] \in PieceOf(Seq(Letters))
  BY <1>3, PiecesTyped
<1>6. /\ r[1].src \in Seq(Letters) /\ r[1].params \in Seq(Seq(Letters))
      /\ r[1].text \in Seq(Letters)
  BY <1>5 DEF PieceOf
<1> QED BY <1>2, <1>3, <1>4, <1>6

(* A format's characters, parameters and text are sequences. *)
LEMMA FormatTyped ==
    ASSUME NEW r \in Seq(Pieces)
    PROVE  /\ Source(r) \in Seq(Letters) /\ Params(r) \in Seq(Seq(Letters))
           /\ Text(r) \in Seq(Letters)
<1>1. r \in Seq(PieceOf(Seq(Letters)))
  BY PiecesTyped
<1> QED BY <1>1, FieldsTyped

(* r is what is left of q when its first pieces are gone. *)
EndOf(q, r) == \E k \in 1 .. Len(q) + 1 : r = SubSeq(q, k, Len(q))

(* The same where printf takes the first of them up. *)
FreshEnd(q, r) ==
    \E k \in 1 .. Len(q) + 1 :
        r = SubSeq(q, k, Len(q)) /\ (k \in DOMAIN q => TakenUp(q, k))

(* Nothing is gone at first. *)
LEMMA EndWhole == ASSUME NEW q \in Seq(Pieces) PROVE FreshEnd(q, q)
<1>1. q = SubSeq(q, 1, Len(q)) /\ 1 \in 1 .. Len(q) + 1
  OBVIOUS
<1> QED BY <1>1, Zenon DEF FreshEnd, TakenUp

(* A further piece goes. *)
LEMMA EndTail ==
    ASSUME NEW q \in Seq(Pieces), NEW r, r # <<>>, EndOf(q, r)
    PROVE  EndOf(q, Tail(r))
<1>1. PICK k \in 1 .. Len(q) + 1 : r = SubSeq(q, k, Len(q))
  BY DEF EndOf
<1>2. k # Len(q) + 1
  <2>1. SubSeq(q, Len(q) + 1, Len(q)) = <<>>
    OBVIOUS
  <2> QED BY <1>1, <2>1
<1>3. Tail(r) = SubSeq(q, k + 1, Len(q)) /\ k + 1 \in 1 .. Len(q) + 1
  BY <1>1, <1>2
<1> QED BY <1>3, Zenon DEF EndOf

(* What is left begins with the piece it was cut at. *)
LEMMA EndFirst ==
    ASSUME NEW q \in Seq(Pieces), NEW k \in 1 .. Len(q), NEW r, r = SubSeq(q, k, Len(q))
    PROVE  r # <<>> /\ r[1] = q[k] /\ Tail(r) = SubSeq(q, k + 1, Len(q))
<1>1. Tail(r) = SubSeq(q, k + 1, Len(q))
  OBVIOUS
<1>2. r # <<>> /\ r[1] = q[k]
  <2>1. k \in Int /\ Len(q) \in Int /\ \A i \in k .. Len(q) : q[i] \in Pieces
    OBVIOUS
  <2>2. /\ Len(r) = IF k <= Len(q) THEN Len(q) - k + 1 ELSE 0
        /\ \A i \in 1 .. Len(q) - k + 1 : r[i] = q[k + i - 1]
    BY <2>1, SubSeqProperties
  <2>3. Len(r) # 0 /\ r[1] = q[k]
    BY <2>1, <2>2
  <2> QED BY <2>3
<1> QED BY <1>1, <1>2

(* It is taken up when it is a directive, or a %%. *)
LEMMA FreshPercent ==
    ASSUME NEW q \in Seq(Pieces), NEW r \in Seq(Pieces), EndOf(q, r),
           r # <<>> => Source(r)[1] = "%" /\ Source(r) # <<>>
    PROVE  FreshEnd(q, r)
<1>1. PICK k \in 1 .. Len(q) + 1 : r = SubSeq(q, k, Len(q))
  BY DEF EndOf
<1>2. ASSUME k \in DOMAIN q PROVE TakenUp(q, k)
  <2>1. k \in 1 .. Len(q)
    BY <1>2
  <2>2. r # <<>> /\ r[1] = q[k]
    BY <1>1, <2>1, EndFirst
  <2> DEFINE b == r[1].src
             s == Source(Tail(r))
  <2>3. b \in Seq(Letters) /\ s \in Seq(Letters) /\ Source(r) = b \o s
    <3>1. Tail(r) \in Seq(Pieces)
      BY <2>2, RestOfFormat
    <3> QED BY <2>2, <3>1, RestOfFormat, FormatTyped
  <2>4. (b \o s)[1] = "%"
    BY <2>2, <2>3
  <2>5. Len(b) = 1 => b[1] = "%"
    <3> HIDE DEF b, s
    <3> QED BY <2>3, <2>4
  <2>6. Len(b) = 2
    BY <2>2, <2>5, RestOfFormat, PieceForms
  <2> QED BY <2>2, <2>6 DEF TakenUp
<1> QED BY <1>1, <1>2 DEF FreshEnd

(* And when it follows a directive. *)
LEMMA FreshAfter ==
    ASSUME NEW q \in Seq(Pieces), NEW r \in Seq(Pieces), r # <<>>, EndOf(q, r),
           Len(r[1].src) = 2, r[1].src[2] # "%"
    PROVE  FreshEnd(q, Tail(r))
<1>1. PICK k \in 1 .. Len(q) + 1 : r = SubSeq(q, k, Len(q))
  BY DEF EndOf
<1>2. k \in 1 .. Len(q)
  <2>1. SubSeq(q, Len(q) + 1, Len(q)) = <<>>
    OBVIOUS
  <2>2. k # Len(q) + 1
    BY <1>1, <2>1
  <2> QED BY <2>2
<1>3. r[1] = q[k] /\ Tail(r) = SubSeq(q, k + 1, Len(q)) /\ k + 1 \in 1 .. Len(q) + 1
      /\ k = (k + 1) - 1
  BY <1>1, <1>2, EndFirst
<1>4. TakenUp(q, k + 1)
  BY <1>3 DEF TakenUp
<1> QED BY <1>3, <1>4 DEF FreshEnd

(* A run of plain characters at the front of a format: the format goes on after it
   with a %, or is over. *)
Run(r, a, z) ==
    /\ a \in Seq(Letters) /\ z \in Seq(Pieces)
    /\ \A i \in 1 .. Len(a) : a[i] # "%"
    /\ Source(r) = a \o Source(z) /\ Params(r) = Params(z) /\ Text(r) = a \o Text(z)
    /\ z # <<>> => Source(z)[1] = "%" /\ Source(z) # <<>>
    /\ r \in Seq(KnownPieces) => z \in Seq(KnownPieces)
    /\ \A q \in Seq(Pieces) : EndOf(q, r) => EndOf(q, z)

(* A format that is over, or goes on with a %, begins with the run of none. *)
LEMMA EmptyRun ==
    ASSUME NEW r \in Seq(Pieces), r # <<>> => Source(r)[1] = "%" /\ Source(r) # <<>>
    PROVE  Run(r, <<>>, r)
<1>1. Source(r) \in Seq(Letters) /\ Text(r) \in Seq(Letters)
  BY FormatTyped
<1> DEFINE s == Source(r)
           t == Text(r)
<1> HIDE DEF s, t
<1>2. s = <<>> \o s /\ t = <<>> \o t
  BY <1>1, ConcatEmptySeq DEF s, t
<1> QED BY <1>2 DEF Run, s, t

(* Every format begins with such a run, of no characters perhaps. *)
LEMMA LiteralRun ==
    ASSUME NEW q \in Seq(Pieces)
    PROVE  \E a, z : Run(q, a, z)
<1> DEFINE T == {n \in Nat : \A r \in Seq(Pieces) : Len(r) = n => \E a, z : Run(r, a, z)}
<1>2. 0 \in T
  <2> SUFFICES ASSUME NEW r \in Seq(Pieces), Len(r) = 0 PROVE \E a, z : Run(r, a, z)
    OBVIOUS
  <2>1. r = <<>>
    OBVIOUS
  <2>2. Run(r, <<>>, r)
    BY <2>1, EmptyRun
  <2> QED BY <2>2
<1>3. ASSUME NEW n \in T PROVE n + 1 \in T
  <2>0. n \in Nat /\ n + 1 \in Nat
    OBVIOUS
  <2> SUFFICES ASSUME NEW r \in Seq(Pieces), Len(r) = n + 1 PROVE \E a, z : Run(r, a, z)
    BY <2>0
  <2>1. r # <<>>
    BY <2>0
  <2> DEFINE p == r[1]
             w == Tail(r)
  <2>2. /\ p \in Pieces /\ w \in Seq(Pieces) /\ Len(w) = n
        /\ r \in Seq(KnownPieces) => w \in Seq(KnownPieces)
        /\ Source(r) = p.src \o Source(w) /\ Params(r) = p.params \o Params(w)
        /\ Text(r) = p.text \o Text(w)
        /\ p.src \in Seq(Letters)
    <3>1. Len(r) - 1 = n
      BY <2>0
    <3> HIDE DEF T
    <3> QED BY <2>1, <3>1, RestOfFormat
  <2> HIDE DEF p, w
  <2>3. /\ Source(w) \in Seq(Letters) /\ Params(w) \in Seq(Seq(Letters))
        /\ Text(w) \in Seq(Letters)
    BY <2>2, FormatTyped
  <2>4. CASE p.src[1] = "%" /\ Len(p.src) = 2
    <3>1. Source(r)[1] = "%" /\ Source(r) # <<>>
      <4> DEFINE b == p.src
                 s == Source(w)
      <4>1. b \in Seq(Letters) /\ s \in Seq(Letters) /\ b[1] = "%" /\ Len(b) = 2
        BY <2>2, <2>3, <2>4
      <4> HIDE DEF b, s
      <4>2. b \in Seq(Letters) /\ s \in Seq(Letters) /\ Len(b) = 2
        BY <4>1
      <4>0. Len(s) \in Nat
        BY <4>2
      <4>3. /\ Len(b \o s) = Len(b) + Len(s)
            /\ \A i \in 1 .. Len(b) + Len(s) :
                  (b \o s)[i] = IF i <= Len(b) THEN b[i] ELSE s[i - Len(b)]
        BY <4>2, ConcatProperties
      <4>4. (b \o s)[1] = b[1] /\ b \o s # <<>>
        BY <4>0, <4>2, <4>3
      <4> QED BY <2>2, <4>1, <4>4 DEF b, s
    <3> QED BY <3>1, EmptyRun
  <2>5. CASE Len(p.src) = 1 /\ p.src[1] # "%" /\ p.text = p.src /\ p.params = <<>>
    <3>1. PICK b, z : Run(w, b, z)
      BY <2>0, <2>2
    <3> HIDE DEF T
    <3> DEFINE c == p.src
               a == c \o b
               s == Source(z)
               t == Text(z)
    <3>2. c \in Seq(Letters) /\ Len(c) = 1 /\ c[1] # "%" /\ b \in Seq(Letters)
          /\ \A i \in 1 .. Len(b) : b[i] # "%"
      BY <2>2, <2>5, <3>1 DEF Run
    <3>3. z \in Seq(Pieces) /\ s \in Seq(Letters) /\ t \in Seq(Letters)
      BY <3>1, FormatTyped DEF Run
    <3>4. /\ Source(r) = c \o (b \o s) /\ Text(r) = c \o (b \o t)
          /\ Params(w) = Params(z)
      BY <2>2, <2>5, <3>1 DEF Run
    <3>5. Params(r) = Params(z)
      <4> DEFINE x == Params(w)
      <4>1. x \in Seq(Seq(Letters)) /\ Params(r) = <<>> \o x
        BY <2>2, <2>3, <2>5
      <4> HIDE DEF x
      <4>2. <<>> \o x = x
        BY <4>1, ConcatEmptySeq
      <4> QED BY <3>4, <4>1, <4>2 DEF x
    <3>6. (z # <<>> => s[1] = "%" /\ s # <<>>) /\ (r \in Seq(KnownPieces) => z \in Seq(KnownPieces))
      BY <2>2, <3>1 DEF Run
    <3>10. ASSUME NEW x \in Seq(Pieces), EndOf(x, r) PROVE EndOf(x, z)
      <4>1. EndOf(x, w)
        BY <2>1, <3>10, EndTail DEF w
      <4> QED BY <3>1, <4>1 DEF Run
    <3> HIDE DEF c, s, t
    <3>7. c \o (b \o s) = a \o s /\ c \o (b \o t) = a \o t
      <4>0. c \in Seq(Letters) /\ b \in Seq(Letters)
        BY <3>2
      <4>1. (c \o b) \o s = c \o (b \o s)
        BY <4>0, <3>3, ConcatAssociative
      <4>2. (c \o b) \o t = c \o (b \o t)
        BY <4>0, <3>3, ConcatAssociative
      <4> QED BY <4>1, <4>2
    <3>8. a \in Seq(Letters) /\ \A i \in 1 .. Len(a) : a[i] # "%"
      <4>0. c \in Seq(Letters) /\ b \in Seq(Letters) /\ Len(c) = 1
        BY <3>2
      <4>1. /\ a \in Seq(Letters) /\ Len(a) = Len(c) + Len(b)
            /\ \A i \in 1 .. Len(c) + Len(b) :
                  a[i] = IF i <= Len(c) THEN c[i] ELSE b[i - Len(c)]
        BY <4>0, ConcatProperties
      <4>2. /\ Len(a) = 1 + Len(b) /\ Len(b) \in Nat
            /\ \A i \in 1 .. Len(a) : a[i] = IF i <= 1 THEN c[1] ELSE b[i - 1]
        BY <4>0, <4>1
      <4> QED BY <3>2, <4>1, <4>2
    <3> HIDE DEF a
    <3>9. Run(r, a, z)
      BY <3>3, <3>4, <3>5, <3>6, <3>7, <3>8, <3>10 DEF Run, s, t
    <3> QED BY <3>9
  <2> QED BY <2>2, <2>4, <2>5, PieceForms
<1> HIDE DEF T
<1>4. T = Nat
  <2>1. T \in SUBSET Nat
    BY DEF T
  <2> QED BY <1>2, <1>3, <2>1, SetInduction
<1>5. Len(q) \in T
  BY <1>4
<1> QED BY <1>5 DEF T

(* The first % of f from its k-th character on, or 0. *)
NextPercent(f, k) ==
    LET I == {i \in k .. Len(f) : f[i] = "%"} IN IF I = {} THEN 0 ELSE Min(I)

(* A format f that is b, whose last character printf copies whatever it is, then a
   run of plain characters a, then s; printf stops copying after its end-th. *)
Stretch(b, a, s, f, end) ==
    /\ b \in Seq(Letters) /\ a \in Seq(Letters) /\ s \in Seq(Letters)
    /\ Len(b) >= 1 /\ f = b \o (a \o s)
    /\ \A i \in 1 .. Len(a) : a[i] # "%"
    /\ s # <<>> => s[1] = "%"
    /\ end = IF NextPercent(f, Len(b) + 1) = 0 THEN Len(f) ELSE NextPercent(f, Len(b) + 1) - 1

(* What printf copies of it, and what it goes on with. *)
Copied(b, a, s, f, end) ==
    SubSeq(f, Len(b), end) = <<b[Len(b)]>> \o a /\ SubSeq(f, end + 1, Len(f)) = s

(* It copies the whole run. *)
LEMMA PlainSplit ==
    ASSUME NEW b, NEW a, NEW s, NEW f, NEW end, Stretch(b, a, s, f, end)
    PROVE  Copied(b, a, s, f, end)
<1> DEFINE from == Len(b)
           stop == NextPercent(f, from + 1)
<1>0. /\ b \in Seq(Letters) /\ a \in Seq(Letters) /\ s \in Seq(Letters)
      /\ from >= 1 /\ f = b \o (a \o s)
      /\ \A i \in 1 .. Len(a) : a[i] # "%"
      /\ s # <<>> => s[1] = "%"
      /\ end = IF stop = 0 THEN Len(f) ELSE stop - 1
  BY DEF Stretch
<1> DEFINE I == {i \in from + 1 .. Len(f) : f[i] = "%"}
           m == from + Len(a)
<1>1. /\ from \in Nat /\ Len(a) \in Nat /\ Len(s) \in Nat /\ f \in Seq(Letters)
      /\ Len(f) = from + Len(a) + Len(s)
      /\ \A i \in 1 .. Len(f) : f[i] = IF i <= from THEN b[i]
                                      ELSE IF i <= m THEN a[i - from] ELSE s[i - m]
  BY <1>0, ConcatProperties
<1>2. end = m
  <2>1. CASE s = <<>>
    <3>1. Len(f) = m /\ I = {}
      BY <1>0, <1>1, <2>1
    <3> QED BY <1>0, <3>1 DEF NextPercent
  <2>2. CASE s # <<>>
    <3>1. m + 1 \in I /\ \A i \in I : m + 1 <= i
      BY <1>0, <1>1, <2>2
    <3>2. stop = Min(I)
      BY <1>0, <3>1 DEF NextPercent
    <3>3. \A i \in I : i \in Nat
      BY <1>1
    <3> HIDE DEF I, m
    <3>4. Min(I) = m + 1
      BY <3>1, <3>3 DEF Min
    <3> QED BY <1>0, <1>1, <3>2, <3>4 DEF m
  <2> QED BY <2>1, <2>2
<1>3. SubSeq(f, m + 1, Len(f)) = s
  BY <1>0, <1>1
<1>4. SubSeq(f, from, m) = <<b[from]>> \o a
  BY <1>0, <1>1
<1> QED BY <1>2, <1>3, <1>4 DEF Copied

(***************************************************************************)
(* A printf call                                                           *)
(***************************************************************************)

(* What is left of a format: the pieces r. Where printf knows every piece, what it
   has put, is putting and has ahead of it is the text of the whole format. *)
Ahead(j, r) ==
    /\ r \in Seq(Pieces)
    /\ j.format = Source(r)
    /\ Len(j.params) >= Len(Params(r))
    /\ j.pieces \in Seq(KnownPieces) =>
          /\ r \in Seq(KnownPieces)
          /\ j.params = Params(r)
          /\ FreshEnd(j.pieces, r)
          /\ Text(j.pieces) = (j.put \o j.out) \o Text(r)
          /\ j.failed => Len(Text(j.pieces)) > INT_MAX

Jobs == [fn : {"printf", "abort", "terminal_writestring"}, pieces : Seq(Pieces),
         format : Seq(Letters), params : Seq(Seq(Letters)), out : Seq(Letters),
         put : Seq(Letters), written : Nat, failed : BOOLEAN]

JobTyped(j) ==
    /\ j \in Jobs
    /\ j.fn = "terminal_writestring" => j.format = <<>>

Counted(j) ==
    /\ j.written = Len(j.put) + Len(j.out)
    /\ j.written <= INT_MAX
    /\ j.failed => j.out = <<>>

PrintInv ==
    job # Idle =>
        /\ JobTyped(job)
        /\ job.fn # "terminal_writestring" => Counted(job) /\ \E r : Ahead(job, r)

(* A call that has yet to begin is one. *)
LEMMA JobRecord ==
    ASSUME NEW fn \in {"printf", "abort", "terminal_writestring"}, NEW pieces \in Seq(Pieces),
           NEW format \in Seq(Letters), NEW params \in Seq(Seq(Letters)),
           NEW out \in Seq(Letters),
           NEW j, j = [fn |-> fn, pieces |-> pieces, format |-> format, params |-> params,
                       out |-> out, put |-> <<>>, written |-> 0, failed |-> FALSE]
    PROVE  j \in Jobs
BY DEF Jobs

(* A call begins with the whole format ahead of it. *)
LEMMA CallAhead ==
    ASSUME NEW pieces \in Seq(Pieces), NEW fn \in {"printf", "abort"},
           NEW j, j = Job(fn, pieces, <<>>)
    PROVE  JobTyped(j) /\ Counted(j) /\ Ahead(j, pieces)
<1> DEFINE s == Source(pieces)
           q == Params(pieces)
           t == Text(pieces)
<1>1. s \in Seq(Letters) /\ q \in Seq(Seq(Letters)) /\ t \in Seq(Letters)
  BY FormatTyped
<1>2. j = [fn |-> fn, pieces |-> pieces, format |-> s, params |-> q,
           out |-> <<>>, put |-> <<>>, written |-> 0, failed |-> FALSE]
  BY DEF Job
<1> HIDE DEF s, q, t
<1>3. /\ j.fn = fn /\ j.pieces = pieces /\ j.format = s /\ j.params = q
      /\ j.out = <<>> /\ j.put = <<>> /\ j.written = 0 /\ j.failed = FALSE
  BY <1>2
<1>4. JobTyped(j)
  <2>1. <<>> \in Seq(Letters) /\ 0 \in Nat /\ FALSE \in BOOLEAN
    OBVIOUS
  <2>0. fn \in {"printf", "abort", "terminal_writestring"}
    OBVIOUS
  <2>2. j \in Jobs
    BY <1>1, <1>2, <2>0, <2>1, JobRecord
  <2>3. fn # "terminal_writestring"
    OBVIOUS
  <2> QED BY <1>3, <2>2, <2>3 DEF JobTyped
<1>5. Counted(j)
  <2>1. Len(<<>>) = 0 /\ 0 = 0 + 0 /\ 0 <= INT_MAX
    BY TerminalAssumption
  <2> QED BY <1>3, <2>1 DEF Counted
<1>6. t = (<<>> \o <<>>) \o t
  <2>1. <<>> \o t = t
    BY <1>1, ConcatEmptySeq
  <2>2. <<>> \o <<>> = <<>>
    OBVIOUS
  <2> QED BY <2>1, <2>2
<1>7. Ahead(j, pieces)
  <2>1. Len(q) >= Len(q)
    BY <1>1
  <2> QED BY <1>3, <1>6, <2>1, EndWhole DEF Ahead, s, q, t
<1> QED BY <1>4, <1>5, <1>7

(* What a directive prints keeps the invariant: it is printed, or it does not fit. *)
LEMMA EmitKeeps ==
    ASSUME PrintInv, Due, NEW r, Ahead(job, r),
           NEW out \in Seq(Letters), NEW params \in Seq(Seq(Letters)), NEW z \in Seq(Pieces),
           NEW format, format = Source(z),
           Len(params) >= Len(Params(z)),
           job.pieces \in Seq(KnownPieces) =>
              /\ z \in Seq(KnownPieces) /\ FreshEnd(job.pieces, z)
              /\ params = Params(z) /\ Text(r) = out \o Text(z),
           Emit(out, format, params)
    PROVE  PrintInv'
<1>1. /\ JobTyped(job) /\ Counted(job) /\ job.out = <<>> /\ ~job.failed
      /\ job.fn # "terminal_writestring"
  BY DEF PrintInv, Due, JobTyped
<1> DEFINE u == job.put
           t == Text(z)
           k == job
           w == Text(job.pieces)
<1>2. /\ u \in Seq(Letters) /\ t \in Seq(Letters) /\ format \in Seq(Letters)
      /\ k.written \in Nat /\ k.written = Len(u) /\ INT_MAX \in Nat /\ k.written <= INT_MAX
      /\ Len(out) \in Nat /\ k.pieces \in Seq(Pieces)
  BY <1>1, FormatTyped, TerminalAssumption DEF JobTyped, Jobs, Counted
<1>3. k.pieces \in Seq(KnownPieces) => w = (u \o out) \o t
  <2> SUFFICES ASSUME k.pieces \in Seq(KnownPieces) PROVE w = (u \o out) \o t
    OBVIOUS
  <2>1. w = (u \o <<>>) \o (out \o t)
    BY <1>1 DEF Ahead
  <2> HIDE DEF u, t, w
  <2>2. u \o <<>> = u
    BY <1>2, ConcatEmptySeq
  <2>a. u \in Seq(Letters) /\ t \in Seq(Letters)
    BY <1>2
  <2>3. (u \o out) \o t = u \o (out \o t)
    BY <2>a, ConcatAssociative
  <2> QED BY <2>1, <2>2, <2>3
<1>4. CASE Overflows(out)
  <2>1. job' = [job EXCEPT !.failed = TRUE]
    BY <1>4 DEF Emit
  <2>2. /\ job'.fn = k.fn /\ job'.pieces = k.pieces /\ job'.format = k.format
        /\ job'.params = k.params /\ job'.out = k.out /\ job'.put = u
        /\ job'.written = k.written /\ job'.failed = TRUE
    BY <1>1, <2>1 DEF JobTyped, Jobs
  <2>3. JobTyped(job')
    BY <1>1, <2>1 DEF JobTyped, Jobs
  <2>4. Counted(job')
    BY <1>1, <2>2 DEF Counted
  <2>5. ASSUME k.pieces \in Seq(KnownPieces) PROVE Len(w) > INT_MAX
    <3>1. INT_MAX - k.written < Len(out)
      BY <1>4 DEF Overflows
    <3>2. w = (u \o out) \o t
      BY <1>3, <2>5
    <3> HIDE DEF u, t, w, k
    <3>3. u \o out \in Seq(Letters) /\ Len(u \o out) = Len(u) + Len(out)
      BY <1>2, ConcatProperties
    <3> DEFINE v == u \o out
    <3> HIDE DEF v
    <3>4. Len(v \o t) = Len(v) + Len(t) /\ Len(t) \in Nat
      <4>1. v \in Seq(Letters)
        BY <3>3 DEF v
      <4> QED BY <1>2, <4>1, ConcatProperties
    <3>5. Len(w) = Len(u) + Len(out) + Len(t)
      BY <3>2, <3>3, <3>4 DEF v
    <3> QED BY <1>2, <3>1, <3>4, <3>5
  <2>6. Ahead(job', r)
    BY <2>2, <2>5 DEF Ahead
  <2> QED BY <2>2, <2>3, <2>4, <2>6 DEF PrintInv
<1>5. CASE ~Overflows(out)
  <2>1. job' = [job EXCEPT !.out = out, !.format = format, !.params = params,
                           !.written = @ + Len(out)]
    BY <1>5 DEF Emit
  <2>2. /\ job'.fn = k.fn /\ job'.pieces = k.pieces /\ job'.format = format
        /\ job'.params = params /\ job'.out = out /\ job'.put = u
        /\ job'.written = k.written + Len(out) /\ job'.failed = FALSE
    BY <1>1, <2>1 DEF JobTyped, Jobs
  <2>3. JobTyped(job')
    <3>1. k.written + Len(out) \in Nat
      BY <1>2
    <3> DEFINE n == k.written + Len(out)
    <3>2. job' = [job EXCEPT !.out = out, !.format = format, !.params = params, !.written = n]
      BY <2>1
    <3> HIDE DEF n
    <3>3. job' \in Jobs
      BY <1>1, <1>2, <3>1, <3>2 DEF JobTyped, Jobs, n
    <3> QED BY <1>1, <2>2, <3>3 DEF JobTyped
  <2>4. Counted(job')
    <3>1. ~ (INT_MAX - k.written < Len(out))
      BY <1>5 DEF Overflows
    <3> HIDE DEF u, k
    <3> QED BY <1>2, <2>2, <3>1 DEF Counted
  <2>5. Ahead(job', z)
    BY <1>3, <2>2 DEF Ahead
  <2> QED BY <2>2, <2>3, <2>4, <2>5 DEF PrintInv
<1> QED BY <1>4, <1>5

(* The characters a format begins with are its first piece's. *)
LEMMA SourceFront ==
    ASSUME NEW r \in Seq(Pieces), r # <<>>
    PROVE  /\ Len(r[1].src) \in Nat /\ Len(Source(Tail(r))) \in Nat
           /\ Len(Source(r)) = Len(r[1].src) + Len(Source(Tail(r)))
           /\ \A i \in 1 .. Len(r[1].src) : Source(r)[i] = r[1].src[i]
           /\ SubSeq(Source(r), Len(r[1].src) + 1, Len(Source(r))) = Source(Tail(r))
<1>1. r \in Seq(PieceOf(Seq(Letters)))
  BY PiecesTyped
<1> QED BY <1>1, FrontOfSource

(* What is due is the first piece of what is ahead. *)
LEMMA DueFirst ==
    ASSUME PrintInv, Due
    PROVE  \E r \in Seq(Pieces) : r # <<>> /\ Ahead(job, r)
<1>1. JobTyped(job) /\ job.format # <<>>
  BY DEF PrintInv, Due
<1>2. job.fn # "terminal_writestring"
  BY <1>1 DEF JobTyped
<1>3. PICK r : Ahead(job, r)
  BY <1>2 DEF PrintInv, Due
<1>4. r \in Seq(Pieces) /\ job.format = Source(r)
  BY <1>3 DEF Ahead
<1>5. r # <<>>
  BY <1>1, <1>4, FormatEmpty
<1> QED BY <1>3, <1>4, <1>5

(* A directive is a piece of two characters with a parameter, and the rest follows. *)
LEMMA DirectiveFirst ==
    ASSUME PrintInv, Directive, NEW r \in Seq(Pieces), r # <<>>, Ahead(job, r)
    PROVE  /\ r[1].src[2] = Second /\ Second \in {"c", "s", "x", "i"}
           /\ Len(r[1].src) = 2 /\ r[1].params = <<r[1].text>>
           /\ From(3) = Source(Tail(r))
           /\ job.pieces \in Seq(KnownPieces) => Second \in {"c", "s"}
<1> DEFINE p == r[1]
           f == job.format
<1>1. p \in Pieces /\ f = Source(r)
      /\ (job.pieces \in Seq(KnownPieces) => p \in KnownPieces)
  BY RestOfFormat DEF Ahead
<1>2. /\ Len(p.src) \in Nat /\ Len(Source(Tail(r))) \in Nat
      /\ Len(f) = Len(p.src) + Len(Source(Tail(r)))
      /\ \A i \in 1 .. Len(p.src) : f[i] = p.src[i]
      /\ SubSeq(f, Len(p.src) + 1, Len(f)) = Source(Tail(r))
  BY <1>1, SourceFront
<1>3. f[1] = "%" /\ Second # "%"
  BY DEF Directive, First
<1> HIDE DEF p
<1>4. CASE Len(p.src) = 1 /\ p.src[1] # "%"
  BY <1>2, <1>3, <1>4
<1>5. CASE Len(p.src) = 2
  <2>1. f[2] = p.src[2] /\ Len(f) > 1
    BY <1>2, <1>5
  <2>2. Second = p.src[2]
    BY <2>1 DEF Second
  <2>3. p.src[2] \in {"c", "s", "x", "i"} /\ p.params = <<p.text>>
    BY <1>1, <1>3, <1>5, <2>2, PieceForms
  <2>4. From(3) = Source(Tail(r))
    BY <1>2, <1>5 DEF From
  <2>5. p \in KnownPieces => p.src[2] \in {"%", "c", "s"}
    BY <1>5, KnownForms
  <2>6. job.pieces \in Seq(KnownPieces) => Second \in {"c", "s"}
    BY <1>1, <1>3, <2>2, <2>5
  <2> QED BY <1>5, <2>2, <2>3, <2>4, <2>6 DEF p
<1> QED BY <1>1, <1>4, <1>5, PieceForms

(* The parameters of a format whose first piece has one. *)
LEMMA ParameterFirst ==
    ASSUME PrintInv, Directive, NEW r \in Seq(Pieces), r # <<>>, Ahead(job, r)
    PROVE  /\ job.params \in Seq(Seq(Letters))
           /\ Head(job.params) \in Seq(Letters) /\ Tail(job.params) \in Seq(Seq(Letters))
           /\ Len(Tail(job.params)) >= Len(Params(Tail(r)))
           /\ Len(job.params) >= Len(Params(Tail(r)))
           /\ job.pieces \in Seq(KnownPieces) =>
                 Head(job.params) = r[1].text /\ Tail(job.params) = Params(Tail(r))
<1> DEFINE t == r[1].text
           q == Params(Tail(r))
           m == job.params
<1>1. m \in Seq(Seq(Letters))
  BY DEF PrintInv, Directive, Due, JobTyped, Jobs
<1>2. t \in Seq(Letters) /\ Tail(r) \in Seq(Pieces) /\ Params(r) = <<t>> \o q
  BY RestOfFormat, DirectiveFirst
<1>3. q \in Seq(Seq(Letters))
  BY <1>2, FormatTyped
<1>4. Len(m) >= Len(Params(r)) /\ (job.pieces \in Seq(KnownPieces) => m = Params(r))
  BY DEF Ahead
<1> HIDE DEF t, q, m
<1>5. Len(<<t>> \o q) = 1 + Len(q) /\ Len(q) \in Nat
  BY <1>2, <1>3
<1>6. Head(<<t>> \o q) = t /\ Tail(<<t>> \o q) = q
  BY <1>2, <1>3
<1>7. m # <<>> /\ Len(m) >= 1 + Len(q)
  BY <1>1, <1>2, <1>4, <1>5
<1>8. Head(m) \in Seq(Letters) /\ Tail(m) \in Seq(Seq(Letters)) /\ Len(Tail(m)) = Len(m) - 1
      /\ Len(m) \in Nat
  BY <1>1, <1>7, HeadTailProperties
<1>9. Len(Tail(m)) >= Len(q) /\ Len(m) >= Len(q)
  BY <1>5, <1>7, <1>8
<1>10. job.pieces \in Seq(KnownPieces) => Head(m) = t /\ Tail(m) = q
  BY <1>2, <1>4, <1>6
<1> QED BY <1>1, <1>8, <1>9, <1>10 DEF t, q, m

(* Plain characters: a literal or a %%, and the literals after it. *)
LEMMA PlainKeeps == ASSUME PrintInv, Plain PROVE PrintInv'
<1>0. Due /\ (First # "%" \/ Second = "%")
  BY DEF Plain
<1>1. PICK r \in Seq(Pieces) : r # <<>> /\ Ahead(job, r)
  BY <1>0, DueFirst
<1> DEFINE p == r[1]
           w == Tail(r)
           f == job.format
<1>2. /\ p \in Pieces /\ w \in Seq(Pieces) /\ f = Source(r)
      /\ Params(r) = p.params \o Params(w) /\ Text(r) = p.text \o Text(w)
      /\ p.src \in Seq(Letters) /\ p.text \in Seq(Letters)
      /\ f = p.src \o Source(w)
      /\ job.pieces \in Seq(KnownPieces) => w \in Seq(KnownPieces) /\ EndOf(job.pieces, w)
  <2>1. job.pieces \in Seq(KnownPieces) => EndOf(job.pieces, w)
    BY <1>1, EndTail, PiecesTyped DEF Ahead, FreshEnd, EndOf
  <2> QED BY <1>1, <2>1, RestOfFormat DEF Ahead
<1>3. /\ Len(p.src) \in Nat /\ Len(Source(w)) \in Nat
      /\ Len(f) = Len(p.src) + Len(Source(w))
      /\ \A i \in 1 .. Len(p.src) : f[i] = p.src[i]
  BY <1>1, <1>2, SourceFront
<1>4. PICK a, z : Run(w, a, z)
  BY <1>2, LiteralRun
<1> DEFINE b == p.src
           s == Source(z)
           from == IF First = "%" THEN 2 ELSE 1
           stop == SelectInSubSeq(f, from + 1, Len(f), LAMBDA c : c = "%")
           end  == IF stop = 0 THEN Len(f) ELSE stop - 1
           out  == SubSeq(f, from, end)
<1>5. First = f[1] /\ (Len(f) > 1 => Second = f[2])
  BY DEF First, Second
<1> HIDE DEF p, w, f
<1>6. /\ from = Len(b) /\ from >= 1 /\ p.params = <<>> /\ p.text = <<b[from]>>
  <2>1. CASE Len(b) = 1 /\ b[1] # "%" /\ p.text = b /\ p.params = <<>>
    <3>1. First # "%"
      BY <1>3, <1>5, <2>1
    <3>2. from = 1
      BY <3>1
    <3> HIDE DEF b
    <3>3. b = <<b[1]>>
      <4>1. b \in Seq(Letters) /\ Len(b) = 1
        BY <1>2, <2>1 DEF b
      <4> QED BY <4>1
    <3> QED BY <2>1, <3>2, <3>3
  <2>2. CASE /\ Len(b) = 2 /\ b[1] = "%" /\ b[2] = "%"
             /\ p.text = <<"%">> /\ p.params = <<>>
    <3>1. First = "%"
      BY <1>3, <1>5, <2>2
    <3>2. from = 2
      BY <3>1
    <3> QED BY <2>2, <3>2
  <2>3. CASE /\ Len(b) = 2 /\ b[1] = "%" /\ b[2] \in {"c", "s", "x", "i"}
    <3>1. First = "%" /\ Second = b[2]
      BY <1>3, <1>5, <2>3
    <3> QED BY <1>0, <3>1, <2>3
  <2> QED BY <1>2, <2>1, <2>2, <2>3, PieceForms
<1>7. /\ z \in Seq(Pieces) /\ a \in Seq(Letters) /\ \A i \in 1 .. Len(a) : a[i] # "%"
      /\ Source(w) = a \o s /\ Params(w) = Params(z) /\ Text(w) = a \o Text(z)
      /\ s # <<>> => s[1] = "%"
      /\ w \in Seq(KnownPieces) => z \in Seq(KnownPieces)
      /\ \A q \in Seq(Pieces) : EndOf(q, w) => EndOf(q, z)
  BY <1>4, FormatEmpty DEF Run
<1>8. s \in Seq(Letters) /\ Params(z) \in Seq(Seq(Letters)) /\ Text(z) \in Seq(Letters)
  BY <1>7, FormatTyped
<1>9. f = b \o (a \o s) /\ b \in Seq(Letters)
  BY <1>2, <1>7
<1>10. out = <<b[from]>> \o a /\ SubSeq(f, end + 1, Len(f)) = s
  <2>1. stop = NextPercent(f, from + 1)
    BY DEF NextPercent, SelectInSubSeq
  <2>2. end = IF NextPercent(f, Len(b) + 1) = 0 THEN Len(f) ELSE NextPercent(f, Len(b) + 1) - 1
    BY <1>6, <2>1
  <2> HIDE DEF b, s, from, end
  <2>3. Stretch(b, a, s, f, end)
    BY <1>6, <1>7, <1>8, <1>9, <2>2 DEF Stretch
  <2>4. Copied(b, a, s, f, end)
    BY <2>3, PlainSplit, Zenon
  <2> QED BY <1>6, <2>4 DEF Copied
<1>11. Emit(out, From(end + 1), job.params)
  BY DEF Plain, f
<1>12. From(end + 1) = s
  BY <1>10 DEF From, f
<1> HIDE DEF from, stop, end, b, s, out
<1>13. out = p.text \o a /\ out \in Seq(Letters)
  <2> DEFINE t == p.text
  <2>1. t \in Seq(Letters) /\ out = t \o a
    BY <1>2, <1>6, <1>10
  <2> HIDE DEF t
  <2>2. t \o a \in Seq(Letters)
    BY <1>7, <2>1, ConcatProperties
  <2> QED BY <2>1, <2>2 DEF t
<1>14. Text(r) = out \o Text(z)
  <2> DEFINE t == p.text
             u == Text(z)
  <2>1. t \in Seq(Letters) /\ u \in Seq(Letters) /\ Text(r) = t \o (a \o u) /\ out = t \o a
    BY <1>2, <1>7, <1>8, <1>13
  <2> HIDE DEF t, u
  <2>2. (t \o a) \o u = t \o (a \o u)
    <3>1. t \in Seq(Letters) /\ u \in Seq(Letters) /\ a \in Seq(Letters)
      BY <1>7, <2>1
    <3> QED BY <3>1, ConcatAssociative
  <2> QED BY <2>1, <2>2 DEF u
<1>15. Params(r) = Params(z)
  <2> DEFINE q == Params(z)
  <2>1. q \in Seq(Seq(Letters)) /\ Params(r) = <<>> \o q
    BY <1>2, <1>6, <1>7, <1>8
  <2> HIDE DEF q
  <2>2. <<>> \o q = q
    BY <2>1, ConcatEmptySeq
  <2> QED BY <2>1, <2>2 DEF q
<1>16. /\ job.params \in Seq(Seq(Letters)) /\ Len(job.params) >= Len(Params(z))
       /\ (job.pieces \in Seq(KnownPieces) => job.params = Params(z))
  BY <1>0, <1>1, <1>15 DEF PrintInv, Due, JobTyped, Jobs, Ahead
<1>17. ASSUME job.pieces \in Seq(KnownPieces)
       PROVE  z \in Seq(KnownPieces) /\ FreshEnd(job.pieces, z)
  <2>1. job.pieces \in Seq(Pieces) /\ EndOf(job.pieces, z) /\ z \in Seq(KnownPieces)
    BY <1>2, <1>7, <1>17, PiecesTyped
  <2>2. z # <<>> => Source(z)[1] = "%" /\ Source(z) # <<>>
    BY <1>4 DEF Run
  <2> QED BY <1>7, <2>1, <2>2, FreshPercent
<1> QED BY <1>0, <1>1, <1>7, <1>11, <1>12, <1>13, <1>14, <1>16, <1>17, EmitKeeps DEF s

(* A parameter, printed where its directive stands. *)
LEMMA ParameterKeeps == ASSUME PrintInv, PrintChar \/ PrintString PROVE PrintInv'
<1>0. Due /\ Directive
  BY DEF PrintChar, PrintString, Directive
<1>1. PICK r \in Seq(Pieces) : r # <<>> /\ Ahead(job, r)
  BY <1>0, DueFirst
<1> DEFINE z == Tail(r)
           out == Head(job.params)
           params == Tail(job.params)
           known == job.pieces \in Seq(KnownPieces)
<1>2. /\ z \in Seq(Pieces) /\ Text(r) = r[1].text \o Text(z)
      /\ known => z \in Seq(KnownPieces) /\ FreshEnd(job.pieces, z)
  <2>1. ASSUME known PROVE FreshEnd(job.pieces, z)
    <3>1. job.pieces \in Seq(Pieces) /\ EndOf(job.pieces, r)
      BY <1>1, <2>1, PiecesTyped DEF Ahead, FreshEnd, EndOf
    <3>2. Len(r[1].src) = 2 /\ r[1].src[2] # "%"
      BY <1>0, <1>1, DirectiveFirst
    <3> QED BY <1>1, <3>1, <3>2, FreshAfter
  <2> QED BY <1>1, <2>1, RestOfFormat DEF Ahead
<1>3. From(3) = Source(z)
  BY <1>0, <1>1, DirectiveFirst
<1>4. /\ out \in Seq(Letters) /\ params \in Seq(Seq(Letters))
      /\ Len(params) >= Len(Params(z))
      /\ known => out = r[1].text /\ params = Params(z)
  BY <1>0, <1>1, ParameterFirst
<1>5. Emit(out, From(3), params)
  BY DEF PrintChar, PrintString
<1> HIDE DEF z, out, params
<1>6. known => /\ z \in Seq(KnownPieces) /\ FreshEnd(job.pieces, z)
               /\ params = Params(z) /\ Text(r) = out \o Text(z)
  BY <1>2, <1>4
<1> HIDE DEF known
<1> QED BY <1>0, <1>1, <1>2, <1>3, <1>4, <1>5, <1>6, EmitKeeps DEF known

(* A directive nothing is done for: its letter becomes a plain character. *)
LEMMA HexKeeps == ASSUME PrintInv, PrintHex PROVE PrintInv'
<1>0. Due /\ Directive /\ Second = "x"
  BY DEF PrintHex, Directive
<1>1. PICK r \in Seq(Pieces) : r # <<>> /\ Ahead(job, r)
  BY <1>0, DueFirst
<1> DEFINE x == Literal("x")
           w == Tail(r)
           z == <<x>> \o w
           f == job.format
<1>2. w \in Seq(Pieces) /\ f = Source(r)
  BY <1>1, RestOfFormat DEF Ahead
<1>3. x \in Pieces
  <2>1. "x" \in Letters \ {"%"}
    BY FormatAssumption
  <2>2. IsPiece(x)
    BY <2>1 DEF IsPiece, Literal
  <2> QED BY <2>2, AssumedPieces
<1>4. x.src = <<"x">> /\ x.params = <<>>
  BY DEF Literal
<1>5. /\ Second = r[1].src[2] /\ Len(r[1].src) = 2
      /\ job.pieces \notin Seq(KnownPieces)
      /\ From(3) = Source(w)
  BY <1>0, <1>1, DirectiveFirst
<1>6. job.params \in Seq(Seq(Letters)) /\ Len(job.params) >= Len(Params(w))
  BY <1>0, <1>1, ParameterFirst
<1> HIDE DEF x, w
<1>7. z \in Seq(Pieces) /\ z # <<>> /\ z[1] = x /\ Tail(z) = w
  BY <1>2, <1>3
<1> HIDE DEF z
<1>8. Source(z) = <<"x">> \o Source(w) /\ Params(z) = <<>> \o Params(w)
  BY <1>4, <1>7, RestOfFormat
<1>9. Source(w) \in Seq(Letters) /\ Params(w) \in Seq(Seq(Letters))
  BY <1>2, FormatTyped
<1>10. Params(z) = Params(w)
  <2> DEFINE q == Params(w)
  <2>1. q \in Seq(Seq(Letters)) /\ Params(z) = <<>> \o q
    BY <1>8, <1>9
  <2> HIDE DEF q
  <2>2. <<>> \o q = q
    BY <2>1, ConcatEmptySeq
  <2> QED BY <2>1, <2>2 DEF q
<1>11. From(2) = Source(z)
  <2> DEFINE s == Source(w)
  <2>1. /\ f[2] = "x" /\ Len(f) >= 2 /\ Len(f) \in Nat
    <3> DEFINE b == r[1].src
    <3>1. /\ Len(b) = 2 /\ Len(s) \in Nat /\ Len(f) = Len(b) + Len(s)
          /\ \A i \in 1 .. Len(b) : f[i] = b[i]
      BY <1>1, <1>2, <1>5, SourceFront DEF w
    <3>2. b[2] = "x"
      BY <1>0, <1>5
    <3> HIDE DEF b, f, s
    <3> QED BY <3>1, <3>2
  <2>2. f \in Seq(Letters)
    BY <1>2, FormatTyped
  <2>3. s = SubSeq(f, 3, Len(f)) /\ s \in Seq(Letters)
    BY <1>5, <1>9 DEF From
  <2> HIDE DEF f, s
  <2>4. SubSeq(f, 2, Len(f)) = <<f[2]>> \o SubSeq(f, 3, Len(f))
    <3>1. Len(f) >= 2 /\ Len(f) \in Nat
      BY <2>1
    <3> DEFINE c == f[2]
               g == SubSeq(f, 3, Len(f))
    <3>2. c \in Letters /\ g \in Seq(Letters) /\ Len(g) = Len(f) - 2
          /\ \A i \in 1 .. Len(f) - 2 : g[i] = f[i + 2]
      <4>1. c \in Letters
        BY <2>2, <3>1
      <4>2. /\ SubSeq(f, 3, Len(f)) \in Seq(Letters)
            /\ Len(SubSeq(f, 3, Len(f))) = Len(f) - 2
        <5> DEFINE m == Len(f)
        <5>1. 3 \in Int /\ m \in Int /\ m >= 2 /\ \A i \in 3 .. m : f[i] \in Letters
          BY <2>2, <3>1
        <5> HIDE DEF m
        <5>2. /\ SubSeq(f, 3, m) \in Seq(Letters)
              /\ Len(SubSeq(f, 3, m)) = IF 3 <= m THEN m - 3 + 1 ELSE 0
          BY <5>1, SubSeqProperties
        <5>3. SubSeq(f, 3, m) \in Seq(Letters) /\ Len(SubSeq(f, 3, m)) = m - 2
          <6> DEFINE d == SubSeq(f, 3, m)
          <6> HIDE DEF d
          <6>1. Len(d) = IF 3 <= m THEN m - 3 + 1 ELSE 0
            BY <5>2 DEF d
          <6>2. Len(d) = m - 2
            BY <5>1, <6>1
          <6> QED BY <5>2, <6>2 DEF d
        <5> QED BY <5>3 DEF m
      <4>3. \A i \in 1 .. Len(f) - 2 : SubSeq(f, 3, Len(f))[i] = f[i + 2]
        BY <2>2, <3>1
      <4> QED BY <4>1, <4>2, <4>3
    <3>3. /\ SubSeq(f, 2, Len(f)) \in Seq(Letters) /\ Len(SubSeq(f, 2, Len(f))) = Len(f) - 1
          /\ \A i \in 1 .. Len(f) - 1 : SubSeq(f, 2, Len(f))[i] = f[i + 1]
      BY <2>2, <3>1
    <3> DEFINE l == SubSeq(f, 2, Len(f))
               k == <<c>> \o g
    <3> HIDE DEF g
    <3>4. k \in Seq(Letters) /\ Len(k) = Len(f) - 1 /\ k[1] = c
          /\ \A i \in 2 .. Len(f) - 1 : k[i] = g[i - 1]
      BY <3>1, <3>2
    <3>5. \A i \in 1 .. Len(f) - 1 : l[i] = k[i]
      <4>1. \A i \in 2 .. Len(f) - 1 : k[i] = f[i + 1]
        BY <3>1, <3>2, <3>4
      <4> HIDE DEF k, l
      <4> QED BY <3>1, <3>3, <3>4, <4>1 DEF l
    <3> HIDE DEF k, l
    <3>6. l = k
      BY <3>1, <3>3, <3>4, <3>5, SeqEqual DEF l
    <3> QED BY <3>6 DEF k, l, g
  <2>5. From(2) = SubSeq(f, 2, Len(f))
    BY DEF From, f
  <2> QED BY <1>8, <2>1, <2>3, <2>4, <2>5 DEF s
<1>12. Emit(<<>>, From(2), job.params) /\ <<>> \in Seq(Letters)
  BY DEF PrintHex
<1> QED BY <1>0, <1>1, <1>5, <1>6, <1>7, <1>10, <1>11, <1>12, EmitKeeps

(* A directive that is unknown: with it, the rest of the format is printed. *)
LEMMA RestKeeps == ASSUME PrintInv, PrintRest PROVE PrintInv'
<1>0. Due /\ Directive /\ Second \notin {"c", "s", "x"}
  BY DEF PrintRest, Directive
<1>1. PICK r \in Seq(Pieces) : r # <<>> /\ Ahead(job, r)
  BY <1>0, DueFirst
<1>2. job.pieces \notin Seq(KnownPieces)
  BY <1>0, <1>1, DirectiveFirst
<1>3. job.params \in Seq(Seq(Letters)) /\ job.format \in Seq(Letters)
  BY <1>0 DEF PrintInv, Due, JobTyped, Jobs
<1>4. <<>> \in Seq(Pieces) /\ <<>> = Source(<<>>) /\ Len(job.params) >= Len(Params(<<>>))
  <2>1. Len(job.params) >= Len(<<>>) /\ <<>> \in Seq(Pieces)
    BY <1>3
  <2> QED BY <2>1, FormatEmpty, Zenon
<1>5. Emit(job.format, <<>>, job.params)
  BY DEF PrintRest
<1> QED BY <1>0, <1>1, <1>2, <1>3, <1>4, <1>5, EmitKeeps

(* A character put moves from what is being put to what has been. *)
LEMMA PutKeeps == ASSUME PrintInv, PutNext PROVE PrintInv'
<1> DEFINE u == job.put
           e == job.out
           h == Head(job.out)
<1>1. JobTyped(job) /\ e # <<>> /\ job' = [job EXCEPT !.out = Tail(@), !.put = Append(@, h)]
  BY DEF PutNext, PrintInv
<1>2. u \in Seq(Letters) /\ e \in Seq(Letters)
  BY <1>1 DEF JobTyped, Jobs
<1>3. /\ Append(u, h) \in Seq(Letters) /\ Tail(e) \in Seq(Letters)
      /\ Len(Append(u, h)) = Len(u) + 1 /\ Len(Tail(e)) = Len(e) - 1
      /\ Append(u, h) \o Tail(e) = u \o e
  BY <1>1, <1>2, CharacterMoves
<1>4. /\ job'.fn = job.fn /\ job'.pieces = job.pieces /\ job'.format = job.format
      /\ job'.params = job.params /\ job'.out = Tail(e) /\ job'.put = Append(u, h)
      /\ job'.written = job.written /\ job'.failed = job.failed
  BY <1>1 DEF JobTyped, Jobs
<1> HIDE DEF h
<1>5. JobTyped(job')
  <2>1. job' \in Jobs
    BY <1>1, <1>2, <1>3 DEF JobTyped, Jobs
  <2> QED BY <1>1, <1>4, <2>1 DEF JobTyped
<1>6. ASSUME job.fn # "terminal_writestring" PROVE Counted(job') /\ \E r : Ahead(job', r)
  <2>1. Counted(job) /\ \E r : Ahead(job, r)
    BY <1>6 DEF PrintInv, PutNext
  <2>2. PICK r : Ahead(job, r)
    BY <2>1
  <2>3. Counted(job')
    <3>1. job.written = Len(u) + Len(e) /\ job.written <= INT_MAX /\ ~job.failed
      BY <1>1, <2>1, Zenon DEF Counted
    <3> HIDE DEF u, e
    <3>2. Len(u) \in Nat /\ Len(e) \in Nat
      BY <1>2
    <3>3. Len(Append(u, h)) + Len(Tail(e)) = Len(u) + Len(e)
      BY <1>3, <3>2
    <3> QED BY <1>4, <3>1, <3>3, Zenon DEF Counted
  <2>4. Ahead(job', r)
    BY <1>3, <1>4, <2>2 DEF Ahead
  <2> QED BY <2>3, <2>4
<1> QED BY <1>4, <1>5, <1>6 DEF PrintInv

(* No call is under way at first. *)
LEMMA PrintInvInit == TerminalInit => PrintInv
BY DEF TerminalInit, PrintInv

(* A call that begins keeps the invariant. *)
LEMMA CallKeeps ==
    ASSUME NEW fn \in {"printf", "abort"}, NEW pieces \in Seq(Pieces),
           Call(Job(fn, pieces, <<>>))
    PROVE  PrintInv'
<1> DEFINE j == Job(fn, pieces, <<>>)
<1>1. JobTyped(j) /\ Counted(j) /\ Ahead(j, pieces)
  BY CallAhead
<1>2. job' = j
  BY DEF Call
<1> HIDE DEF j
<1> QED BY <1>1, <1>2 DEF PrintInv

(* Every step keeps it. *)
LEMMA PrintInvNext == ASSUME PrintInv, [TerminalNext]_tty PROVE PrintInv'
<1>1. CASE UNCHANGED job
  BY <1>1 DEF PrintInv
<1>2. ASSUME NEW s \in Texts, terminal_writestring(s) PROVE PrintInv'
  <2>1. s \in Seq(Letters)
    BY FormatAssumption
  <2>2. <<>> \in Seq(Pieces)
    OBVIOUS
  <2> DEFINE fn == "terminal_writestring"
             j == Job(fn, <<>>, s)
  <2>3. Source(<<>>) \in Seq(Letters) /\ Params(<<>>) \in Seq(Seq(Letters)) /\ Source(<<>>) = <<>>
    BY <2>2, FormatTyped, FormatEmpty
  <2>4. j = [fn |-> fn, pieces |-> <<>>, format |-> Source(<<>>), params |-> Params(<<>>),
             out |-> s, put |-> <<>>, written |-> 0, failed |-> FALSE]
    BY DEF Job
  <2>5. j \in Jobs
    BY <2>1, <2>2, <2>3, <2>4, JobRecord
  <2>6. j.fn = fn /\ j.format = <<>>
    BY <2>3, <2>4
  <2>7. job' = j
    BY <1>2 DEF terminal_writestring, Call
  <2> HIDE DEF j
  <2> QED BY <2>5, <2>6, <2>7 DEF PrintInv, JobTyped
<1>3. ASSUME NEW s \in Texts, puts(s) PROVE PrintInv'
  <2>1. s \in Seq(Letters) /\ NewLine \in Letters \ {"%"}
    BY FormatAssumption DEF NewLine
  <2>2. Str(s) \in Pieces
    BY <2>1, AssumedPieces DEF IsPiece, Str
  <2>3. Literal(NewLine) \in Pieces
    BY <2>1, AssumedPieces DEF IsPiece, Literal
  <2>4. <<Str(s), Literal(NewLine)>> \in Seq(Pieces)
    BY <2>2, <2>3
  <2> QED BY <1>3, <2>4, CallKeeps DEF puts
<1>4. ASSUME NEW pieces \in Formats, printf(pieces) PROVE PrintInv'
  <2>1. IsSequence(pieces) /\ \A k \in DOMAIN pieces : IsPiece(pieces[k]) \/ IsUnknown(pieces[k])
    BY FormatAssumption
  <2>2. \A k \in DOMAIN pieces : pieces[k] \in Pieces
    BY <2>1, AssumedPieces
  <2>3. pieces \in Seq(Pieces)
    BY <2>1, <2>2 DEF IsSequence
  <2> QED BY <1>4, <2>3, CallKeeps DEF printf
<1>5. CASE abort
  <2>1. "!" \in Letters \ {"%"} /\ NewLine \in Letters \ {"%"}
    BY FormatAssumption DEF NewLine
  <2>2. Literal("!") \in Pieces /\ Literal(NewLine) \in Pieces
    BY <2>1, AssumedPieces DEF IsPiece, Literal
  <2>3. <<Literal("!"), Literal(NewLine)>> \in Seq(Pieces)
    BY <2>2
  <2> QED BY <1>5, <2>3, CallKeeps DEF abort
<1>6. CASE PrintReturn
  BY <1>6 DEF PrintReturn, PrintInv
<1>7. CASE PrintStep
  BY <1>6, <1>7, PlainKeeps, ParameterKeeps, HexKeeps, RestKeeps, PutKeeps DEF PrintStep
<1> QED
  BY <1>1, <1>2, <1>3, <1>4, <1>5, <1>7 DEF TerminalNext, terminal_initialize, tty

(* The invariant holds throughout. *)
LEMMA PrintInvariance == TerminalSpec => []PrintInv
BY PrintInvInit, PrintInvNext, PTL DEF TerminalSpec

(* A format of no characters has no pieces. *)
LEMMA NothingAhead ==
    ASSUME NEW r \in Seq(Pieces), Source(r) = <<>>
    PROVE  r = <<>>
<1>1. r \in Seq(PieceOf(Seq(Letters)))
  BY PiecesTyped
<1>2. r # <<>> => Len(r[1].src) # 0
  BY RestOfFormat, PieceForms
<1> QED BY <1>1, <1>2, NothingLeft

(* printf puts the text of its format and returns its length; or it returns -1, when
   the text does not fit an int, and has put the beginning of it. *)
THEOREM PrintfKeepsPromise == TerminalSpec => []PrintfPromise
<1>1. PrintInv => PrintfPromise
  <2> SUFFICES ASSUME PrintInv, Printed, job.fn # "terminal_writestring"
               PROVE  /\ job.written = Len(job.put) /\ job.written <= INT_MAX
                      /\ (\A k \in DOMAIN job.pieces : Known(job.pieces[k])) =>
                            /\ IsPrefix(job.put, Text(job.pieces))
                            /\ ~job.failed => job.put = Text(job.pieces)
                            /\ job.failed =>
                                  /\ Len(Text(job.pieces)) > INT_MAX
                                  /\ \E k \in DOMAIN job.pieces :
                                        /\ TakenUp(job.pieces, k)
                                        /\ Text(job.pieces) = job.put \o
                                              Text(SubSeq(job.pieces, k, Len(job.pieces)))
    BY DEF PrintfPromise
  <2> DEFINE u == job.put
             q == job.pieces
             w == Text(q)
  <2>1. JobTyped(job) /\ Counted(job) /\ job.out = <<>>
    BY DEF PrintInv, Printed
  <2>2. PICK r : Ahead(job, r)
    BY DEF PrintInv, Printed
  <2>3. u \in Seq(Letters) /\ job.pieces \in Seq(Pieces) /\ job.written \in Nat
    BY <2>1 DEF JobTyped, Jobs
  <2>4. job.written = Len(u) /\ job.written <= INT_MAX
    <3>1. Len(job.out) = 0
      BY <2>1
    <3> QED BY <2>1, <2>3, <3>1 DEF Counted
  <2>5. ASSUME \A k \in DOMAIN job.pieces : Known(job.pieces[k])
        PROVE  /\ IsPrefix(u, w)
               /\ ~job.failed => u = w
               /\ job.failed =>
                     /\ Len(w) > INT_MAX
                     /\ \E k \in DOMAIN q :
                           TakenUp(q, k) /\ w = u \o Text(SubSeq(q, k, Len(q)))
    <3> DEFINE t == Text(r)
    <3>1. job.pieces \in Seq(KnownPieces)
      <4>1. \A k \in 1 .. Len(job.pieces) : job.pieces[k] \in KnownPieces
        BY <2>3, <2>5 DEF KnownPieces
      <4> QED BY <2>3, <4>1
    <3>2. r \in Seq(Pieces) /\ w = (u \o <<>>) \o t /\ job.format = Source(r)
          /\ (job.failed => Len(w) > INT_MAX) /\ FreshEnd(q, r)
      BY <2>1, <2>2, <3>1 DEF Ahead
    <3>3. t \in Seq(Letters)
      BY <3>2, FormatTyped
    <3>4. ~job.failed => t = <<>>
      BY <3>2, NothingAhead, FormatEmpty DEF Printed
    <3> HIDE DEF u, w, t
    <3>5. u \o <<>> = u
      BY <2>3, ConcatEmptySeq
    <3>6. w = u \o t
      BY <3>2, <3>5
    <3>7. IsPrefix(u, w) /\ (t = <<>> => u = w)
      BY <2>3, <3>3, <3>6, TextBegins
    <3>8. ASSUME job.failed
          PROVE  \E k \in DOMAIN q : TakenUp(q, k) /\ w = u \o Text(SubSeq(q, k, Len(q)))
      <4>1. PICK k \in 1 .. Len(q) + 1 :
                r = SubSeq(q, k, Len(q)) /\ (k \in DOMAIN q => TakenUp(q, k))
        BY <3>2 DEF FreshEnd
      <4>2. r # <<>>
        <5>1. Len(w) > INT_MAX /\ Len(u) <= INT_MAX /\ INT_MAX \in Nat /\ Len(u) \in Nat
          BY <2>3, <2>4, <3>2, <3>8, TerminalAssumption DEF u
        <5>2. w # u
          BY <5>1
        <5> QED BY <3>7, <5>2, FormatEmpty DEF t
      <4>3. k \in DOMAIN q
        <5>1. SubSeq(q, Len(q) + 1, Len(q)) = <<>>
          BY <2>3
        <5>2. k # Len(q) + 1
          BY <4>1, <4>2, <5>1
        <5> QED BY <2>3, <4>1, <5>2
      <4> QED BY <3>6, <4>1, <4>3 DEF t
    <3> QED BY <3>2, <3>4, <3>7, <3>8
  <2> QED BY <2>4, <2>5
<1> QED BY <1>1, PrintInvariance, PTL
=============================================================================
