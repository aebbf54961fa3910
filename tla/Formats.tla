------------------------------ MODULE Formats -------------------------------
(***************************************************************************)
(* printf's formats, as the C library defines them: what printf.c and      *)
(* serial.c are checked against.  A format is a sequence of pieces; a      *)
(* piece has its characters, the parameters that come with it -- a         *)
(* character as a string of one -- and the text it stands for.             *)
(***************************************************************************)
EXTENDS Integers, Sequences, SequencesExt

CONSTANT Letters        \* the values of a char, 0 aside

ASSUME LettersAssumption == {"%", "c", "s"} \subseteq Letters

Literal(c) == [src |-> <<c>>, params |-> <<>>, text |-> <<c>>]
Percent    == [src |-> <<"%", "%">>, params |-> <<>>, text |-> <<"%">>]
Char(c)    == [src |-> <<"%", "c">>, params |-> <<<<c>>>>, text |-> <<c>>]
Str(s)     == [src |-> <<"%", "s">>, params |-> <<s>>, text |-> s]

Source(pieces) == FlattenSeq([k \in DOMAIN pieces |-> pieces[k].src])
Params(pieces) == FlattenSeq([k \in DOMAIN pieces |-> pieces[k].params])
Text(pieces)   == FlattenSeq([k \in DOMAIN pieces |-> pieces[k].text])

(* What is known of the formats a program gives: they are sequences of pieces, and
   a % never stands for itself. *)
IsSequence(s) == Len(s) \in Nat /\ s = [k \in 1 .. Len(s) |-> s[k]]

IsPiece(p) ==
    \/ p = Literal(p.src[1]) /\ p.src[1] \in Letters \ {"%"}
    \/ p = Percent
    \/ p.src = <<"%", "c">> /\ p = Char(p.text[1]) /\ p.text[1] \in Letters
    \/ p = Str(p.text) /\ p.text \in Seq(Letters)
=============================================================================
