---------------------------- MODULE FormatsProofs ----------------------------
(***************************************************************************)
(* Lemmas about formats, for the proofs about printf and qemu_printf: what *)
(* the pieces' characters, parameters and texts are when they are put one  *)
(* after another.                                                          *)
(*                                                                         *)
(* They are about every number of pieces.  Induction comes from the least  *)
(* element of a set of naturals: a property of n is the set of the n that  *)
(* have it, so that no lemma takes an operator as a parameter.             *)
(***************************************************************************)
EXTENDS Formats, SequenceTheorems, WellFoundedInduction, TLAPS

(***************************************************************************)
(* Induction                                                               *)
(***************************************************************************)

(* A set of naturals that is not empty has a least element. *)
LEMMA LeastNatural ==
    ASSUME NEW S \in SUBSET Nat, S # {}
    PROVE  \E n \in S : \A m \in S : n <= m
<1> DEFINE R == OpToRel(<, Nat)
<1>1. IsWellFoundedOn(R, Nat)
  BY NatLessThanWellFounded
<1>2. \A m, n \in Nat : m < n => <<m, n>> \in R
  BY DEF OpToRel
<1> HIDE DEF R
<1>3. PICK n \in S : \A m \in S : ~ (<<m, n>> \in R)
  BY <1>1, WFMin, Zenon
<1>4. \A m \in S : ~ (m < n)
  BY <1>2, <1>3
<1>5. \A m \in S : n <= m
  BY <1>4
<1> QED BY <1>5

(* A set of naturals with 0 and the successor of each of its elements has all. *)
LEMMA SetInduction ==
    ASSUME NEW S \in SUBSET Nat, 0 \in S, \A n \in S : n + 1 \in S
    PROVE  S = Nat
<1> SUFFICES ASSUME Nat \ S # {} PROVE FALSE
  OBVIOUS
<1>1. PICK n \in Nat \ S : \A m \in Nat \ S : n <= m
  BY LeastNatural
<1>2. n # 0 /\ n - 1 \in Nat /\ n - 1 \in S
  BY <1>1
<1> QED BY <1>2

(* The same with all smaller numbers to rest on. *)
LEMMA SetStrongInduction ==
    ASSUME NEW S \in SUBSET Nat,
           \A n \in Nat : (\A m \in 0 .. n - 1 : m \in S) => n \in S
    PROVE  S = Nat
<1> SUFFICES ASSUME Nat \ S # {} PROVE FALSE
  OBVIOUS
<1>1. PICK n \in Nat \ S : \A m \in Nat \ S : n <= m
  BY LeastNatural
<1>2. \A m \in 0 .. n - 1 : m \in S
  BY <1>1
<1> QED BY <1>1, <1>2

(***************************************************************************)
(* FlattenSeq                                                              *)
(***************************************************************************)

(* f[i] is the first i sequences of s, one after another. *)
Sums(S, s, n, f) ==
    /\ f \in [0 .. n -> Seq(S)]
    /\ f[0] = <<>>
    /\ \A i \in 1 .. n : f[i] = f[i - 1] \o s[i]

(* The function there is for every sequence of sequences. *)
LEMMA SumsExist ==
    ASSUME NEW S, NEW s \in Seq(Seq(S))
    PROVE  \E f : Sums(S, s, Len(s), f)
<1> DEFINE T == {n \in Nat : n <= Len(s) => \E f : Sums(S, s, n, f)}
<1>1. 0 \in T
  <2> DEFINE f == [i \in 0 .. 0 |-> <<>>]
  <2>1. Sums(S, s, 0, f)
    BY DEF Sums
  <2> QED BY <2>1
<1>2. ASSUME NEW n \in T PROVE n + 1 \in T
  <2> SUFFICES ASSUME n + 1 <= Len(s) PROVE \E f : Sums(S, s, n + 1, f)
    OBVIOUS
  <2>0. n \in Nat /\ n <= Len(s)
    OBVIOUS
  <2>1. PICK f : Sums(S, s, n, f)
    BY <2>0
  <2>2. s[n + 1] \in Seq(S) /\ f[n] \in Seq(S)
    BY <2>0, <2>1 DEF Sums
  <2> DEFINE g == [i \in 0 .. n + 1 |-> IF i = n + 1 THEN f[n] \o s[n + 1] ELSE f[i]]
  <2>3. g \in [0 .. n + 1 -> Seq(S)]
    <3>1. f[n] \o s[n + 1] \in Seq(S)
      BY <2>2, ConcatProperties
    <3>2. \A i \in 0 .. n : f[i] \in Seq(S)
      BY <2>1 DEF Sums
    <3> QED BY <2>0, <3>1, <3>2
  <2>4. g[0] = <<>>
    BY <2>0, <2>1 DEF Sums
  <2>5. ASSUME NEW i \in 1 .. n + 1 PROVE g[i] = g[i - 1] \o s[i]
    <3>1. CASE i = n + 1
      <4>1. i - 1 = n /\ n # n + 1 /\ n \in 0 .. n + 1 /\ n + 1 \in 0 .. n + 1
        BY <3>1, <2>0
      <4>2. g[n + 1] = f[n] \o s[n + 1]
        BY <4>1
      <4>3. g[n] = f[n]
        BY <4>1
      <4> QED BY <4>1, <4>2, <4>3, <3>1, Zenon
    <3>2. CASE i # n + 1
      <4>1. i \in 1 .. n /\ i - 1 \in 0 .. n
        BY <3>2, <2>0
      <4>2. g[i] = f[i] /\ g[i - 1] = f[i - 1]
        BY <4>1, <3>2
      <4> QED BY <4>1, <4>2, <2>1 DEF Sums
    <3> QED BY <3>1, <3>2
  <2>6. Sums(S, s, n + 1, g)
    BY <2>3, <2>4, <2>5 DEF Sums
  <2> QED BY <2>6
<1> HIDE DEF T
<1>3. T \in SUBSET Nat
  BY DEF T
<1>4. T = Nat
  BY <1>1, <1>2, <1>3, SetInduction
<1>5. Len(s) \in Nat /\ Len(s) <= Len(s)
  OBVIOUS
<1>6. Len(s) \in T
  BY <1>4, <1>5
<1> QED BY <1>5, <1>6 DEF T

Flattening(s, g) ==
    g = [i \in 1 .. Len(s) |-> IF i = 1 THEN s[i] ELSE g[i - 1] \o s[i]]

(* FlattenSeq is the last of the sums. *)
LEMMA FlattenSums ==
    ASSUME NEW S, NEW s \in Seq(Seq(S)), NEW f, Sums(S, s, Len(s), f)
    PROVE  FlattenSeq(s) = f[Len(s)]
<1> DEFINE n == Len(s)
<1>0. n \in Nat /\ \A i \in 1 .. n : s[i] \in Seq(S)
  OBVIOUS
<1>1. CASE n = 0
  BY <1>1 DEF FlattenSeq, Sums
<1>2. CASE n # 0
  <2> DEFINE h == [i \in 1 .. n |-> f[i]]
             flatten == CHOOSE g : Flattening(s, g)
  <2>1. \A i \in 1 .. n : f[i] = IF i = 1 THEN s[i] ELSE f[i - 1] \o s[i]
    <3>1. f[1] = s[1]
      <4>0. 1 \in 1 .. n /\ 1 - 1 = 0
        BY <1>0, <1>2
      <4>1. f[1] = f[0] \o s[1] /\ f[0] = <<>> /\ s[1] \in Seq(S)
        BY <1>0, <4>0 DEF Sums
      <4> QED BY <4>1, ConcatEmptySeq
    <3> QED BY <3>1 DEF Sums
  <2>2. Flattening(s, h)
    <3>1. \A i \in 1 .. n : i # 1 => h[i - 1] = f[i - 1]
      BY <1>0
    <3> QED BY <2>1, <3>1 DEF Flattening
  <2>3. Flattening(s, flatten)
    BY <2>2, Zenon
  <2>4. FlattenSeq(s) = flatten[n]
    BY <1>2 DEF FlattenSeq, Flattening
  <2> HIDE DEF flatten
  <2>5. \A i \in 1 .. n : flatten[i] = IF i = 1 THEN s[i] ELSE flatten[i - 1] \o s[i]
    BY <2>3 DEF Flattening
  <2> DEFINE T == {i \in Nat : i + 1 \in 1 .. n => flatten[i + 1] = f[i + 1]}
  <2> HIDE DEF n
  <2>6. 0 \in T
    BY <2>5, <2>1, <1>0
  <2>7. ASSUME NEW i \in T PROVE i + 1 \in T
    <3> SUFFICES ASSUME i + 2 \in 1 .. n PROVE flatten[i + 2] = f[i + 2]
      OBVIOUS
    <3>0. i \in Nat /\ i + 1 \in 1 .. n /\ i + 2 # 1 /\ (i + 2) - 1 = i + 1
      BY <1>0
    <3>1. flatten[i + 1] = f[i + 1]
      BY <3>0
    <3> HIDE DEF T
    <3>2. flatten[i + 2] = flatten[i + 1] \o s[i + 2]
      BY <2>5, <3>0
    <3>3. f[i + 2] = f[i + 1] \o s[i + 2]
      BY <2>1, <3>0
    <3> QED BY <3>1, <3>2, <3>3
  <2> HIDE DEF T
  <2>8. T = Nat
    <3>1. T \in SUBSET Nat
      BY DEF T
    <3> QED BY <2>6, <2>7, <3>1, SetInduction
  <2>9. n - 1 \in T /\ (n - 1) + 1 = n /\ n \in 1 .. n
    BY <2>8, <1>2, <1>0
  <2> QED BY <2>9, <2>4, <1>2 DEF T, n
<1> QED BY <1>1, <1>2

(* FlattenSeq works through its sequences one by one, from the first on. *)
LEMMA FlattenCons ==
    ASSUME NEW S, NEW s \in Seq(Seq(S)), s # <<>>
    PROVE  FlattenSeq(s) = s[1] \o FlattenSeq(Tail(s)) /\ FlattenSeq(s) \in Seq(S)
<1> DEFINE n == Len(s)
           z == Tail(s)
<1>0. n \in Nat \ {0} /\ z \in Seq(Seq(S)) /\ Len(z) = n - 1 /\ s[1] \in Seq(S)
  BY HeadTailProperties
<1>1. \A i \in 1 .. n - 1 : z[i] = s[i + 1]
  BY <1>0, HeadTailProperties
<1>2. PICK f : Sums(S, s, Len(s), f)
  BY SumsExist
<1>3. PICK g : Sums(S, z, Len(z), g)
  BY <1>0, SumsExist
<1> HIDE DEF z
<1>4. FlattenSeq(s) = f[n] /\ FlattenSeq(z) = g[n - 1]
  BY <1>0, <1>2, <1>3, FlattenSums
<1> HIDE DEF n
<1>5. /\ f[0] = <<>> /\ g[0] = <<>>
      /\ \A i \in 0 .. n : f[i] \in Seq(S)
      /\ \A i \in 0 .. n - 1 : g[i] \in Seq(S)
      /\ \A i \in 1 .. n : f[i] = f[i - 1] \o s[i]
      /\ \A i \in 1 .. n - 1 : g[i] = g[i - 1] \o z[i] /\ z[i] \in Seq(S)
  <2>1. Len(s) = n /\ Len(z) = n - 1
    BY <1>0 DEF n
  <2>2. Sums(S, s, n, f) /\ Sums(S, z, n - 1, g)
    BY <1>2, <1>3, <2>1
  <2>3. \A i \in 1 .. n - 1 : z[i] \in Seq(S)
    BY <1>0, <2>1, ElementOfSeq
  <2> QED BY <2>2, <2>3 DEF Sums
<1> DEFINE T == {i \in Nat : i <= n - 1 => f[i + 1] = s[1] \o g[i]}
<1>6. 0 \in T
  <2>1. f[1] = f[0] \o s[1]
    <3>1. 1 \in 1 .. n /\ 1 - 1 = 0
      BY <1>0
    <3> QED BY <3>1, <1>5
  <2>2. <<>> \o s[1] = s[1] /\ s[1] \o <<>> = s[1]
    BY <1>0, ConcatEmptySeq
  <2>3. f[0 + 1] = s[1] \o g[0]
    BY <2>1, <2>2, <1>5
  <2> QED BY <2>3
<1>7. ASSUME NEW i \in T PROVE i + 1 \in T
  <2> SUFFICES ASSUME i + 1 <= n - 1 PROVE f[(i + 1) + 1] = s[1] \o g[i + 1]
    <3>1. i + 1 \in Nat
      OBVIOUS
    <3>2. i + 1 <= n - 1 => f[(i + 1) + 1] = s[1] \o g[i + 1]
      OBVIOUS
    <3> QED BY <3>1, <3>2
  <2>1. i \in Nat /\ i <= n - 1 /\ i + 1 \in 1 .. n - 1 /\ i + 2 \in 1 .. n
        /\ (i + 2) - 1 = i + 1 /\ (i + 1) - 1 = i /\ (i + 1) + 1 = i + 2 /\ i \in 0 .. n - 1
    BY <1>0
  <2>2. f[i + 1] = s[1] \o g[i]
    BY <2>1
  <2> HIDE DEF T
  <2>3. f[i + 2] = f[i + 1] \o s[i + 2]
    BY <2>1, <1>5
  <2>4. s[i + 2] = z[i + 1]
    BY <2>1, <1>1
  <2>5. g[i + 1] = g[i] \o z[i + 1] /\ z[i + 1] \in Seq(S) /\ g[i] \in Seq(S)
    BY <2>1, <1>5
  <2>6. (s[1] \o g[i]) \o z[i + 1] = s[1] \o (g[i] \o z[i + 1])
    <3> DEFINE x == s[1]
               y == g[i]
               w == z[i + 1]
    <3>1. x \in Seq(S) /\ y \in Seq(S) /\ w \in Seq(S)
      BY <1>0, <2>5
    <3> HIDE DEF x, y, w
    <3>2. (x \o y) \o w = x \o (y \o w)
      BY <3>1, ConcatAssociative
    <3> QED BY <3>2 DEF x, y, w
  <2>7. (i + 1) + 1 = i + 2
    BY <2>1
  <2> QED BY <2>2, <2>3, <2>4, <2>5, <2>6, <2>7
<1> HIDE DEF T
<1>8. T = Nat
  <2>1. T \in SUBSET Nat
    BY DEF T
  <2> QED BY <1>6, <1>7, <2>1, SetInduction
<1>9. f[n] = s[1] \o g[n - 1]
  <2>1. n - 1 \in T /\ (n - 1) + 1 = n /\ n - 1 <= n - 1
    BY <1>0, <1>8
  <2>2. n - 1 <= n - 1 => f[(n - 1) + 1] = s[1] \o g[n - 1]
    BY <2>1 DEF T
  <2> QED BY <2>1, <2>2
<1>10. f[n] \in Seq(S)
  BY <1>0, <1>5
<1> QED BY <1>4, <1>9, <1>10 DEF z

(* What FlattenSeq makes of no sequences. *)
LEMMA FlattenEmpty == FlattenSeq(<<>>) = <<>>
BY DEF FlattenSeq

(***************************************************************************)
(* Formats                                                                 *)
(***************************************************************************)

(* A piece with characters, a text and parameters of a set S. *)
PieceOf(S) == [src : Seq(Letters), params : Seq(S), text : Seq(Letters)]

(* A piece begins with a %, or is a character that is none and stands for itself. *)
LEMMA PieceForm ==
    ASSUME NEW p, IsPiece(p)
    PROVE  \/ /\ Len(p.src) = 1 /\ p.src[1] # "%"
              /\ p.text = p.src /\ p.params = <<>>
           \/ /\ Len(p.src) = 2 /\ p.src[1] = "%" /\ p.src[2] = "%"
              /\ p.text = <<"%">> /\ p.params = <<>> /\ p = Percent
           \/ /\ Len(p.src) = 2 /\ p.src[1] = "%" /\ p.src[2] \in {"c", "s"}
              /\ p.params = <<p.text>>
<1>1. CASE p = Literal(p.src[1]) /\ p.src[1] \in Letters \ {"%"}
  BY <1>1 DEF Literal
<1>2. CASE p = Percent
  BY <1>2 DEF Percent
<1>3. CASE p.src = <<"%", "c">> /\ p = Char(p.text[1])
  <2> DEFINE c == p.text[1]
  <2>1. p = [src |-> <<"%", "c">>, params |-> <<<<c>>>>, text |-> <<c>>]
    BY <1>3 DEF Char
  <2> HIDE DEF c
  <2>2. p.params = <<<<c>>>> /\ p.text = <<c>>
    BY <2>1
  <2> QED BY <1>3, <2>2
<1>4. CASE p = Str(p.text)
  BY <1>4 DEF Str
<1> QED BY <1>1, <1>2, <1>3, <1>4 DEF IsPiece

(* Three sequences make a piece. *)
LEMMA RecordTyped ==
    ASSUME NEW S, NEW s \in Seq(Letters), NEW q \in Seq(S), NEW t \in Seq(Letters),
           NEW p, p = [src |-> s, params |-> q, text |-> t]
    PROVE  p \in PieceOf(S)
BY DEF PieceOf

(* Pieces are made of sequences. *)
LEMMA PieceTyped ==
    ASSUME NEW p, IsPiece(p)
    PROVE  p \in PieceOf(Seq(Letters))
<1>1. CASE p = Literal(p.src[1]) /\ p.src[1] \in Letters \ {"%"}
  <2> DEFINE c == p.src[1]
  <2>1. p = [src |-> <<c>>, params |-> <<>>, text |-> <<c>>] /\ c \in Letters
    BY <1>1 DEF Literal
  <2> HIDE DEF c
  <2>2. <<c>> \in Seq(Letters) /\ <<>> \in Seq(Seq(Letters))
    BY <2>1
  <2> QED BY <2>1, <2>2, RecordTyped
<1>2. CASE p = Percent
  <2>1. p = [src |-> <<"%", "%">>, params |-> <<>>, text |-> <<"%">>]
    BY <1>2 DEF Percent
  <2>2. <<"%", "%">> \in Seq(Letters) /\ <<"%">> \in Seq(Letters) /\ <<>> \in Seq(Seq(Letters))
    BY LettersAssumption
  <2> QED BY <2>1, <2>2, RecordTyped
<1>3. CASE p = Char(p.text[1]) /\ p.text[1] \in Letters
  <2> DEFINE c == p.text[1]
  <2>1. p = [src |-> <<"%", "c">>, params |-> <<<<c>>>>, text |-> <<c>>] /\ c \in Letters
    BY <1>3 DEF Char
  <2> HIDE DEF c
  <2>2. <<"%", "c">> \in Seq(Letters) /\ <<c>> \in Seq(Letters) /\ <<<<c>>>> \in Seq(Seq(Letters))
    BY <2>1, LettersAssumption
  <2> QED BY <2>1, <2>2, RecordTyped
<1>4. CASE p = Str(p.text) /\ p.text \in Seq(Letters)
  <2> DEFINE t == p.text
  <2>1. p = [src |-> <<"%", "s">>, params |-> <<t>>, text |-> t] /\ t \in Seq(Letters)
    BY <1>4 DEF Str
  <2> HIDE DEF t
  <2>2. <<"%", "s">> \in Seq(Letters) /\ <<t>> \in Seq(Seq(Letters))
    BY <2>1, LettersAssumption
  <2> QED BY <2>1, <2>2, RecordTyped
<1> QED BY <1>1, <1>2, <1>3, <1>4 DEF IsPiece

(* One field of every piece of a format: the first, and those of the rest. *)
LEMMA TailOfField ==
    ASSUME NEW X, NEW r \in Seq(X), r # <<>>, NEW Y, NEW e \in Seq(Y), Len(e) = Len(r)
    PROVE  /\ e # <<>>
           /\ Tail(e) = [k \in DOMAIN Tail(r) |-> e[k + 1]]
           /\ \A k \in DOMAIN Tail(r) : Tail(r)[k] = r[k + 1]
<1>1. /\ Len(r) \in Nat \ {0} /\ DOMAIN r = 1 .. Len(r)
      /\ Tail(r) \in Seq(X) /\ Len(Tail(r)) = Len(r) - 1
      /\ \A i \in 1 .. Len(Tail(r)) : Tail(r)[i] = r[i + 1]
  BY HeadTailProperties
<1> DEFINE n == Len(r)
           z == Tail(r)
<1>2. DOMAIN z = 1 .. n - 1 /\ \A k \in DOMAIN z : z[k] = r[k + 1]
  BY <1>1
<1> HIDE DEF z
<1>3. e \in [1 .. n -> Y] /\ n \in Nat \ {0}
  BY <1>1
<1>4. e \in Seq(Y) /\ Len(e) = n /\ e # <<>>
  BY <1>1
<1> HIDE DEF n
<1>5. Tail(e) = [k \in 1 .. n - 1 |-> e[k + 1]]
  <2> DEFINE t == [k \in 1 .. n - 1 |-> e[k + 1]]
  <2>1. t \in Seq(Y) /\ Len(t) = n - 1
    BY <1>3
  <2>2. /\ Tail(e) \in Seq(Y) /\ Len(Tail(e)) = n - 1
        /\ \A i \in 1 .. n - 1 : Tail(e)[i] = e[i + 1]
    BY <1>4, HeadTailProperties
  <2>3. \A i \in 1 .. Len(t) : t[i] = Tail(e)[i]
    BY <2>1, <2>2
  <2> HIDE DEF t
  <2>4. t = Tail(e)
    BY <2>1, <2>2, <2>3, SeqEqual
  <2> QED BY <2>4 DEF t
<1> QED BY <1>2, <1>4, <1>5 DEF z

(* A format's characters, parameters and text are its first piece's and then
   those of the rest. *)
LEMMA FormatCons ==
    ASSUME NEW S, NEW r \in Seq(PieceOf(S)), r # <<>>
    PROVE  /\ r[1] \in PieceOf(S) /\ Tail(r) \in Seq(PieceOf(S)) /\ Len(Tail(r)) = Len(r) - 1
           /\ Source(r) = r[1].src \o Source(Tail(r))
           /\ Params(r) = r[1].params \o Params(Tail(r))
           /\ Text(r) = r[1].text \o Text(Tail(r))
           /\ Source(r) \in Seq(Letters) /\ Params(r) \in Seq(S) /\ Text(r) \in Seq(Letters)
<1>1. /\ r[1] \in PieceOf(S) /\ Tail(r) \in Seq(PieceOf(S)) /\ Len(Tail(r)) = Len(r) - 1
      /\ 1 \in DOMAIN r /\ \A k \in DOMAIN r : r[k] \in PieceOf(S)
  BY HeadTailProperties
<1> DEFINE z == Tail(r)
<1>2. \A k \in DOMAIN z : z[k] = r[k + 1] /\ k + 1 \in DOMAIN r
  BY <1>1, HeadTailProperties
<1>3. Source(r) = r[1].src \o Source(z) /\ Source(r) \in Seq(Letters)
  <2> DEFINE e == [k \in DOMAIN r |-> r[k].src]
             d == [k \in DOMAIN z |-> z[k].src]
  <2>1. e \in Seq(Seq(Letters)) /\ Len(e) = Len(r) /\ e[1] = r[1].src
    BY <1>1 DEF PieceOf
  <2>2. \A k \in DOMAIN z : e[k + 1] = z[k].src
    BY <1>2
  <2> HIDE DEF e
  <2>3. e \in Seq(Seq(Letters)) /\ e # <<>> /\ Tail(e) = [k \in DOMAIN z |-> e[k + 1]]
    BY <2>1, TailOfField
  <2>4. Tail(e) = d
    BY <2>2, <2>3
  <2> HIDE DEF d
  <2>5. FlattenSeq(e) = e[1] \o FlattenSeq(d) /\ FlattenSeq(e) \in Seq(Letters)
    BY <2>3, <2>4, FlattenCons
  <2> QED BY <2>1, <2>5 DEF Source, e, d
<1>4. Params(r) = r[1].params \o Params(z) /\ Params(r) \in Seq(S)
  <2> DEFINE e == [k \in DOMAIN r |-> r[k].params]
             d == [k \in DOMAIN z |-> z[k].params]
  <2>1. e \in Seq(Seq(S)) /\ Len(e) = Len(r) /\ e[1] = r[1].params
    BY <1>1 DEF PieceOf
  <2>2. \A k \in DOMAIN z : e[k + 1] = z[k].params
    BY <1>2
  <2> HIDE DEF e
  <2>3. e \in Seq(Seq(S)) /\ e # <<>> /\ Tail(e) = [k \in DOMAIN z |-> e[k + 1]]
    BY <2>1, TailOfField
  <2>4. Tail(e) = d
    BY <2>2, <2>3
  <2> HIDE DEF d
  <2>5. FlattenSeq(e) = e[1] \o FlattenSeq(d) /\ FlattenSeq(e) \in Seq(S)
    BY <2>3, <2>4, FlattenCons
  <2> QED BY <2>1, <2>5 DEF Params, e, d
<1>5. Text(r) = r[1].text \o Text(z) /\ Text(r) \in Seq(Letters)
  <2> DEFINE e == [k \in DOMAIN r |-> r[k].text]
             d == [k \in DOMAIN z |-> z[k].text]
  <2>1. e \in Seq(Seq(Letters)) /\ Len(e) = Len(r) /\ e[1] = r[1].text
    BY <1>1 DEF PieceOf
  <2>2. \A k \in DOMAIN z : e[k + 1] = z[k].text
    BY <1>2
  <2> HIDE DEF e
  <2>3. e \in Seq(Seq(Letters)) /\ e # <<>> /\ Tail(e) = [k \in DOMAIN z |-> e[k + 1]]
    BY <2>1, TailOfField
  <2>4. Tail(e) = d
    BY <2>2, <2>3
  <2> HIDE DEF d
  <2>5. FlattenSeq(e) = e[1] \o FlattenSeq(d) /\ FlattenSeq(e) \in Seq(Letters)
    BY <2>3, <2>4, FlattenCons
  <2> QED BY <2>1, <2>5 DEF Text, e, d
<1> QED BY <1>1, <1>3, <1>4, <1>5

(* A format of no pieces has no characters, no parameters and no text. *)
LEMMA FormatEmpty == Source(<<>>) = <<>> /\ Params(<<>>) = <<>> /\ Text(<<>>) = <<>>
<1>1. DOMAIN <<>> = {}
  OBVIOUS
<1>2. \A e : e = [k \in DOMAIN <<>> |-> e[k]] => e = <<>>
  OBVIOUS
<1> QED BY <1>1, FlattenEmpty DEF Source, Params, Text

(* A format's characters, parameters and text are sequences. *)
LEMMA FieldsTyped ==
    ASSUME NEW S, NEW r \in Seq(PieceOf(S))
    PROVE  Source(r) \in Seq(Letters) /\ Params(r) \in Seq(S) /\ Text(r) \in Seq(Letters)
<1>1. CASE r = <<>>
  <2>1. <<>> \in Seq(Letters) /\ <<>> \in Seq(S)
    OBVIOUS
  <2> QED BY <1>1, <2>1, FormatEmpty, Zenon
<1>2. CASE r # <<>>
  BY <1>2, FormatCons
<1> QED BY <1>1, <1>2

(* The characters a format begins with are its first piece's. *)
LEMMA FrontOfSource ==
    ASSUME NEW S, NEW r \in Seq(PieceOf(S)), r # <<>>
    PROVE  /\ Len(r[1].src) \in Nat /\ Len(Source(Tail(r))) \in Nat
           /\ Len(Source(r)) = Len(r[1].src) + Len(Source(Tail(r)))
           /\ \A i \in 1 .. Len(r[1].src) : Source(r)[i] = r[1].src[i]
           /\ SubSeq(Source(r), Len(r[1].src) + 1, Len(Source(r))) = Source(Tail(r))
<1> DEFINE b == r[1].src
           s == Source(Tail(r))
           f == Source(r)
<1>1. b \in Seq(Letters) /\ f = b \o s /\ Tail(r) \in Seq(PieceOf(S))
  <2>1. r[1] \in PieceOf(S)
    BY FormatCons
  <2>2. r[1].src \in Seq(Letters)
    BY <2>1 DEF PieceOf
  <2> QED BY <2>2, FormatCons
<1>2. s \in Seq(Letters)
  BY <1>1, FieldsTyped
<1> HIDE DEF b, s, f
<1>3. /\ Len(b \o s) = Len(b) + Len(s)
      /\ \A i \in 1 .. Len(b) + Len(s) :
            (b \o s)[i] = IF i <= Len(b) THEN b[i] ELSE s[i - Len(b)]
  BY <1>1, <1>2, ConcatProperties
<1>4. Len(b) \in Nat /\ Len(s) \in Nat
  BY <1>1, <1>2
<1>5. SubSeq(f, Len(b) + 1, Len(f)) = s
  BY <1>1, <1>2, <1>3, <1>4
<1>6. \A i \in 1 .. Len(b) : f[i] = b[i]
  BY <1>1, <1>3, <1>4
<1> QED BY <1>1, <1>3, <1>4, <1>5, <1>6 DEF b, s, f

(* A format of no characters has no pieces. *)
LEMMA NothingLeft ==
    ASSUME NEW S, NEW r \in Seq(PieceOf(S)), Source(r) = <<>>,
           r # <<>> => Len(r[1].src) # 0
    PROVE  r = <<>>
<1> SUFFICES ASSUME r # <<>> PROVE FALSE
  OBVIOUS
<1> DEFINE m == Len(r[1].src)
           n == Len(Source(Tail(r)))
<1>1. Len(Source(r)) = m + n /\ m \in Nat /\ n \in Nat /\ m # 0
  BY FrontOfSource
<1>2. Len(Source(r)) = 0
  OBVIOUS
<1> HIDE DEF m, n
<1> QED BY <1>1, <1>2

(* A text begins with what has been put of it, and that is all when the rest is
   empty. *)
LEMMA TextBegins ==
    ASSUME NEW u \in Seq(Letters), NEW t \in Seq(Letters), NEW w, w = u \o t
    PROVE  IsPrefix(u, w) /\ (t = <<>> => u = w)
<1>1. /\ w \in Seq(Letters) /\ Len(w) = Len(u) + Len(t)
      /\ \A i \in 1 .. Len(u) + Len(t) : w[i] = IF i <= Len(u) THEN u[i] ELSE t[i - Len(u)]
  BY ConcatProperties
<1>2. Len(u) \in Nat /\ Len(t) \in Nat
  OBVIOUS
<1>3. SubSeq(u, 1, Len(u)) = SubSeq(w, 1, Len(u))
  BY <1>1, <1>2
<1>4. IsPrefix(u, w)
  BY <1>1, <1>2, <1>3 DEF IsPrefix
<1>5. u \o <<>> = u
  BY ConcatEmptySeq
<1> QED BY <1>4, <1>5

(* A character put moves from what is being put to what has been. *)
LEMMA CharacterMoves ==
    ASSUME NEW u \in Seq(Letters), NEW e \in Seq(Letters), e # <<>>
    PROVE  /\ Append(u, Head(e)) \in Seq(Letters) /\ Tail(e) \in Seq(Letters)
           /\ Len(Append(u, Head(e))) = Len(u) + 1 /\ Len(Tail(e)) = Len(e) - 1
           /\ Append(u, Head(e)) \o Tail(e) = u \o e
<1> DEFINE h == Head(e)
           t == Tail(e)
           o == <<h>>
<1>1. h \in Letters /\ t \in Seq(Letters) /\ Len(t) = Len(e) - 1
  BY HeadTailProperties
<1>2. o \o t = e
  BY <1>1
<1> HIDE DEF h, t
<1>3. Append(u, h) \in Seq(Letters) /\ Len(Append(u, h)) = Len(u) + 1 /\ Append(u, h) = u \o o
  BY <1>1
<1>4. o \in Seq(Letters)
  BY <1>1
<1> HIDE DEF o
<1>5. (u \o o) \o t = u \o (o \o t)
  BY <1>1, <1>4, ConcatAssociative
<1> QED BY <1>1, <1>2, <1>3, <1>5 DEF h, t
=============================================================================
