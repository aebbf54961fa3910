----------------------------- MODULE MCConsole ------------------------------
EXTENDS Console

(* What printf and itoa know, and the characters of the texts below. *)
MCLetters ==
    {"%", "c", "s", "x", "i", "u", "p", "d", "-", "!", NewLine} \cup
    {Characters[k] : k \in DOMAIN Characters} \cup {"H", "w", "t", "F", "E"}

(* Ints that are not bytes. *)
MCValues == {-1, ByteCount}

MCTexts == {<<"a">>, <<"a", NewLine>>}

(* Every directive, next to text and to each other, at the end of a format and
   before its end; texts of up to INT_MAX characters and of one more, of which
   the last directive or run may fit in part. *)
MCFormats == {
    <<Literal("a"), Str(<<"b", "a">>), Percent, Char("b")>>,
    <<Str(<<"b", "a", "b">>), Literal("a"), Literal("b")>>,
    <<Percent, Literal("a")>>,
    <<Literal("a"), Str(<<"b", "a", "b", "a">>)>>,
    <<Char("a"), Hex(<<"1">>), Literal("b"), Char("b")>>,
    <<Dec(<<"1">>), Percent>>}

(* Text, an address, a number of either sign, 0, and a string. *)
MCPrints == {
    <<Literal("H"), Literal("w")>>,
    <<Literal("0"), Pointer(188)>>,
    <<Decimal(128), Char("c"), Str(<<"s", "t">>)>>,
    <<Unsigned(200), Decimal(0)>>}

MCFired == <<Literal("F")>>

MCMessages == [v \in 0 .. 31 |-> <<Literal("E"), Literal("x")>>]

MCSystemHalted == <<Literal("!")>>

(* An exception's number, a line's, and one that is negative as an int. *)
MCWords == {14, 33, 254}
=============================================================================
