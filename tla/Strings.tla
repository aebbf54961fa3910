------------------------------ MODULE Strings -------------------------------
(***************************************************************************)
(* The byte loops: libc/string (memcpy, memmove, memset, memcmp, strlen),  *)
(* liballoc.c's own memcpy and memset, and serial.c's strcpy.              *)
(*                                                                         *)
(* One call at a time runs over one memory, an iteration of its loop a     *)
(* step, so that what a copy has already overwritten is there when it      *)
(* reads on.                                                               *)
(***************************************************************************)
EXTENDS Integers

CONSTANTS
    Size,           \* of the memory: addresses 0 .. Size - 1
    ByteCount,      \* the values of an unsigned char
    WordSize,       \* sizeof(unsigned int), in bytes
    Values,         \* the ints memset may be given
    None

Addr  == 0 .. Size - 1
Bytes == 0 .. ByteCount - 1
NUL   == 0

Routines == {"memcpy", "memmove", "memset", "memcmp", "strlen", "strcpy",
             "liballoc_memcpy", "liballoc_memset"}

\* Fields a routine has no parameter for are 0.
Requests ==
    [fn : Routines \ {"memset", "liballoc_memset", "strlen", "strcpy"},
     dst : Addr, src : Addr, n : 0 .. Size, c : {0}]
    \cup [fn : {"memset", "liballoc_memset"}, dst : Addr, src : {0}, n : 0 .. Size, c : Values]
    \cup [fn : {"strlen"}, dst : {0}, src : Addr, n : {0}, c : {0}]
    \cup [fn : {"strcpy"}, dst : Addr, src : Addr, n : {0}, c : {0}]

ASSUME StringAssumption ==
    /\ Size \in Nat \ {0} /\ ByteCount \in Nat \ {0} /\ WordSize \in Nat \ {0}
    /\ Values \subseteq Int
    /\ None \notin Int /\ None \notin Requests

VARIABLES
    mem,
    call,           \* the call under way, or None
    i,              \* its loop's index: of the next byte, or past it for memmove down
    result,         \* what it is about to return, or None
    known           \* history: the memory as it was when the call was made

strings == <<mem, call, i, result, known>>

StringsInit ==
    /\ mem \in [Addr -> Bytes]
    /\ call = None /\ i = 0 /\ result = None
    /\ known = mem

-----------------------------------------------------------------------------
(* What callers must see to: the regions are in memory, strings end, and the
   regions of a copy do not overlap -- for a loop that only goes up, it is
   enough that the destination is not the higher one.  memmove needs neither. *)

InMemory(p, n) == p + n <= Size

Apart(p, q, n) == p + n <= q \/ q + n <= p

Ends(p, v) ==
    /\ p + v \in Addr /\ mem[p + v] = NUL
    /\ \A k \in 0 .. v - 1 : mem[p + k] # NUL

Allowed(r) ==
    \/ /\ r.fn = "memcpy"
       /\ InMemory(r.dst, r.n) /\ InMemory(r.src, r.n) /\ Apart(r.dst, r.src, r.n)
    \/ /\ r.fn = "liballoc_memcpy"
       /\ InMemory(r.dst, r.n) /\ InMemory(r.src, r.n)
       /\ r.dst <= r.src \/ Apart(r.dst, r.src, r.n)
    \/ /\ r.fn \in {"memmove", "memcmp"}
       /\ InMemory(r.dst, r.n) /\ InMemory(r.src, r.n)
    \/ /\ r.fn \in {"memset", "liballoc_memset"}
       /\ InMemory(r.dst, r.n)
    \/ /\ r.fn = "strlen"
       /\ \E v \in Addr : Ends(r.src, v)
    \/ /\ r.fn = "strcpy"
       /\ \E v \in Addr : /\ Ends(r.src, v) /\ InMemory(r.dst, v + 1)
                          /\ r.dst <= r.src \/ Apart(r.dst, r.src, v + 1)

(* Mutant: memmove goes up whenever the regions differ. *)
Upward_always(r) == r.dst # r.src

(* memmove goes up to a lower address and down to a higher one, or the same. *)
Upward(r) == r.dst < r.src

Request(r) ==
    /\ call = None
    /\ Allowed(r)
    /\ call' = r
    /\ i' = IF r.fn = "memmove" /\ ~Upward(r) THEN r.n ELSE 0
    /\ known' = mem
    /\ UNCHANGED <<mem, result>>

-----------------------------------------------------------------------------
(* The loops *)

Running(fn) == call # None /\ result = None /\ call.fn = fn

\* The len bytes from the index on are copied at once.
Move(len) ==
    mem' = [a \in Addr |-> IF a \in call.dst + i .. call.dst + i + len - 1
                           THEN mem[call.src + (a - call.dst)] ELSE mem[a]]

Advance(len) == i' = i + len /\ UNCHANGED <<call, result, known>>

Finish(v) == result' = v /\ UNCHANGED <<mem, call, i, known>>

memcpy ==
    /\ Running("memcpy")
    /\ \/ i < call.n /\ Move(1) /\ Advance(1)
       \/ i = call.n /\ Finish(call.dst)

memmove ==
    /\ Running("memmove")
    /\ \/ Upward(call) /\ i < call.n /\ Move(1) /\ Advance(1)
       \/ Upward(call) /\ i = call.n /\ Finish(call.dst)
       \/ /\ ~Upward(call) /\ i # 0
          /\ mem' = [mem EXCEPT ![call.dst + i - 1] = mem[call.src + i - 1]]
          /\ i' = i - 1
          /\ UNCHANGED <<call, result, known>>
       \/ ~Upward(call) /\ i = 0 /\ Finish(call.dst)

(* An unsigned char, or a char, keeps the low bits of the int it is given. *)
Put == mem' = [mem EXCEPT ![call.dst + i] = call.c % ByteCount]

memset ==
    /\ Running("memset") \/ Running("liballoc_memset")
    /\ \/ i < call.n /\ Put /\ Advance(1)
       \/ i = call.n /\ Finish(call.dst)

memcmp ==
    /\ Running("memcmp")
    /\ LET a == mem[call.dst + i]
           b == mem[call.src + i]
       IN  \/ i < call.n /\ a < b /\ Finish(-1)
           \/ i < call.n /\ b < a /\ Finish(1)
           \/ i < call.n /\ a = b /\ Advance(1) /\ UNCHANGED mem
           \/ i = call.n /\ Finish(0)

strlen ==
    /\ Running("strlen")
    /\ \/ mem[call.src + i] # NUL /\ Advance(1) /\ UNCHANGED mem
       \/ mem[call.src + i] = NUL /\ Finish(i)

(* The NUL is copied too; the count returned is without it. *)
strcpy ==
    /\ Running("strcpy")
    /\ Move(1)
    /\ \/ mem[call.src + i] # NUL /\ Advance(1)
       \/ mem[call.src + i] = NUL /\ result' = i /\ UNCHANGED <<call, i, known>>

(* Whole words while there is one left, the rest byte by byte. *)
liballoc_memcpy ==
    /\ Running("liballoc_memcpy")
    /\ \/ call.n - i >= WordSize /\ Move(WordSize) /\ Advance(WordSize)
       \/ call.n - i < WordSize /\ i < call.n /\ Move(1) /\ Advance(1)
       \/ i = call.n /\ Finish(call.dst)

StringReturn ==
    /\ result # None
    /\ call' = None /\ i' = 0 /\ result' = None /\ known' = mem
    /\ UNCHANGED mem

Loop ==
    memcpy \/ memmove \/ memset \/ memcmp \/ strlen \/ strcpy \/ liballoc_memcpy

StringsNext ==
    \/ \E r \in Requests : Request(r)
    \/ Loop
    \/ StringReturn

StringsSpec == StringsInit /\ [][StringsNext]_strings

-----------------------------------------------------------------------------
StringsTypeOK ==
    /\ mem \in [Addr -> Bytes]
    /\ known \in [Addr -> Bytes]
    /\ call \in Requests \cup {None}
    /\ i \in 0 .. Size
    /\ result \in Int \cup {None}

(* Each routine leaves exactly what it promises, however its regions lie: the
   memory changes where it should and nowhere else, the value returned is the
   one of the memory as it was, and what a copy reads is not what it has
   already written. *)
Promised == INSTANCE StringLibrary WITH
    memory <- IF result = None THEN known ELSE mem, request <- call, answer <- result
ImplementsLibrary == Promised!Spec
=============================================================================
