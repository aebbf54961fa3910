--------------------------- MODULE StringsProofs ----------------------------
(***************************************************************************)
(* Proofs about the byte loops, for any memory, sizes and overlaps: each   *)
(* routine leaves what StringLibrary promises.                             *)
(*                                                                         *)
(* The inductive invariant says of each loop what part of its work is done *)
(* at index i (LoopInv).  What makes a copy's invariant inductive is that  *)
(* the byte it reads next is not one it has written (CopyOn, CopyDown).    *)
(***************************************************************************)
EXTENDS Strings, TLAPS

(* What the caller saw to, of the memory as it was when the call was made. *)
EndsThen(p, v) ==
    /\ v \in Addr /\ p + v \in Addr /\ known[p + v] = NUL
    /\ \A k \in 0 .. v - 1 : known[p + k] # NUL

InOrder(p, q, n) == p <= q \/ Apart(p, q, n)

AllowedThen ==
    /\ call.fn \in {"memcpy", "liballoc_memcpy", "memmove", "memcmp"} =>
          InMemory(call.dst, call.n) /\ InMemory(call.src, call.n)
    /\ call.fn \in {"memcpy", "liballoc_memcpy"} => InOrder(call.dst, call.src, call.n)
    /\ call.fn \in {"memset", "liballoc_memset"} => InMemory(call.dst, call.n)
    /\ call.fn = "strlen" => \E v \in Addr : EndsThen(call.src, v)
    /\ call.fn = "strcpy" =>
          \E v \in Addr : /\ EndsThen(call.src, v) /\ InMemory(call.dst, v + 1)
                          /\ InOrder(call.dst, call.src, v + 1)

(* The end of the copy is done, from index j on. *)
CopiedFrom(m, d, s, n, j) ==
    [a \in Addr |-> IF a \in d + j .. d + n - 1 THEN m[s + (a - d)] ELSE m[a]]

(* What the next step of a copy upwards, of one downwards and of a fill makes of
   the work done up to index j. *)
Onward(m, d, s, j, len) ==
    [a \in Addr |-> IF a \in d + j .. d + j + len - 1
                    THEN Promised!Copied(m, d, s, j)[s + (a - d)]
                    ELSE Promised!Copied(m, d, s, j)[a]]

Downward(m, d, s, n, j) ==
    [CopiedFrom(m, d, s, n, j) EXCEPT ![d + j - 1] = CopiedFrom(m, d, s, n, j)[s + j - 1]]

Further(m, d, j, c) == [Promised!Filled(m, d, j, c) EXCEPT ![d + j] = c % ByteCount]

LoopInv ==
    /\ i <= call.n \/ call.fn \in {"strlen", "strcpy"}
    /\ call.fn \in {"memcpy", "liballoc_memcpy", "strcpy"} =>
          mem = Promised!Copied(known, call.dst, call.src, i)
    /\ call.fn = "memmove" /\ Upward(call) =>
          mem = Promised!Copied(known, call.dst, call.src, i)
    /\ call.fn = "memmove" /\ ~Upward(call) =>
          mem = CopiedFrom(known, call.dst, call.src, call.n, i)
    /\ call.fn \in {"memset", "liballoc_memset"} =>
          mem = Promised!Filled(known, call.dst, i, call.c)
    /\ call.fn \in {"memcmp", "strlen"} => mem = known
    /\ call.fn = "memcmp" => Promised!Same(known, call.dst, call.src, i)
    /\ call.fn \in {"strlen", "strcpy"} =>
          \A k \in 0 .. i - 1 : known[call.src + k] # NUL

Quiet == call = None => i = 0 /\ result = None /\ known = mem

StringsInv ==
    /\ StringsTypeOK
    /\ Quiet
    /\ call # None => AllowedThen
    /\ call # None /\ result = None => LoopInv
    /\ call # None /\ result # None => Promised!Promise(call, known, mem, result)

-----------------------------------------------------------------------------
(* Calls *)

(* A call's fields are of their types. *)
LEMMA Fields ==
    ASSUME NEW r \in Requests
    PROVE  /\ r.fn \in Routines /\ r.dst \in Addr /\ r.src \in Addr
           /\ r.n \in 0 .. Size /\ r.c \in Int
<1>1. 0 \in Addr /\ 0 \in 0 .. Size /\ Values \subseteq Int
  BY StringAssumption DEF StringAssumption, Addr
<1>2. CASE r \in [fn : Routines \ {"memset", "liballoc_memset", "strlen", "strcpy"},
                  dst : Addr, src : Addr, n : 0 .. Size, c : {0}]
  BY <1>2
<1>3. CASE r \in [fn : {"memset", "liballoc_memset"}, dst : Addr, src : {0}, n : 0 .. Size,
                  c : Values]
  BY <1>1, <1>3 DEF Routines
<1>4. CASE r \in [fn : {"strlen"}, dst : {0}, src : Addr, n : {0}, c : {0}]
  BY <1>1, <1>4 DEF Routines
<1>5. CASE r \in [fn : {"strcpy"}, dst : Addr, src : Addr, n : {0}, c : {0}]
  BY <1>1, <1>5 DEF Routines
<1> QED BY <1>2, <1>3, <1>4, <1>5 DEF Requests

(* Bytes already copied are not read again: the copy goes on from i to i + len. *)
LEMMA CopyOn ==
    ASSUME NEW d \in Addr, NEW s \in Addr, NEW n \in Nat, NEW j \in Nat, NEW len \in Nat,
           j + len <= n, d + n <= Size, s + n <= Size, InOrder(d, s, n),
           NEW m \in [Addr -> Bytes]
    PROVE  Onward(m, d, s, j, len) = Promised!Copied(m, d, s, j + len)
<1>0. Size \in Nat /\ d \in Nat /\ s \in Nat /\ DOMAIN m = Addr
  BY StringAssumption DEF StringAssumption, Addr
<1> DEFINE m1 == Promised!Copied(m, d, s, j)
           m2 == Onward(m, d, s, j, len)
<1>1. m1 = [a \in Addr |-> IF a \in d .. d + j - 1 THEN m[s + (a - d)] ELSE m[a]]
  BY <1>0 DEF Promised!Copied, Promised!Region
<1>2. ASSUME NEW a \in Addr
      PROVE  m2[a] = IF a \in d .. d + (j + len) - 1 THEN m[s + (a - d)] ELSE m[a]
  <2>0. a \in Nat /\ a < Size
    BY <1>0 DEF Addr
  <2>1. CASE a \in d + j .. d + j + len - 1
    <3>1. m2[a] = m1[s + (a - d)]
      BY <2>1 DEF Onward
    <3>2. s + (a - d) \in Addr
      BY <1>0, <2>0, <2>1 DEF Addr
    <3>3. s + (a - d) \notin d .. d + j - 1
      BY <1>0, <2>0, <2>1 DEF InOrder, Apart
    <3>4. m1[s + (a - d)] = m[s + (a - d)]
      BY <1>1, <3>2, <3>3
    <3> QED BY <1>0, <2>0, <2>1, <3>1, <3>4
  <2>2. CASE a \notin d + j .. d + j + len - 1
    <3>1. m2[a] = m1[a]
      BY <2>2 DEF Onward
    <3>2. a \in d .. d + (j + len) - 1 <=> a \in d .. d + j - 1
      BY <1>0, <2>0, <2>2
    <3> QED BY <1>1, <3>1, <3>2
  <2> QED BY <2>1, <2>2
<1> QED BY <1>0, <1>2 DEF Onward, Promised!Copied, Promised!Region

(* memmove down: the byte before index j is not one already copied. *)
LEMMA CopyDown ==
    ASSUME NEW d \in Addr, NEW s \in Addr, NEW n \in Nat, NEW j \in 1 .. n,
           d + n <= Size, s + n <= Size, s <= d,
           NEW m \in [Addr -> Bytes]
    PROVE  Downward(m, d, s, n, j) = CopiedFrom(m, d, s, n, j - 1)
<1>0. Size \in Nat /\ d \in Nat /\ s \in Nat
  BY StringAssumption DEF StringAssumption, Addr
<1> DEFINE m1 == CopiedFrom(m, d, s, n, j)
           m2 == Downward(m, d, s, n, j)
<1>1. m1 = [a \in Addr |-> IF a \in d + j .. d + n - 1 THEN m[s + (a - d)] ELSE m[a]]
  BY DEF CopiedFrom
<1>2. s + j - 1 \in Addr /\ s + j - 1 \notin d + j .. d + n - 1 /\ d + j - 1 \in Addr
  BY <1>0 DEF Addr
<1>3. m1[s + j - 1] = m[s + j - 1]
  BY <1>1, <1>2
<1>4. m2 = [a \in Addr |-> IF a = d + j - 1 THEN m[s + j - 1] ELSE m1[a]]
  BY <1>1, <1>3 DEF Downward
<1>5. ASSUME NEW a \in Addr
      PROVE  m2[a] = IF a \in d + (j - 1) .. d + n - 1 THEN m[s + (a - d)] ELSE m[a]
  <2>0. a \in Nat
    BY <1>0 DEF Addr
  <2>1. CASE a = d + j - 1
    <3>1. s + (a - d) = s + j - 1 /\ a \in d + (j - 1) .. d + n - 1
      BY <1>0, <2>1
    <3> QED BY <1>4, <2>1, <3>1
  <2>2. CASE a # d + j - 1
    <3>1. a \in d + (j - 1) .. d + n - 1 <=> a \in d + j .. d + n - 1
      BY <1>0, <2>0, <2>2
    <3> QED BY <1>1, <1>4, <2>2, <3>1
  <2> QED BY <2>1, <2>2
<1> QED BY <1>4, <1>5 DEF CopiedFrom

(* A fill goes on by a byte. *)
LEMMA FillOn ==
    ASSUME NEW d \in Addr, NEW n \in Nat, NEW j \in 0 .. n - 1, d + n <= Size, NEW c \in Int,
           NEW m \in [Addr -> Bytes]
    PROVE  Further(m, d, j, c) = Promised!Filled(m, d, j + 1, c)
<1>0. Size \in Nat /\ d \in Nat /\ DOMAIN m = Addr
  BY StringAssumption DEF StringAssumption, Addr
<1>1. Further(m, d, j, c) =
         [a \in Addr |-> IF a = d + j THEN c % ByteCount
                           ELSE IF a \in d .. d + j - 1 THEN c % ByteCount ELSE m[a]]
  BY <1>0 DEF Further, Promised!Filled, Promised!Region
<1>2. ASSUME NEW a \in Addr
      PROVE  (a = d + j \/ a \in d .. d + j - 1) <=> a \in d .. d + (j + 1) - 1
  BY <1>0 DEF Addr
<1> QED BY <1>0, <1>1, <1>2 DEF Promised!Filled, Promised!Region

(* A copy of nothing changes nothing, nor does a fill of nothing. *)
LEMMA NothingDone ==
    ASSUME NEW d \in Nat, NEW s \in Nat, NEW n \in Nat, NEW c, NEW m \in [Addr -> Bytes]
    PROVE  /\ m = Promised!Copied(m, d, s, 0)
           /\ m = CopiedFrom(m, d, s, n, n)
           /\ m = Promised!Filled(m, d, 0, c)
<1>1. d .. d + 0 - 1 = {} /\ d + n .. d + n - 1 = {}
  OBVIOUS
<1>2. m = [a \in Addr |-> m[a]]
  OBVIOUS
<1> QED BY <1>1, <1>2 DEF Promised!Copied, Promised!Region, CopiedFrom, Promised!Filled

(* A copy that goes down to index 0 is whole. *)
LEMMA DownToZero ==
    ASSUME NEW d \in Nat, NEW s, NEW n \in Nat, NEW m \in [Addr -> Bytes]
    PROVE  CopiedFrom(m, d, s, n, 0) = Promised!Copied(m, d, s, n)
BY DEF Promised!Copied, Promised!Region, CopiedFrom

(* Copies and fills of a memory are memories. *)
LEMMA MemoryKept ==
    ASSUME NEW m \in [Addr -> Bytes], NEW d \in Addr, NEW s \in Addr, NEW n \in Nat,
           NEW c \in Int, NEW j \in 0 .. n
    PROVE  /\ s + n <= Size => /\ Promised!Copied(m, d, s, n) \in [Addr -> Bytes]
                               /\ CopiedFrom(m, d, s, n, j) \in [Addr -> Bytes]
           /\ Promised!Filled(m, d, n, c) \in [Addr -> Bytes]
<1>0. Size \in Nat /\ d \in Nat /\ s \in Nat /\ ByteCount \in Nat \ {0} /\ DOMAIN m = Addr
  BY StringAssumption DEF StringAssumption, Addr
<1>1. c % ByteCount \in Bytes
  BY <1>0 DEF Bytes
<1>2. ASSUME s + n <= Size, NEW a \in d .. d + n - 1
      PROVE  s + (a - d) \in Addr
  BY <1>0, <1>2 DEF Addr
<1>3. d + j .. d + n - 1 \subseteq d .. d + n - 1
  BY <1>0
<1> QED BY <1>0, <1>1, <1>2, <1>3
        DEF Promised!Copied, Promised!Filled, Promised!Region, CopiedFrom

-----------------------------------------------------------------------------
(* Steps of a loop *)

(* A loop that keeps its invariant keeps the whole. *)
LEMMA GoesOn ==
    ASSUME StringsInv, call # None, result = None, UNCHANGED <<call, result, known>>,
           i' \in 0 .. Size, mem' \in [Addr -> Bytes], LoopInv'
    PROVE  StringsInv'
<1>1. StringsTypeOK'
  BY DEF StringsInv, StringsTypeOK
<1>2. AllowedThen'
  BY DEF StringsInv, AllowedThen, EndsThen
<1> QED BY <1>1, <1>2 DEF StringsInv, Quiet

(* A loop that is over returns what was promised. *)
LEMMA ComesToEnd ==
    ASSUME StringsInv, call # None, result = None, UNCHANGED <<call, known>>,
           i' \in 0 .. Size, mem' \in [Addr -> Bytes], result' \in Int,
           Promised!Promise(call, known, mem', result')
    PROVE  StringsInv'
<1>1. StringsTypeOK'
  BY DEF StringsInv, StringsTypeOK
<1>2. AllowedThen'
  BY DEF StringsInv, AllowedThen, EndsThen
<1>3. result' # None
  BY StringAssumption DEF StringAssumption
<1>4. Promised!Promise(call, known, mem, result)'
  OBVIOUS
<1> QED BY <1>1, <1>2, <1>3, <1>4 DEF StringsInv, Quiet

(* What is known of a call under way. *)
LEMMA UnderWay ==
    ASSUME StringsInv, NEW fn, Running(fn)
    PROVE  /\ call # None /\ result = None /\ call.fn = fn
           /\ call.dst \in Addr /\ call.src \in Addr /\ call.n \in 0 .. Size /\ call.c \in Int
           /\ call.dst \in Nat /\ call.src \in Nat /\ call.n \in Nat
           /\ known \in [Addr -> Bytes] /\ mem \in [Addr -> Bytes]
           /\ i \in Nat /\ Size \in Nat /\ i <= Size
           /\ LoopInv /\ AllowedThen
<1>1. call # None /\ result = None /\ call.fn = fn /\ call \in Requests
  BY DEF Running, StringsInv, StringsTypeOK
<1>2. Size \in Nat
  BY StringAssumption DEF StringAssumption
<1> QED BY <1>1, <1>2, Fields DEF StringsInv, StringsTypeOK, Addr

(* A copy upwards goes on by len bytes. *)
LEMMA CopySteps ==
    ASSUME StringsInv, NEW fn, Running(fn), NEW len \in Nat, NEW n \in Nat,
           mem = Promised!Copied(known, call.dst, call.src, i),
           InMemory(call.dst, n), InMemory(call.src, n), InOrder(call.dst, call.src, n),
           i + len <= n, Move(len)
    PROVE  /\ mem' = Promised!Copied(known, call.dst, call.src, i + len)
           /\ mem' \in [Addr -> Bytes]
           /\ i + len \in 0 .. Size
<1>0. /\ call.dst \in Addr /\ call.src \in Addr /\ known \in [Addr -> Bytes] /\ i \in Nat
      /\ Size \in Nat /\ call.dst \in Nat /\ call.src \in Nat
  BY UnderWay
<1>1. call.dst + n <= Size /\ call.src + n <= Size
  BY DEF InMemory
<1>2. mem' = Onward(known, call.dst, call.src, i, len)
  BY DEF Move, Onward
<1>3. mem' = Promised!Copied(known, call.dst, call.src, i + len)
  BY <1>0, <1>1, <1>2, CopyOn
<1>4. i + len \in Nat /\ call.src + (i + len) <= Size /\ i + len <= Size
  BY <1>0, <1>1
<1>5. 0 \in Int /\ 0 \in 0 .. (i + len)
  BY <1>4
<1>6. Promised!Copied(known, call.dst, call.src, i + len) \in [Addr -> Bytes]
  BY <1>0, <1>4, <1>5, MemoryKept
<1> QED BY <1>3, <1>4, <1>6

-----------------------------------------------------------------------------
(* The routines *)

(* memcpy, of regions apart. *)
LEMMA MemcpyKeeps == ASSUME StringsInv, memcpy PROVE StringsInv'
<1>0. /\ call # None /\ result = None /\ call.fn = "memcpy" /\ Running("memcpy")
      /\ call.n \in Nat /\ i \in 0 .. Size /\ i \in Nat /\ mem \in [Addr -> Bytes]
      /\ call.dst \in Int /\ LoopInv /\ AllowedThen
  BY UnderWay DEF memcpy
<1>1. CASE i < call.n /\ Move(1) /\ Advance(1)
  <2>1. /\ mem = Promised!Copied(known, call.dst, call.src, i)
        /\ InMemory(call.dst, call.n) /\ InMemory(call.src, call.n)
        /\ InOrder(call.dst, call.src, call.n)
    BY <1>0 DEF LoopInv, AllowedThen
  <2>2. i + 1 <= call.n /\ 1 \in Nat
    BY <1>0, <1>1
  <2>3. /\ mem' = Promised!Copied(known, call.dst, call.src, i + 1)
        /\ mem' \in [Addr -> Bytes] /\ i + 1 \in 0 .. Size
    BY <1>0, <1>1, <2>1, <2>2, CopySteps
  <2>4. i' = i + 1 /\ UNCHANGED <<call, result, known>>
    BY <1>1 DEF Advance
  <2>5. LoopInv'
    BY <1>0, <2>2, <2>3, <2>4 DEF LoopInv
  <2> QED BY <1>0, <2>3, <2>4, <2>5, GoesOn
<1>2. CASE i = call.n /\ Finish(call.dst)
  <2>1. UNCHANGED <<mem, call, i, known>> /\ result' = call.dst
    BY <1>2 DEF Finish
  <2>2. Promised!Promise(call, known, mem', result')
    BY <1>0, <1>2, <2>1 DEF LoopInv, Promised!Promise, Promised!Copies
  <2> QED BY <1>0, <2>1, <2>2, ComesToEnd
<1> QED BY <1>1, <1>2 DEF memcpy

(* liballoc_memcpy, by words and then by bytes. *)
LEMMA LiballocMemcpyKeeps == ASSUME StringsInv, liballoc_memcpy PROVE StringsInv'
<1>0. /\ call # None /\ result = None /\ call.fn = "liballoc_memcpy" /\ Running("liballoc_memcpy")
      /\ call.n \in Nat /\ i \in 0 .. Size /\ i \in Nat /\ mem \in [Addr -> Bytes]
      /\ call.dst \in Int /\ LoopInv /\ AllowedThen
  BY UnderWay DEF liballoc_memcpy
<1>1. ASSUME NEW len \in Nat, i + len <= call.n, Move(len), Advance(len) PROVE StringsInv'
  <2>1. /\ mem = Promised!Copied(known, call.dst, call.src, i)
        /\ InMemory(call.dst, call.n) /\ InMemory(call.src, call.n)
        /\ InOrder(call.dst, call.src, call.n)
    BY <1>0 DEF LoopInv, AllowedThen
  <2>2. /\ mem' = Promised!Copied(known, call.dst, call.src, i + len)
        /\ mem' \in [Addr -> Bytes] /\ i + len \in 0 .. Size
    BY <1>0, <1>1, <2>1, CopySteps
  <2>3. i' = i + len /\ UNCHANGED <<call, result, known>>
    BY <1>1 DEF Advance
  <2>4. LoopInv'
    BY <1>0, <1>1, <2>2, <2>3 DEF LoopInv
  <2> QED BY <1>0, <2>2, <2>3, <2>4, GoesOn
<1>2. CASE call.n - i >= WordSize /\ Move(WordSize) /\ Advance(WordSize)
  <2>1. WordSize \in Nat /\ i + WordSize <= call.n
    BY <1>0, <1>2, StringAssumption DEF StringAssumption
  <2> QED BY <1>1, <1>2, <2>1
<1>3. CASE call.n - i < WordSize /\ i < call.n /\ Move(1) /\ Advance(1)
  <2>1. 1 \in Nat /\ i + 1 <= call.n
    BY <1>0, <1>3
  <2> QED BY <1>1, <1>3, <2>1
<1>4. CASE i = call.n /\ Finish(call.dst)
  <2>1. UNCHANGED <<mem, call, i, known>> /\ result' = call.dst
    BY <1>4 DEF Finish
  <2>2. Promised!Promise(call, known, mem', result')
    BY <1>0, <1>4, <2>1 DEF LoopInv, Promised!Promise, Promised!Copies
  <2> QED BY <1>0, <2>1, <2>2, ComesToEnd
<1> QED BY <1>2, <1>3, <1>4 DEF liballoc_memcpy

(* memmove, of regions that lie as they like. *)
LEMMA MemmoveKeeps == ASSUME StringsInv, memmove PROVE StringsInv'
<1>0. /\ call # None /\ result = None /\ call.fn = "memmove" /\ Running("memmove")
      /\ call.n \in Nat /\ i \in 0 .. Size /\ i \in Nat /\ mem \in [Addr -> Bytes]
      /\ known \in [Addr -> Bytes] /\ call.dst \in Int /\ call.dst \in Nat
      /\ call.src \in Nat /\ call.dst \in Addr /\ call.src \in Addr
      /\ LoopInv /\ AllowedThen /\ Size \in Nat
  BY UnderWay DEF memmove
<1>1. InMemory(call.dst, call.n) /\ InMemory(call.src, call.n) /\ i <= call.n
  BY <1>0 DEF AllowedThen, LoopInv
<1>2. CASE Upward(call) /\ i < call.n /\ Move(1) /\ Advance(1)
  <2>1. /\ mem = Promised!Copied(known, call.dst, call.src, i)
        /\ InOrder(call.dst, call.src, call.n)
    BY <1>0, <1>2 DEF LoopInv, InOrder, Upward
  <2>2. i + 1 <= call.n /\ 1 \in Nat
    BY <1>0, <1>2
  <2>3. /\ mem' = Promised!Copied(known, call.dst, call.src, i + 1)
        /\ mem' \in [Addr -> Bytes] /\ i + 1 \in 0 .. Size
    BY <1>0, <1>1, <1>2, <2>1, <2>2, CopySteps
  <2>4. i' = i + 1 /\ UNCHANGED <<call, result, known>>
    BY <1>2 DEF Advance
  <2>5. LoopInv'
    BY <1>0, <1>2, <2>2, <2>3, <2>4 DEF LoopInv, Upward
  <2> QED BY <1>0, <2>3, <2>4, <2>5, GoesOn
<1>3. CASE Upward(call) /\ i = call.n /\ Finish(call.dst)
  <2>1. UNCHANGED <<mem, call, i, known>> /\ result' = call.dst
    BY <1>3 DEF Finish
  <2>2. Promised!Promise(call, known, mem', result')
    BY <1>0, <1>3, <2>1 DEF LoopInv, Promised!Promise, Promised!Copies
  <2> QED BY <1>0, <2>1, <2>2, ComesToEnd
<1>4. CASE /\ ~Upward(call) /\ i # 0
           /\ mem' = [mem EXCEPT ![call.dst + i - 1] = mem[call.src + i - 1]]
           /\ i' = i - 1
           /\ UNCHANGED <<call, result, known>>
  <2>1. mem = CopiedFrom(known, call.dst, call.src, call.n, i)
    BY <1>0, <1>4 DEF LoopInv
  <2>2. mem' = Downward(known, call.dst, call.src, call.n, i)
    BY <1>4, <2>1 DEF Downward
  <2>3. /\ i \in 1 .. call.n /\ call.src <= call.dst
        /\ call.dst + call.n <= Size /\ call.src + call.n <= Size
    BY <1>0, <1>1, <1>4 DEF Upward, InMemory
  <2>4. mem' = CopiedFrom(known, call.dst, call.src, call.n, i - 1)
    BY <1>0, <2>2, <2>3, CopyDown
  <2>5. i - 1 \in 0 .. call.n /\ 0 \in Int /\ i - 1 \in 0 .. Size
    BY <1>0, <2>3
  <2>6. mem' \in [Addr -> Bytes]
    BY <1>0, <2>3, <2>4, <2>5, MemoryKept
  <2>7. LoopInv'
    BY <1>0, <1>4, <2>4, <2>5 DEF LoopInv, Upward
  <2> QED BY <1>0, <1>4, <2>5, <2>6, <2>7, GoesOn
<1>5. CASE ~Upward(call) /\ i = 0 /\ Finish(call.dst)
  <2>1. UNCHANGED <<mem, call, i, known>> /\ result' = call.dst
    BY <1>5 DEF Finish
  <2>2. mem = CopiedFrom(known, call.dst, call.src, call.n, 0)
    BY <1>0, <1>5 DEF LoopInv
  <2>3. mem = Promised!Copied(known, call.dst, call.src, call.n)
    BY <1>0, <2>2, DownToZero
  <2>4. Promised!Promise(call, known, mem', result')
    BY <1>0, <2>1, <2>3 DEF Promised!Promise, Promised!Copies
  <2> QED BY <1>0, <2>1, <2>4, ComesToEnd
<1> QED BY <1>2, <1>3, <1>4, <1>5 DEF memmove

(* memset and liballoc_memset. *)
LEMMA MemsetKeeps == ASSUME StringsInv, memset PROVE StringsInv'
<1>0. /\ call # None /\ result = None /\ call.fn \in {"memset", "liballoc_memset"}
      /\ call.n \in Nat /\ i \in 0 .. Size /\ i \in Nat /\ mem \in [Addr -> Bytes]
      /\ known \in [Addr -> Bytes] /\ call.c \in Int /\ call.dst \in Addr /\ call.dst \in Nat
      /\ call.dst \in Int /\ LoopInv /\ AllowedThen /\ Size \in Nat
  BY UnderWay DEF memset
<1>1. mem = Promised!Filled(known, call.dst, i, call.c) /\ i <= call.n
  BY <1>0 DEF LoopInv
<1>2. CASE i < call.n /\ Put /\ Advance(1)
  <2>1. i \in 0 .. call.n - 1 /\ call.dst + call.n <= Size
    BY <1>0, <1>2 DEF AllowedThen, InMemory
  <2>2. mem' = Further(known, call.dst, i, call.c)
    BY <1>1, <1>2 DEF Put, Further
  <2>3. mem' = Promised!Filled(known, call.dst, i + 1, call.c)
    BY <1>0, <2>1, <2>2, FillOn
  <2>4. i + 1 \in Nat /\ 0 \in 0 .. (i + 1) /\ i + 1 <= call.n /\ i + 1 \in 0 .. Size
    BY <1>0, <2>1
  <2>5. mem' \in [Addr -> Bytes]
    BY <1>0, <2>3, <2>4, MemoryKept
  <2>6. i' = i + 1 /\ UNCHANGED <<call, result, known>>
    BY <1>2 DEF Advance
  <2>7. LoopInv'
    BY <1>0, <2>3, <2>4, <2>6 DEF LoopInv
  <2> QED BY <1>0, <2>4, <2>5, <2>6, <2>7, GoesOn
<1>3. CASE i = call.n /\ Finish(call.dst)
  <2>1. UNCHANGED <<mem, call, i, known>> /\ result' = call.dst
    BY <1>3 DEF Finish
  <2>2. Promised!Promise(call, known, mem', result')
    BY <1>0, <1>1, <1>3, <2>1 DEF Promised!Promise, Promised!Fills
  <2> QED BY <1>0, <2>1, <2>2, ComesToEnd
<1> QED BY <1>2, <1>3 DEF memset

(* memcmp. *)
LEMMA MemcmpKeeps == ASSUME StringsInv, memcmp PROVE StringsInv'
<1>0. /\ call # None /\ result = None /\ call.fn = "memcmp"
      /\ call.n \in Nat /\ i \in 0 .. Size /\ i \in Nat /\ mem \in [Addr -> Bytes]
      /\ call.n <= Size /\ Size \in Nat /\ LoopInv /\ AllowedThen
  BY UnderWay DEF memcmp
<1>1. mem = known /\ Promised!Same(known, call.dst, call.src, i) /\ i <= call.n
  BY <1>0 DEF LoopInv
<1> DEFINE a == mem[call.dst + i]
           b == mem[call.src + i]
<1>2. CASE i < call.n /\ a = b /\ Advance(1) /\ UNCHANGED mem
  <2>1. i' = i + 1 /\ UNCHANGED <<mem, call, result, known>> /\ i + 1 <= call.n
    BY <1>0, <1>2 DEF Advance
  <2>2. Promised!Same(known, call.dst, call.src, i + 1)
    <3>1. ASSUME NEW k \in 0 .. (i + 1) - 1 PROVE k = i \/ k \in 0 .. i - 1
      BY <1>0
    <3> QED BY <1>1, <1>2, <3>1 DEF Promised!Same
  <2>3. LoopInv'
    BY <1>0, <1>1, <2>1, <2>2 DEF LoopInv
  <2>4. i' \in 0 .. Size
    BY <1>0, <2>1
  <2> QED BY <1>0, <2>1, <2>3, <2>4, GoesOn
<1>3. ASSUME NEW v \in {-1, 0, 1}, Finish(v), Promised!IsOrder(known, call.dst, call.src, call.n, v)
      PROVE  StringsInv'
  <2>1. UNCHANGED <<mem, call, i, known>> /\ result' = v /\ v \in Int
    BY <1>3 DEF Finish
  <2>2. Promised!Promise(call, known, mem', result')
    BY <1>0, <1>1, <1>3, <2>1 DEF Promised!Promise
  <2> QED BY <1>0, <2>1, <2>2, ComesToEnd
<1>4. CASE i < call.n /\ a < b /\ Finish(-1)
  <2>1. i \in 0 .. call.n - 1
    BY <1>0, <1>4
  <2>2. Promised!IsOrder(known, call.dst, call.src, call.n, -1)
    BY <1>1, <1>4, <2>1 DEF Promised!IsOrder
  <2> QED BY <1>3, <1>4, <2>2
<1>5. CASE i < call.n /\ b < a /\ Finish(1)
  <2>1. i \in 0 .. call.n - 1
    BY <1>0, <1>5
  <2>2. known[call.dst + i] > known[call.src + i]
    BY <1>1, <1>5
  <2>3. Promised!IsOrder(known, call.dst, call.src, call.n, 1)
    BY <1>1, <2>1, <2>2 DEF Promised!IsOrder
  <2> QED BY <1>3, <1>5, <2>3
<1>6. CASE i = call.n /\ Finish(0)
  <2>1. Promised!IsOrder(known, call.dst, call.src, call.n, 0)
    BY <1>1, <1>6 DEF Promised!IsOrder
  <2> QED BY <1>3, <1>6, <2>1
<1> QED BY <1>2, <1>4, <1>5, <1>6 DEF memcmp

(* Before the NUL the index is not past the string. *)
LEMMA NotPastEnd ==
    ASSUME i \in Nat, NEW p \in Nat, NEW v, EndsThen(p, v),
           \A k \in 0 .. i - 1 : known[p + k] # NUL
    PROVE  /\ v \in Nat /\ i <= v
           /\ known[p + i] # NUL => i + 1 <= v
           /\ known[p + i] = NUL => i = v
<1>1. v \in Nat /\ known[p + v] = NUL /\ \A k \in 0 .. v - 1 : known[p + k] # NUL
  BY StringAssumption DEF EndsThen, Addr, StringAssumption
<1>2. i <= v
  <2>1. CASE v < i
    <3>1. v \in 0 .. i - 1
      BY <1>1, <2>1
    <3> QED BY <1>1, <3>1
  <2> QED BY <1>1, <2>1
<1>3. i # v => i \in 0 .. v - 1
  BY <1>1, <1>2
<1> QED BY <1>1, <1>2, <1>3

(* strlen. *)
LEMMA StrlenKeeps == ASSUME StringsInv, strlen PROVE StringsInv'
<1>0. /\ call # None /\ result = None /\ call.fn = "strlen"
      /\ i \in 0 .. Size /\ i \in Nat /\ mem \in [Addr -> Bytes] /\ call.src \in Nat
      /\ Size \in Nat /\ LoopInv /\ AllowedThen
  BY UnderWay DEF strlen
<1>1. mem = known /\ \A k \in 0 .. i - 1 : known[call.src + k] # NUL
  BY <1>0 DEF LoopInv
<1>2. PICK v \in Addr : EndsThen(call.src, v)
  BY <1>0 DEF AllowedThen
<1>3. v \in Nat /\ v < Size
  BY <1>0 DEF Addr
<1>4. CASE mem[call.src + i] # NUL /\ Advance(1) /\ UNCHANGED mem
  <2>1. i' = i + 1 /\ UNCHANGED <<mem, call, result, known>>
    BY <1>4 DEF Advance
  <2>2. i + 1 <= v
    BY <1>0, <1>1, <1>2, <1>4, NotPastEnd
  <2>3. i + 1 \in 0 .. Size
    BY <1>0, <1>3, <2>2
  <2>4. \A k \in 0 .. (i + 1) - 1 : known[call.src + k] # NUL
    <3>1. ASSUME NEW k \in 0 .. (i + 1) - 1 PROVE k = i \/ k \in 0 .. i - 1
      BY <1>0
    <3> QED BY <1>1, <1>4, <3>1
  <2>5. LoopInv'
    BY <1>0, <1>1, <2>1, <2>4 DEF LoopInv
  <2> QED BY <1>0, <2>1, <2>3, <2>5, GoesOn
<1>5. CASE mem[call.src + i] = NUL /\ Finish(i)
  <2>1. UNCHANGED <<mem, call, i, known>> /\ result' = i /\ i \in Int
    BY <1>0, <1>5 DEF Finish
  <2>2. Promised!IsLength(known, call.src, i)
    BY <1>0, <1>1, <1>5 DEF Promised!IsLength, NUL, Promised!NUL
  <2>3. Promised!Promise(call, known, mem', result')
    BY <1>0, <1>1, <2>1, <2>2 DEF Promised!Promise
  <2> QED BY <1>0, <2>1, <2>3, ComesToEnd
<1> QED BY <1>4, <1>5 DEF strlen

(* strcpy, the NUL included. *)
LEMMA StrcpyKeeps == ASSUME StringsInv, strcpy PROVE StringsInv'
<1>0. /\ call # None /\ result = None /\ call.fn = "strcpy" /\ Running("strcpy")
      /\ i \in 0 .. Size /\ i \in Nat /\ mem \in [Addr -> Bytes] /\ call.src \in Nat
      /\ call.src \in Addr /\ call.dst \in Nat /\ known \in [Addr -> Bytes]
      /\ Size \in Nat /\ LoopInv /\ AllowedThen /\ Move(1)
  BY UnderWay DEF strcpy
<1>1. /\ mem = Promised!Copied(known, call.dst, call.src, i)
      /\ \A k \in 0 .. i - 1 : known[call.src + k] # NUL
  BY <1>0 DEF LoopInv
<1>2. PICK v \in Addr : /\ EndsThen(call.src, v) /\ InMemory(call.dst, v + 1)
                        /\ InOrder(call.dst, call.src, v + 1)
  BY <1>0 DEF AllowedThen
<1>3. /\ v \in Nat /\ i <= v
      /\ known[call.src + i] # NUL => i + 1 <= v
      /\ known[call.src + i] = NUL => i = v
  BY <1>0, <1>1, <1>2, NotPastEnd
<1>4. /\ v + 1 \in Nat /\ 1 \in Nat /\ i + 1 <= v + 1
      /\ InMemory(call.src, v + 1) /\ call.src + v < Size
  BY <1>0, <1>2, <1>3 DEF EndsThen, Addr, InMemory
<1>5. /\ mem' = Promised!Copied(known, call.dst, call.src, i + 1)
      /\ mem' \in [Addr -> Bytes] /\ i + 1 \in 0 .. Size
  BY <1>0, <1>1, <1>2, <1>4, CopySteps
(* The byte read is not one already written. *)
<1>6. mem[call.src + i] = known[call.src + i]
  <2>1. call.src + i \in Addr
    BY <1>0, <1>3, <1>4 DEF Addr
  <2>2. call.src + i \notin call.dst .. call.dst + i - 1
    BY <1>0, <1>2, <1>3 DEF InOrder, Apart
  <2>3. DOMAIN known = Addr
    BY <1>0
  <2> QED BY <1>1, <2>1, <2>2, <2>3 DEF Promised!Copied, Promised!Region
<1>7. CASE mem[call.src + i] # NUL /\ Advance(1)
  <2>1. i' = i + 1 /\ UNCHANGED <<call, result, known>>
    BY <1>7 DEF Advance
  <2>2. \A k \in 0 .. (i + 1) - 1 : known[call.src + k] # NUL
    <3>1. ASSUME NEW k \in 0 .. (i + 1) - 1 PROVE k = i \/ k \in 0 .. i - 1
      BY <1>0
    <3> QED BY <1>1, <1>6, <1>7, <3>1
  <2>3. LoopInv'
    BY <1>0, <1>5, <2>1, <2>2 DEF LoopInv
  <2> QED BY <1>0, <1>5, <2>1, <2>3, GoesOn
<1>8. CASE mem[call.src + i] = NUL /\ result' = i /\ UNCHANGED <<call, i, known>>
  <2>1. Promised!IsLength(known, call.src, i)
    BY <1>0, <1>1, <1>6, <1>8 DEF Promised!IsLength, NUL, Promised!NUL
  <2>2. Promised!Promise(call, known, mem', result')
    BY <1>0, <1>5, <1>8, <2>1 DEF Promised!Promise
  <2>3. result' \in Int /\ i' \in 0 .. Size
    BY <1>0, <1>8
  <2> QED BY <1>0, <1>5, <1>8, <2>2, <2>3, ComesToEnd
<1> QED BY <1>7, <1>8 DEF strcpy

(* A call that may be made finds nothing done. *)
LEMMA RequestKeeps ==
    ASSUME StringsInv, NEW r \in Requests, Request(r) PROVE StringsInv'
<1>0. /\ call = None /\ i = 0 /\ result = None /\ known = mem /\ mem \in [Addr -> Bytes]
      /\ call' = r /\ known' = mem /\ mem' = mem /\ result' = None /\ r # None
      /\ Size \in Nat
  BY StringAssumption DEF StringsInv, Quiet, Request, StringsTypeOK, StringAssumption
<1>1. /\ r.fn \in Routines /\ r.dst \in Nat /\ r.src \in Nat /\ r.n \in 0 .. Size /\ r.n \in Nat
  BY <1>0, Fields DEF Addr
<1>2. i' = (IF r.fn = "memmove" /\ ~Upward(r) THEN r.n ELSE 0) /\ i' \in 0 .. Size
  BY <1>0, <1>1 DEF Request
<1>3. StringsTypeOK'
  BY <1>0, <1>2 DEF StringsTypeOK
<1>4. AllowedThen'
  BY <1>0 DEF AllowedThen, EndsThen, Request, Allowed, Ends, InOrder
<1>5. /\ mem' = Promised!Copied(known', r.dst, r.src, 0)
      /\ mem' = CopiedFrom(known', r.dst, r.src, r.n, r.n)
      /\ mem' = Promised!Filled(known', r.dst, 0, r.c)
  BY <1>0, <1>1, NothingDone
<1>6. LoopInv'
  <2>1. i' <= r.n
    BY <1>1, <1>2
  <2>2. CASE r.fn = "memmove"
    BY <1>0, <1>2, <1>5, <2>1, <2>2 DEF LoopInv, Upward
  <2>3. CASE r.fn # "memmove"
    <3>1. i' = 0 /\ 0 .. 0 - 1 = {}
      BY <1>2, <2>3
    <3>2. Promised!Same(known', r.dst, r.src, 0)
      BY <3>1 DEF Promised!Same
    <3> QED BY <1>0, <1>5, <2>1, <2>3, <3>1, <3>2 DEF LoopInv
  <2> QED BY <2>2, <2>3
<1> QED BY <1>0, <1>3, <1>4, <1>6 DEF StringsInv, Quiet

(* After a call nothing is under way. *)
LEMMA ReturnKeeps == ASSUME StringsInv, StringReturn PROVE StringsInv'
<1>1. 0 \in 0 .. Size
  BY StringAssumption DEF StringAssumption
<1> QED BY <1>1 DEF StringsInv, StringReturn, StringsTypeOK, Quiet

-----------------------------------------------------------------------------
(* The inductive invariant *)

(* Nothing is under way at first. *)
LEMMA StringsInvInit == StringsInit => StringsInv
<1>1. 0 \in 0 .. Size
  BY StringAssumption DEF StringAssumption
<1> QED BY <1>1 DEF StringsInit, StringsInv, StringsTypeOK, Quiet

(* Every step keeps it. *)
LEMMA StringsInvNext == ASSUME StringsInv, [StringsNext]_strings PROVE StringsInv'
<1>1. CASE UNCHANGED strings
  BY <1>1 DEF strings, StringsInv, StringsTypeOK, Quiet, AllowedThen, EndsThen, LoopInv
<1> QED
  BY <1>1, RequestKeeps, ReturnKeeps, MemcpyKeeps, MemmoveKeeps, MemsetKeeps, MemcmpKeeps,
     StrlenKeeps, StrcpyKeeps, LiballocMemcpyKeeps DEF StringsNext, Loop

(* The invariant holds throughout. *)
LEMMA StringsInvariance == StringsSpec => []StringsInv
BY StringsInvInit, StringsInvNext, PTL DEF StringsSpec

-----------------------------------------------------------------------------
(* Refinement *)

(* The memory the library shows: as it was until the call is about to return. *)
Shown == IF result = None THEN known ELSE mem

(* A step of a loop is a reply, or nothing yet. *)
LEMMA LoopReplies ==
    ASSUME StringsInv, StringsInv', Loop
    PROVE  [Promised!Next]_<<Shown, call, result>>
<1>1. call # None /\ result = None /\ UNCHANGED <<call, known>>
  BY DEF Loop, memcpy, memmove, memset, memcmp, strlen, strcpy, liballoc_memcpy, Running,
         Advance, Finish
<1>2. CASE result' = None
  BY <1>1, <1>2 DEF Shown
<1>3. CASE result' # None
  <2>1. Promised!Promise(call, known, mem, result)'
    BY <1>1, <1>3 DEF StringsInv
  <2>2. Promised!Promise(call, known, mem', result')
    BY <1>1, <2>1
  <2>3. Promised!Reply
    BY <1>1, <1>3, <2>2 DEF Promised!Reply, Shown
  <2> QED BY <2>3 DEF Promised!Next
<1> QED BY <1>2, <1>3

(* Every step is one of the library's, or none. *)
LEMMA StringsStepPromised ==
    ASSUME StringsInv, StringsInv', [StringsNext]_strings
    PROVE  [Promised!Next]_<<Shown, call, result>>
<1>1. ASSUME NEW r \in Requests, Request(r) PROVE Promised!Ask
  <2>1. call = None /\ result = None /\ known = mem
    BY <1>1 DEF Request, StringsInv, Quiet
  <2> QED BY <1>1, <2>1 DEF Promised!Ask, Request, Shown
<1>2. CASE StringReturn
  BY <1>2 DEF StringReturn, Promised!Next, Promised!Done, Shown
<1>3. CASE UNCHANGED strings
  BY <1>3 DEF strings, Shown
<1> QED BY <1>1, <1>2, <1>3, LoopReplies DEF StringsNext, Promised!Next

(* The byte loops implement the library: every routine does what it promises,
   however its regions lie. *)
THEOREM LoopsImplementLibrary == StringsSpec => ImplementsLibrary
<1>1. StringsInit => Promised!Init
  BY DEF StringsInit, Promised!Init
<1>2. StringsInv /\ StringsInv' /\ [StringsNext]_strings => [Promised!Next]_<<Shown, call, result>>
  BY StringsStepPromised
<1>3. Promised!Spec <=> Promised!Init /\ [][Promised!Next]_<<Shown, call, result>>
  BY DEF Promised!Spec, Shown
<1> QED BY <1>1, <1>2, <1>3, StringsInvariance, PTL DEF StringsSpec, ImplementsLibrary

(* Memory holds bytes, and the loops' state is of its type. *)
THEOREM StringsTypeCorrect == StringsSpec => []StringsTypeOK
BY StringsInvariance, PTL DEF StringsInv
=============================================================================
