--------------------------- MODULE StringLibrary ---------------------------
(***************************************************************************)
(* What the routines of libc/string, and those like them in liballoc.c and *)
(* serial.c, promise: a request is answered by one change of the memory,   *)
(* and by the value returned.  How the routine gets there is not said.     *)
(***************************************************************************)
EXTENDS Integers

CONSTANTS
    Requests,       \* the calls that may be made
    ByteCount,      \* the values of an unsigned char
    None            \* no request, no answer

VARIABLES
    memory,
    request,
    answer

NUL == 0

Region(p, n) == p .. p + n - 1

Copied(m, d, s, n) ==
    [a \in DOMAIN m |-> IF a \in Region(d, n) THEN m[s + (a - d)] ELSE m[a]]

Filled(m, d, n, c) ==
    [a \in DOMAIN m |-> IF a \in Region(d, n) THEN c % ByteCount ELSE m[a]]

\* v is the length of the string at p.
IsLength(m, p, v) ==
    /\ v \in Nat
    /\ m[p + v] = NUL
    /\ \A k \in 0 .. v - 1 : m[p + k] # NUL

Same(m, p, q, n) == \A k \in 0 .. n - 1 : m[p + k] = m[q + k]

\* v is the order of the n bytes at p and at q: that of the first that differ.
IsOrder(m, p, q, n, v) ==
    \/ v = 0 /\ Same(m, p, q, n)
    \/ \E k \in 0 .. n - 1 :
          /\ Same(m, p, q, k)
          /\ \/ v = -1 /\ m[p + k] < m[q + k]
             \/ v = 1  /\ m[p + k] > m[q + k]

Copies == {"memcpy", "memmove", "liballoc_memcpy"}
Fills  == {"memset", "liballoc_memset"}

\* Request r, made of memory m, may leave m2 and return v.
Promise(r, m, m2, v) ==
    \/ r.fn \in Copies  /\ m2 = Copied(m, r.dst, r.src, r.n) /\ v = r.dst
    \/ r.fn \in Fills   /\ m2 = Filled(m, r.dst, r.n, r.c) /\ v = r.dst
    \/ r.fn = "memcmp"  /\ m2 = m /\ IsOrder(m, r.dst, r.src, r.n, v)
    \/ r.fn = "strlen"  /\ m2 = m /\ IsLength(m, r.src, v)
    \/ r.fn = "strcpy"  /\ IsLength(m, r.src, v) /\ m2 = Copied(m, r.dst, r.src, v + 1)

Ask ==
    /\ request = None
    /\ request' \in Requests
    /\ UNCHANGED <<memory, answer>>

Reply ==
    /\ request # None /\ answer = None
    /\ Promise(request, memory, memory', answer')
    /\ UNCHANGED request

Done ==
    /\ answer # None
    /\ request' = None
    /\ answer' = None
    /\ UNCHANGED memory

Init == request = None /\ answer = None
Next == Ask \/ Reply \/ Done

Spec == Init /\ [][Next]_<<memory, request, answer>>
=============================================================================
