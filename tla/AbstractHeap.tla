---------------------------- MODULE AbstractHeap ----------------------------
(***************************************************************************)
(* What malloc, free, calloc and realloc promise their callers: a block    *)
(* handed out lies in the heap, shares no byte with any other block handed *)
(* out, and keeps its place and its size until it is given back.  Where a  *)
(* block is placed, and when the heap is considered full, is left open.    *)
(***************************************************************************)
EXTENDS Integers

CONSTANT Heap       \* the addresses the allocator manages

VARIABLE blocks     \* the blocks handed out: records [ptr, size]

Bytes(b) == b.ptr .. b.ptr + b.size - 1

Init == blocks = {}

Allocate ==
    \E new \in blocks' \ blocks :
        /\ blocks' = blocks \cup {new}
        /\ Bytes(new) \subseteq Heap
        /\ \A b \in blocks : b.ptr # new.ptr /\ Bytes(b) \cap Bytes(new) = {}

Release == \E b \in blocks : blocks' = blocks \ {b}

Next == Allocate \/ Release

Spec == Init /\ [][Next]_blocks
=============================================================================
