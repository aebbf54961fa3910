------------------------------ MODULE Liballoc ------------------------------
(***************************************************************************)
(* The kernel heap: malloc, free, calloc and realloc of liballoc.c over    *)
(* liballoc_alloc and liballoc_free of rise.c.                             *)
(*                                                                         *)
(* A block is a boundary tag of TagSize addresses followed by its payload. *)
(* Blocks cut from the same run of pages are linked left and right; free   *)
(* blocks are on the doubly linked list of their size's exponent.  The     *)
(* operators below change the heap's tables the way the C helper of the    *)
(* same name does.  An action is what a call does in one go: everything    *)
(* between taking and releasing the lock runs one loop iteration a step,   *)
(* and the parts of calloc and realloc outside the lock are steps of their *)
(* own, with other threads' calls in between.                              *)
(*                                                                         *)
(* A header on a page that is not present stops the system: isrc.c's       *)
(* handler loops, or returns to the same fault.  So does writing over the  *)
(* kernel, which is what realloc and calloc do with a NULL from malloc     *)
(* when they write far enough: nothing is followed after that.             *)
(***************************************************************************)
EXTENDS Integers, FiniteSets

CONSTANTS
    Threads,        \* execution contexts
    Requests,       \* the sizes callers ask for
    TagSize,        \* sizeof(struct boundary_tag)
    PageSize,       \* PAGE_SIZE, l_pageSize
    PageCount,      \* l_pageCount: the least number of pages asked for
    MinExp, MaxExp, \* MINEXP, MAXEXP
    MaxComplete,    \* MAXCOMPLETE: whole free runs kept per exponent
    KernelStart,    \* where the kernel's image is loaded
    HeapStart,      \* heap_start, not aligned to a page
    HeapEnd,        \* heap_end
    TableEnd        \* the end of what page table 0 maps

NULL == 0

ASSUME SizeAssumption ==
    /\ TagSize \in Nat \ {0} /\ PageSize \in Nat \ {0} /\ PageCount \in Nat \ {0}
    /\ MinExp \in Nat /\ MaxExp \in Nat /\ MinExp < MaxExp
    /\ MaxComplete \in Nat
    /\ Requests \subseteq Nat

ASSUME HeapAssumption ==
    /\ HeapStart \in Nat \ {0} /\ HeapEnd \in Nat /\ HeapStart <= HeapEnd
    /\ TableEnd \in Nat

(* The image lies from 1 MB on.  Behind it paging_init places the page directory, a
   page table and the frame array, which are more than a page and a tag, and then the
   heap, within the 4 MB that page table 0 maps.  HEAP_SIZE is as much as a table maps:
   the heap ends past it by what lies below the heap, which is more than the least run
   of pages. *)
ASSUME LayoutAssumption ==
    /\ KernelStart \in Nat \ {0} /\ KernelStart + PageSize + TagSize <= HeapStart
    /\ PageCount * PageSize <= HeapStart
    /\ HeapStart < TableEnd /\ TableEnd % PageSize = 0
    /\ HeapEnd = HeapStart + TableEnd

Addr    == HeapStart .. HeapEnd
Ptr     == Addr \cup {NULL}
Buckets == MinExp .. MaxExp - 1
Lists   == -1 .. MaxExp - 1          \* a tag's index: -1 when on no list

VARIABLES
    tag,            \* the boundary tags in force, by address
    free,           \* l_freePages
    complete,       \* l_completePages
    l_initialized,
    heap_cur,       \* the end of the memory obtained so far
    present,        \* the pages whose page table entry is present
    holders,        \* the threads inside liballoc_lock .. liballoc_unlock
    pc, loc,        \* each thread's position in its call, and its locals
    live,           \* the pointers callers hold
    released,       \* history: the addresses given to liballoc_free
    halted          \* the system has stopped

heap == <<tag, free, complete>>
vars == <<tag, free, complete, l_initialized, heap_cur, present, holders, pc, loc,
          live, released, halted>>

Lock == INSTANCE Mutex

Tags == [size : Nat, real_size : Nat, index : Lists,
         split_left : Ptr, split_right : Ptr, next : Ptr, prev : Ptr]

Op == {"malloc", "free", "calloc", "realloc"}
Locals == [op : Op, size : Nat, tag : Ptr, old : Ptr, ptr : Ptr, keep : Nat]
NoLocals == [op |-> "free", size |-> 0, tag |-> NULL, old |-> NULL, ptr |-> NULL,
             keep |-> 0]

(* Program points: waiting for the lock in malloc, free or realloc; searching a
   list; melting left and right; copying into a new block or clearing it. *)
Waiting == {"malloc", "free", "realloc"}
Locked  == {"search", "melt", "absorb"}
Filling == {"copy", "fill"}

Init ==
    /\ tag = [a \in {} |-> NULL]
    /\ free = [i \in Buckets |-> NULL]
    /\ complete = [i \in Buckets |-> 0]
    /\ l_initialized = 0
    /\ heap_cur = HeapStart
    /\ present = 0 .. TableEnd \div PageSize - 1
    /\ holders = {}
    /\ pc = [t \in Threads |-> "idle"]
    /\ loc = [t \in Threads |-> NoLocals]
    /\ live = {}
    /\ released = {}
    /\ halted = FALSE

-----------------------------------------------------------------------------
(* Helpers *)

(* n with 2^n <= size < 2^(n+1), for sizes of at least 2^MinExp: the loop's shift
   goes on while its power of two is not above size, and stops at MAXEXP. *)
getexp(size) ==
    IF size < 2^MinExp THEN -1
    ELSE MinExp - 1 + Cardinality({shift \in Buckets : 2^shift <= size})

Bucket(size) == IF getexp(size) < MinExp THEN MinExp ELSE getexp(size)

(* What a tag's list is chosen by, and the addresses it takes up. *)
Room(a)   == tag[a].real_size - TagSize
Extent(a) == a .. a + tag[a].real_size - 1

Whole(a) == tag[a].split_left = NULL /\ tag[a].split_right = NULL

(* A heap: the tags, the lists and the counts a call leaves behind. *)
HeapOf(g, f, c) == [tag |-> g, free |-> f, complete |-> c]
Now == HeapOf(tag, free, complete)

insert_tag(h, a, i) ==
    LET head == h.free[i]
        g == [b \in DOMAIN h.tag |->
                [h.tag[b] EXCEPT
                   !.index = IF b = a THEN i ELSE @,
                   !.next  = IF b = a /\ head # NULL THEN head ELSE @,
                   !.prev  = IF b = head THEN a ELSE @]]
    IN  HeapOf(g, [h.free EXCEPT ![i] = a], h.complete)

(* Mutant: the list's links are cut on one side only. *)
remove_tag_oneway(h, a) ==
    LET t == h.tag[a]
        g == [b \in DOMAIN h.tag |->
                [h.tag[b] EXCEPT
                   !.index = IF b = a THEN -1 ELSE @,
                   !.next  = IF b = a THEN NULL ELSE IF b = t.prev THEN t.next ELSE @,
                   !.prev  = IF b = a THEN NULL ELSE @]]
        f == [i \in Buckets |->
                IF i = t.index /\ h.free[i] = a THEN t.next ELSE h.free[i]]
    IN  HeapOf(g, f, h.complete)

remove_tag(h, a) ==
    LET t == h.tag[a]
        g == [b \in DOMAIN h.tag |->
                [h.tag[b] EXCEPT
                   !.index = IF b = a THEN -1 ELSE @,
                   !.next  = IF b = a THEN NULL ELSE IF b = t.prev THEN t.next ELSE @,
                   !.prev  = IF b = a THEN NULL ELSE IF b = t.next THEN t.prev ELSE @]]
        f == [i \in Buckets |->
                IF i = t.index /\ h.free[i] = a THEN t.next ELSE h.free[i]]
    IN  HeapOf(g, f, h.complete)

(* Mutant: the left block does not grow. *)
JoinSmall(h, left, right) ==
    LET t == h.tag[right]
        g == [b \in DOMAIN h.tag \ {right} |->
                [h.tag[b] EXCEPT
                   !.split_right = IF b = left THEN t.split_right ELSE @,
                   !.split_left  = IF b = t.split_right THEN left ELSE @]]
    IN  HeapOf(g, h.free, h.complete)

(* The tag right joins the tag left in front of it.  Its header stays in
   memory as payload, but no pointer to it is kept. *)
Join(h, left, right) ==
    LET t == h.tag[right]
        g == [b \in DOMAIN h.tag \ {right} |->
                [h.tag[b] EXCEPT
                   !.real_size   = IF b = left THEN @ + t.real_size ELSE @,
                   !.split_right = IF b = left THEN t.split_right ELSE @,
                   !.split_left  = IF b = t.split_right THEN left ELSE @]]
    IN  HeapOf(g, h.free, h.complete)

melt_left(h, a) == Join(h, h.tag[a].split_left, a)

absorb_right(h, a) ==
    LET right == h.tag[a].split_right IN Join(remove_tag(h, right), a, right)

(* The tail of a's payload becomes a free block.  new_tag->size is not
   written before malloc hands the block out; 0 stands for it. *)
split_tag(h, a) ==
    LET t     == h.tag[a]
        new   == a + TagSize + t.size
        rest  == t.real_size - TagSize - t.size
        fresh == [size |-> 0, real_size |-> rest, index |-> -1,
                  split_left |-> a, split_right |-> t.split_right,
                  next |-> NULL, prev |-> NULL]
        g == [b \in DOMAIN h.tag \cup {new} |->
                IF b = new THEN fresh
                ELSE [h.tag[b] EXCEPT
                        !.real_size   = IF b = a THEN @ - rest ELSE @,
                        !.split_right = IF b = a THEN new ELSE @,
                        !.split_left  = IF b = t.split_right THEN new ELSE @]]
    IN  insert_tag(HeapOf(g, h.free, h.complete), new, Bucket(rest - TagSize))

(* The end of malloc: the tag gets its size; what is left over is split off
   when it can hold a tag and at least 2^MinExp bytes. *)
Carve(h, a, size) ==
    LET sized     == HeapOf([h.tag EXCEPT ![a].size = size], h.free, h.complete)
        remainder == h.tag[a].real_size - size - 2 * TagSize
    IN  IF remainder > 0 /\ getexp(remainder) >= 0 THEN split_tag(sized, a) ELSE sized

-----------------------------------------------------------------------------
(* Pages *)

Page(x) == x \div PageSize
Pages(first, last) == Page(first) .. Page(last)

PagesFor(size) ==
    LET n == size \div PageSize + (IF size % PageSize # 0 THEN 1 ELSE 0)
    IN  IF n < PageCount THEN PageCount ELSE n

(* A page outside page table 0 makes allocate_page place and clear a table on
   top of the heap: the system does not survive that. *)
InTable(pages) == pages \subseteq 0 .. TableEnd \div PageSize - 1

(* The n bytes from p on can be read and written. *)
Usable(p, n) == n > 0 => Pages(p, p + n - 1) \subseteq present

(* The headers that differ between the heap as it is and h. *)
Touched(h) ==
    {b \in DOMAIN tag \cup DOMAIN h.tag :
        \/ b \notin DOMAIN tag \/ b \notin DOMAIN h.tag
        \/ h.tag[b] # tag[b]}

-----------------------------------------------------------------------------
(* What the steps under the lock make of the heap *)

(* Mutant: the head of the list is taken as it is, as MODE_INSTANT could. *)
FitsInstantly(a, size) == TRUE

Fits(a, size) == Room(a) >= size + TagSize

(* Mutants: every block taken is taken off the count; none is. *)
TakenCountsAll(a, size) ==
    LET c == [complete EXCEPT ![Bucket(size)] = @ - 1]
    IN  Carve(remove_tag(HeapOf(tag, free, c), a), a, size)
TakenCountsNone(a, size) == Carve(remove_tag(Now, a), a, size)

(* malloc takes the free block a: it leaves its list and, if it was a whole run
   of pages, the count of those. *)
Taken(a, size) ==
    LET c == IF Whole(a) THEN [complete EXCEPT ![Bucket(size)] = @ - 1] ELSE complete
    IN  Carve(remove_tag(HeapOf(tag, free, c), a), a, size)

(* malloc makes a block of fresh pages: allocate_new_tag, and liballoc_alloc,
   which maps every page from the one heap_cur is on to the one the new end is
   on. *)
Bytes(size)     == PagesFor(size + TagSize) * PageSize

(* Mutant: heap_end is HEAP_SIZE, and not heap_start + HEAP_SIZE. *)
ExhaustedBelow(size) == heap_cur + Bytes(size) >= HeapEnd - HeapStart
Exhausted(size) == heap_cur + Bytes(size) >= HeapEnd
NewPages(size)  == Pages(heap_cur, heap_cur + Bytes(size))

Grown(size) ==
    LET a   == heap_cur
        new == [size |-> size, real_size |-> Bytes(size), index |-> -1,
                split_left |-> NULL, split_right |-> NULL, next |-> NULL, prev |-> NULL]
        g   == [b \in DOMAIN tag \cup {a} |-> IF b = a THEN new ELSE tag[b]]
    IN  Carve(HeapOf(g, free, complete), a, size)

(* free joins a with the free blocks beside it and puts it on its list. *)
OnList(a) == a # NULL /\ tag[a].index >= 0
Left(t)   == tag[loc[t].tag].split_left
Right(t)  == tag[loc[t].tag].split_right

Melted(a) == remove_tag(melt_left(Now, a), tag[a].split_left)

(* Mutant: parts of a run of pages go back to the system. *)
CrowdedPart(a) == complete[Bucket(Room(a))] = MaxComplete

Crowded(a) == Whole(a) /\ complete[Bucket(Room(a))] = MaxComplete

Put(a) ==
    LET i == Bucket(Room(a))
        c == IF Whole(a) THEN [complete EXCEPT ![i] = @ + 1] ELSE complete
    IN  insert_tag(HeapOf(tag, free, c), a, i)

-----------------------------------------------------------------------------
(* What a step needs, and what stops the system *)

Grows(t) == pc[t] = "search" /\ loc[t].tag = NULL /\ ~Exhausted(loc[t].size)

(* The headers the next step of t reads or changes. *)
Headers(t) ==
    LET a == loc[t].tag
        n == loc[t].size
    IN  CASE pc[t] = "search" /\ a # NULL ->
                {a} \cup (IF Fits(a, n) THEN Touched(Taken(a, n)) ELSE {})
          [] Grows(t) -> Touched(Grown(n))
          [] pc[t] = "free" -> {a}
          [] pc[t] = "realloc" -> {loc[t].old - TagSize}
          [] pc[t] = "melt" ->
                ({Left(t)} \ {NULL}) \cup (IF OnList(Left(t)) THEN Touched(Melted(a)) ELSE {})
          [] pc[t] = "absorb" ->
                ({Right(t)} \ {NULL}) \cup
                (IF OnList(Right(t)) THEN Touched(absorb_right(Now, a))
                 ELSE IF Crowded(a) THEN {} ELSE Touched(Put(a)))
          [] OTHER -> {}

Accessible(t) ==
    LET pages == IF Grows(t) THEN present \cup NewPages(loc[t].size) ELSE present
    IN  /\ Grows(t) => InTable(NewPages(loc[t].size))
        /\ \A a \in Headers(t) : Pages(a, a + TagSize - 1) \subseteq pages
        /\ pc[t] = "copy" =>
              Usable(loc[t].old, loc[t].keep) /\ Usable(loc[t].ptr, loc[t].keep)
        /\ pc[t] = "fill" => Usable(loc[t].ptr, loc[t].size)

(* Writing n bytes from p on reaches the kernel: its image, and the tables behind it. *)
OverKernel(p, n) == n > 0 /\ p < HeapStart /\ p + n > KernelStart

(* The copy of realloc, or the clearing of calloc, to what malloc returned. *)
Overwrites(t) ==
    \/ pc[t] = "copy" /\ OverKernel(loc[t].ptr, loc[t].keep)
    \/ pc[t] = "fill" /\ OverKernel(loc[t].ptr, loc[t].size)

Goes(t) == Accessible(t) /\ ~Overwrites(t)

At(t, point) == ~halted /\ pc[t] = point /\ Goes(t)

(* A page fault, or the kernel is lost. *)
Stop(t) ==
    /\ ~halted
    /\ pc[t] \in Waiting => holders = {}
    /\ ~Goes(t)
    /\ halted' = TRUE
    /\ UNCHANGED <<heap, l_initialized, heap_cur, present, holders, pc, loc, live, released>>

Becomes(h) ==
    /\ tag' = h.tag
    /\ free' = h.free
    /\ complete' = h.complete

-----------------------------------------------------------------------------
(* Calls *)

Call(t, to, l) ==
    /\ ~halted
    /\ pc[t] = "idle"
    /\ pc' = [pc EXCEPT ![t] = to]
    /\ loc' = [loc EXCEPT ![t] = l]
    /\ UNCHANGED <<heap, l_initialized, heap_cur, present, holders, released, halted>>

CallMalloc(t) ==
    \E n \in Requests :
        /\ Call(t, "malloc", [NoLocals EXCEPT !.op = "malloc", !.size = n])
        /\ UNCHANGED live

CallCalloc(t) ==
    \E n \in Requests :
        /\ Call(t, "malloc", [NoLocals EXCEPT !.op = "calloc", !.size = n])
        /\ UNCHANGED live

(* free(ptr), and realloc(ptr, 0), which is the same. *)
CallFree(t) ==
    \E p \in live :
        /\ Call(t, "free", [NoLocals EXCEPT !.tag = p - TagSize])
        /\ live' = live \ {p}

(* realloc of a block to a size other than 0; realloc(NULL, n) is malloc(n). *)
CallRealloc(t) ==
    \E p \in live, n \in Requests \ {0} :
        /\ Call(t, "realloc", [NoLocals EXCEPT !.op = "realloc", !.size = n, !.old = p])
        /\ live' = live \ {p}

-----------------------------------------------------------------------------
(* malloc *)

MallocStart(t) ==
    LET lists == IF l_initialized = 0 THEN [i \in Buckets |-> NULL] ELSE free
    IN  /\ At(t, "malloc")
        /\ Lock!Acquire(t)
        /\ free' = lists
        /\ complete' = IF l_initialized = 0 THEN [i \in Buckets |-> 0] ELSE complete
        /\ l_initialized' = 1
        /\ loc' = [loc EXCEPT ![t].tag = lists[Bucket(loc[t].size)]]
        /\ pc' = [pc EXCEPT ![t] = "search"]
        /\ UNCHANGED <<tag, heap_cur, present, live, released, halted>>

(* Mutant: only the head of the list is looked at. *)
MallocNextGivesUp(t) ==
    /\ At(t, "search")
    /\ loc[t].tag # NULL
    /\ ~Fits(loc[t].tag, loc[t].size)
    /\ loc' = [loc EXCEPT ![t].tag = NULL]
    /\ UNCHANGED <<heap, l_initialized, heap_cur, present, holders, pc, live, released, halted>>

MallocNext(t) ==
    /\ At(t, "search")
    /\ loc[t].tag # NULL
    /\ ~Fits(loc[t].tag, loc[t].size)
    /\ loc' = [loc EXCEPT ![t].tag = tag[@].next]
    /\ UNCHANGED <<heap, l_initialized, heap_cur, present, holders, pc, live, released, halted>>

(* malloc unlocks and returns p: to its caller, or to calloc or realloc. *)
Hand(t, p) ==
    /\ Lock!Release(t)
    /\ \/ /\ loc[t].op = "malloc"
          /\ pc' = [pc EXCEPT ![t] = "idle"]
          /\ loc' = [loc EXCEPT ![t] = NoLocals]
          /\ live' = live \cup ({p} \ {NULL})
       \/ /\ loc[t].op # "malloc"
          /\ pc' = [pc EXCEPT ![t] = IF loc[t].op = "calloc" THEN "fill" ELSE "copy"]
          /\ loc' = [loc EXCEPT ![t].tag = NULL, ![t].ptr = p]
          /\ UNCHANGED live

MallocTake(t) ==
    LET a == loc[t].tag
    IN  /\ At(t, "search")
        /\ a # NULL
        /\ Fits(a, loc[t].size)
        /\ Becomes(Taken(a, loc[t].size))
        /\ Hand(t, a + TagSize)
        /\ UNCHANGED <<l_initialized, heap_cur, present, released, halted>>

MallocGrow(t) ==
    LET size == loc[t].size
    IN  /\ At(t, "search")
        /\ Grows(t)
        /\ present' = present \cup NewPages(size)
        /\ heap_cur' = heap_cur + Bytes(size)
        /\ Becomes(Grown(size))
        /\ Hand(t, heap_cur + TagSize)
        /\ UNCHANGED <<l_initialized, released, halted>>

MallocFail(t) ==
    /\ At(t, "search")
    /\ loc[t].tag = NULL
    /\ Exhausted(loc[t].size)
    /\ Hand(t, NULL)
    /\ UNCHANGED <<heap, l_initialized, heap_cur, present, released, halted>>

-----------------------------------------------------------------------------
(* free *)

(* The caller holds ptr, so its tag has the magic number. *)
FreeStart(t) ==
    /\ At(t, "free")
    /\ Lock!Acquire(t)
    /\ pc' = [pc EXCEPT ![t] = "melt"]
    /\ UNCHANGED <<heap, l_initialized, heap_cur, present, loc, live, released, halted>>

MeltLeft(t) ==
    /\ At(t, "melt")
    /\ OnList(Left(t))
    /\ Becomes(Melted(loc[t].tag))
    /\ loc' = [loc EXCEPT ![t].tag = Left(t)]
    /\ UNCHANGED <<l_initialized, heap_cur, present, holders, pc, live, released, halted>>

MeltDone(t) ==
    /\ At(t, "melt")
    /\ ~OnList(Left(t))
    /\ pc' = [pc EXCEPT ![t] = "absorb"]
    /\ UNCHANGED <<heap, l_initialized, heap_cur, present, holders, loc, live, released, halted>>

AbsorbRight(t) ==
    /\ At(t, "absorb")
    /\ OnList(Right(t))
    /\ Becomes(absorb_right(Now, loc[t].tag))
    /\ UNCHANGED <<l_initialized, heap_cur, present, holders, pc, loc, live, released, halted>>

(* free unlocks and returns; realloc then returns the new block. *)
EndFree(t) ==
    /\ Lock!Release(t)
    /\ pc' = [pc EXCEPT ![t] = "idle"]
    /\ loc' = [loc EXCEPT ![t] = NoLocals]
    /\ live' = live \cup ({loc[t].ptr} \ {NULL})

FreePut(t) ==
    /\ At(t, "absorb")
    /\ ~OnList(Right(t))
    /\ ~Crowded(loc[t].tag)
    /\ Becomes(Put(loc[t].tag))
    /\ EndFree(t)
    /\ UNCHANGED <<l_initialized, heap_cur, present, released, halted>>

(* liballoc_free(tag, pages): free_region goes on through the page its end is
   on, so one page more than that is unmapped. *)
FreedPages(a) == PagesFor(tag[a].real_size)

FreeRelease(t) ==
    LET a == loc[t].tag
    IN  /\ At(t, "absorb")
        /\ ~OnList(Right(t))
        /\ Crowded(a)
        /\ tag' = [b \in DOMAIN tag \ {a} |-> tag[b]]
        /\ present' = present \ Pages(a, a + FreedPages(a) * PageSize)
        /\ released' = released \cup Extent(a)
        /\ EndFree(t)
        /\ UNCHANGED <<free, complete, l_initialized, heap_cur, halted>>

-----------------------------------------------------------------------------
(* realloc and calloc, outside the lock *)

(* Mutants: the old size is not cut to the new one; the lock is not given back
   before malloc. *)
ReallocReadLong(t) ==
    /\ At(t, "realloc")
    /\ holders = {}
    /\ loc' = [loc EXCEPT ![t].keep = tag[loc[t].old - TagSize].size]
    /\ pc' = [pc EXCEPT ![t] = "malloc"]
    /\ UNCHANGED <<heap, l_initialized, heap_cur, present, holders, live, released, halted>>
ReallocReadLocked(t) ==
    /\ At(t, "realloc")
    /\ Lock!Acquire(t)
    /\ loc' = [loc EXCEPT ![t].keep = tag[loc[t].old - TagSize].size]
    /\ pc' = [pc EXCEPT ![t] = "malloc"]
    /\ UNCHANGED <<heap, l_initialized, heap_cur, present, live, released, halted>>

(* The size of the old block is read under the lock, which is given back
   before malloc takes it again. *)
ReallocRead(t) ==
    LET a == loc[t].old - TagSize
    IN  /\ At(t, "realloc")
        /\ holders = {}
        /\ loc' = [loc EXCEPT ![t].keep =
                      IF tag[a].size > loc[t].size THEN loc[t].size ELSE tag[a].size]
        /\ pc' = [pc EXCEPT ![t] = "malloc"]
        /\ UNCHANGED <<heap, l_initialized, heap_cur, present, holders, live, released, halted>>

(* Mutant: the old block is not freed. *)
CopyOnly(t) ==
    /\ At(t, "copy")
    /\ loc' = [loc EXCEPT ![t] = NoLocals]
    /\ pc' = [pc EXCEPT ![t] = "idle"]
    /\ live' = live \cup ({loc[t].ptr} \ {NULL})
    /\ UNCHANGED <<heap, l_initialized, heap_cur, present, holders, released, halted>>

(* memcpy to what malloc returned, NULL or not; then the old block is freed.  What lies
   below the kernel is nobody's, and only a copy that ends there goes on (Overwrites). *)
Copy(t) ==
    /\ At(t, "copy")
    /\ loc' = [loc EXCEPT ![t].tag = loc[t].old - TagSize]
    /\ pc' = [pc EXCEPT ![t] = "free"]
    /\ UNCHANGED <<heap, l_initialized, heap_cur, present, holders, live, released, halted>>

(* memset of what malloc returned, NULL or not. *)
Fill(t) ==
    /\ At(t, "fill")
    /\ loc' = [loc EXCEPT ![t] = NoLocals]
    /\ pc' = [pc EXCEPT ![t] = "idle"]
    /\ live' = live \cup ({loc[t].ptr} \ {NULL})
    /\ UNCHANGED <<heap, l_initialized, heap_cur, present, holders, released, halted>>

-----------------------------------------------------------------------------
(* What a thread does once it has made a call. *)
Step(t) ==
    \/ MallocStart(t) \/ MallocNext(t)
    \/ MallocTake(t) \/ MallocGrow(t) \/ MallocFail(t)
    \/ FreeStart(t) \/ MeltLeft(t) \/ MeltDone(t) \/ AbsorbRight(t)
    \/ FreePut(t) \/ FreeRelease(t)
    \/ ReallocRead(t) \/ Copy(t) \/ Fill(t)

Next ==
    \E t \in Threads :
        \/ CallMalloc(t) \/ CallCalloc(t) \/ CallFree(t) \/ CallRealloc(t)
        \/ Step(t)
        \/ Stop(t)

Spec == Init /\ [][Next]_vars

(* A thread in a call keeps running, into the fault if that is next; the lock is not
   promised to any waiter. *)
FairSpec == Spec /\ \A t \in Threads : WF_vars(Step(t) \/ Stop(t))

-----------------------------------------------------------------------------
Linked(a, b) == tag[a].split_right = b /\ tag[b].split_left = a

(* The blocks in callers' hands: on no list, and not being given back. *)
InUse ==
    {a \in DOMAIN tag :
        /\ tag[a].index = -1
        /\ ~\E t \in Threads : pc[t] \in {"free", "melt", "absorb"} /\ loc[t].tag = a}

TypeOK ==
    /\ DOMAIN tag \subseteq Addr /\ tag \in [DOMAIN tag -> Tags]
    /\ free \in [Buckets -> Ptr]
    /\ complete \in [Buckets -> 0 .. MaxComplete]
    /\ l_initialized \in {0, 1}
    /\ heap_cur \in Addr
    /\ present \subseteq 0 .. TableEnd \div PageSize - 1
    /\ holders \subseteq Threads
    /\ pc \in [Threads -> {"idle"} \cup Waiting \cup Locked \cup Filling]
    /\ loc \in [Threads -> Locals]
    /\ live \subseteq Addr
    /\ released \subseteq Addr
    /\ halted \in BOOLEAN

(* The tags cut the memory obtained from liballoc_alloc, less what went back to
   liballoc_free, into blocks that do not overlap and leave no gap, whatever
   splits and melts have happened. *)
Tiling ==
    /\ \A a, b \in DOMAIN tag : a # b => Extent(a) \cap Extent(b) = {}
    /\ (UNION {Extent(a) : a \in DOMAIN tag}) \cup released = HeapStart .. heap_cur - 1
    /\ \A a \in DOMAIN tag : Extent(a) \cap released = {}

(* split_left and split_right mirror each other and the blocks' places, and no
   two neighbours are both free: free melts them as far as they go. *)
Coalesced ==
    \A a \in DOMAIN tag :
        LET b == tag[a].split_right
            z == tag[a].split_left
        IN  /\ b # NULL => /\ b \in DOMAIN tag /\ Linked(a, b)
                           /\ b = a + tag[a].real_size
                           /\ ~(OnList(a) /\ OnList(b))
            /\ z # NULL => z \in DOMAIN tag /\ Linked(z, a)

(* l_freePages: a tag with index i is on list i and on no other, each list is a
   chain from its head without a cycle, i is the exponent of the tag's room,
   and a block in use is on no list. *)
FreeListsSound ==
    /\ \A i \in Buckets : free[i] # NULL =>
          /\ free[i] \in DOMAIN tag
          /\ tag[free[i]].index = i /\ tag[free[i]].prev = NULL
    /\ \A a \in DOMAIN tag :
          LET t == tag[a]
          IN  /\ t.index < 0 => t.next = NULL /\ t.prev = NULL
              /\ t.index >= 0 => /\ t.index = Bucket(Room(a))
                                 /\ t.prev = NULL => free[t.index] = a
              /\ t.next # NULL => /\ t.next \in DOMAIN tag
                                  /\ tag[t.next].prev = a /\ tag[t.next].index = t.index
              /\ t.prev # NULL => t.prev \in DOMAIN tag /\ tag[t.prev].next = a
    /\ \A S \in SUBSET {a \in DOMAIN tag : tag[a].prev # NULL} :
          S # {} => \E a \in S : tag[a].prev \notin S

(* l_completePages[i] is the number of whole runs of pages on list i. *)
CompleteCount ==
    \A i \in Buckets :
        complete[i] = Cardinality({a \in DOMAIN tag : tag[a].index = i /\ Whole(a)})

(* Every block in use belongs to one caller, or to one realloc or calloc on its
   way back to its caller, and holds what was asked for: nothing is leaked,
   nothing is handed out twice. *)
Pending(t) ==
    {loc[t].ptr} \cup
    (IF pc[t] \notin {"free", "melt", "absorb"} THEN {loc[t].old} ELSE {})

NoLeak ==
    /\ {a + TagSize : a \in InUse} =
          live \cup ((UNION {Pending(t) : t \in Threads}) \ {NULL})
    /\ \A t \in Threads : live \cap Pending(t) = {}
    /\ \A t, u \in Threads : t # u => Pending(t) \cap Pending(u) \subseteq {NULL}
    /\ \A a \in InUse : tag[a].size + TagSize <= tag[a].real_size

(* When realloc copies, outside the lock, what it read of the old block before
   still stands: the bytes it moves are within both blocks. *)
CopyInBounds ==
    \A t \in Threads : pc[t] = "copy" =>
        /\ loc[t].keep <= tag[loc[t].old - TagSize].size
        /\ loc[t].ptr # NULL => loc[t].keep <= tag[loc[t].ptr - TagSize].size

(* malloc asks for more pages only when no block of the request's exponent
   fits: the search misses none. *)
GrowsOnlyWhenFull ==
    [][\A t \in Threads : MallocGrow(t) =>
         \A a \in DOMAIN tag :
            tag[a].index = Bucket(loc[t].size) => ~Fits(a, loc[t].size)]_vars

(* Callers see an abstract heap. *)
Blocks == {[ptr |-> a + TagSize, size |-> tag[a].size] : a \in InUse}

Abstract == INSTANCE AbstractHeap WITH
    Heap   <- HeapStart .. HeapEnd - 1,
    blocks <- Blocks
ImplementsHeap == Abstract!Spec

(* Where the system stops it is for one of three reasons: a run of pages has gone back
   to it, and one page too many with it, which happens only once the heap has obtained
   more than MAXCOMPLETE runs; malloc asks for pages that page table 0 does not map;
   realloc or calloc got no memory and writes from address 0 on as far as the kernel. *)
RunBytes     == PageCount * PageSize
ManyRuns     == heap_cur - HeapStart >= (MaxComplete + 1) * RunBytes
Overgrows(t) == Grows(t) /\ ~InTable(NewPages(loc[t].size))

StopsExplained ==
    halted => \/ released # {} /\ ManyRuns
              \/ \E t \in Threads : Overgrows(t) \/ (loc[t].ptr = NULL /\ Overwrites(t))

(* No caller sees calloc fail.  malloc refuses only what is longer than everything below
   the kernel, since it stops at the end of page table 0 before the heap ends; so the
   clearing that follows goes over the kernel. *)
CallocNeverFails ==
    \A t \in Threads : pc[t] = "fill" /\ loc[t].ptr = NULL => Overwrites(t)

(* Calls end: when every thread is in a call, one of them returns, or the system stops.
   The search and the melting are finite, and no call waits for a lock it holds itself. *)
SomeCallReturns ==
    (\A t \in Threads : pc[t] # "idle") ~>
        (halted \/ \E t \in Threads : pc[t] = "idle")

-----------------------------------------------------------------------------
(* What the headers and the tests say, and the code does otherwise. *)

(* kernel.c's use_all_mem takes memory until there is none and goes on to say
   "Finished!": the system does not stop. *)
NeverHalts == ~halted

(* liballoc.h on liballoc_free: "The integer value is the number of pages to
   free."  No more pages than that go. *)
FreesThatManyPages ==
    [][\A t \in Threads : FreeRelease(t) =>
         Cardinality(present \ present') <= FreedPages(loc[t].tag)]_vars

(* liballoc.h calls realloc "The standard function.": one that gets no memory
   leaves the old block alone. *)
ReallocKeepsOnFailure ==
    \A t \in Threads : pc[t] = "free" /\ loc[t].op = "realloc" => loc[t].ptr # NULL
=============================================================================
