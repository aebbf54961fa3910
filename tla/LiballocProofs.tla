--------------------------- MODULE LiballocProofs ---------------------------
(***************************************************************************)
(* Proofs about the heap, for every number of threads, size of pages and   *)
(* tags, exponents and place in memory that meet Liballoc's assumptions.   *)
(*                                                                         *)
(* A call changes the heap by a few small changes: a tag is put on a list  *)
(* (Inserted) or taken off (Removed), joined with the next (Joined), cut   *)
(* in two (Cut), given a size (Sized), added behind the last (Added) or    *)
(* dropped (Dropped).  Each is first reduced to what it does to each tag,  *)
(* and shown to keep the lists (Chains, Acyclic), the links between blocks *)
(* (Mirrored), their places (Tiles) and the lengths of the runs they are   *)
(* cut from (Spaced).  Tags on a list and tags in use are told apart by    *)
(* their index, which is what the rest of the inductive invariant is       *)
(* about: which call owns which of the latter.  From these follow, at the  *)
(* end, why the system stops where it does (StopsExplained), and that a    *)
(* calloc that gets no memory is one of the reasons (CallocNeverFails).    *)
(***************************************************************************)
EXTENDS Liballoc, FiniteSetTheorems, TLAPS

-----------------------------------------------------------------------------
(* Exponents *)

(* There is a list for every exponent. *)
LEMMA BucketsFinite ==
    /\ IsFiniteSet(Buckets)
    /\ Cardinality(Buckets) = MaxExp - MinExp
BY SizeAssumption, FS_Interval DEF Buckets

(* getexp returns -1, or an exponent below MAXEXP. *)
LEMMA ExpType ==
    ASSUME NEW size \in Int
    PROVE  getexp(size) \in -1 .. MaxExp - 1
<1> DEFINE S == {shift \in Buckets : 2^shift <= size}
<1>1. IsFiniteSet(S) /\ Cardinality(S) \in 0 .. MaxExp - MinExp
  BY BucketsFinite, FS_Subset, FS_CardinalityType, SizeAssumption
<1>2. CASE size < 2^MinExp
  BY <1>2, SizeAssumption DEF getexp
<1>3. CASE ~(size < 2^MinExp)
  <2>1. MinExp - 1 + Cardinality(S) \in -1 .. MaxExp - 1
    BY <1>1, SizeAssumption
  <2> QED BY <1>3, <2>1 DEF getexp
<1> QED BY <1>2, <1>3

(* The index malloc and free reckon from a size is always one of a list. *)
LEMMA BucketType ==
    ASSUME NEW size \in Int
    PROVE  Bucket(size) \in Buckets
BY ExpType, SizeAssumption DEF Bucket, Buckets

(* A list's index is not the one of a tag on no list. *)
LEMMA Bucketed ==
    ASSUME NEW i \in Buckets
    PROVE  i \in Int /\ i >= 0 /\ i # -1
BY SizeAssumption DEF Buckets

-----------------------------------------------------------------------------
(* What the helpers of liballoc.c do to each tag. *)

Typed(h) ==
    /\ DOMAIN h.tag \subseteq Addr
    /\ h.tag \in [DOMAIN h.tag -> Tags]
    /\ h.free \in [Buckets -> Ptr]

(* What a tag holds, and where it may be. *)
LEMMA Fields ==
    ASSUME NEW h, Typed(h), NEW a \in DOMAIN h.tag
    PROVE  /\ a \in Int /\ a >= HeapStart /\ a <= HeapEnd /\ a # NULL /\ a \in Ptr
           /\ h.tag[a].size \in Nat /\ h.tag[a].real_size \in Nat
           /\ h.tag[a].index \in Int /\ h.tag[a].index >= -1
           /\ h.tag[a].split_left \in Ptr /\ h.tag[a].split_right \in Ptr
           /\ h.tag[a].next \in Ptr /\ h.tag[a].prev \in Ptr
BY SizeAssumption, HeapAssumption DEF Typed, Tags, Lists, Addr, Ptr, NULL

(* What a tag says of its block and of its neighbours in memory. *)
Kept(t, u) ==
    /\ t.size = u.size /\ t.real_size = u.real_size
    /\ t.split_left = u.split_left /\ t.split_right = u.split_right

(* What a tag says of its list. *)
Listed(t, u) == t.index = u.index /\ t.next = u.next /\ t.prev = u.prev

Inserted(h, k, a, i) ==
    /\ DOMAIN k.tag = DOMAIN h.tag
    /\ \A b \in DOMAIN h.tag :
          /\ Kept(k.tag[b], h.tag[b])
          /\ k.tag[b].index = IF b = a THEN i ELSE h.tag[b].index
          /\ k.tag[b].next = IF b = a /\ h.free[i] # NULL THEN h.free[i] ELSE h.tag[b].next
          /\ k.tag[b].prev = IF b = h.free[i] THEN a ELSE h.tag[b].prev
    /\ \A j \in Buckets : k.free[j] = IF j = i THEN a ELSE h.free[j]
    /\ k.complete = h.complete

(* insert_tag makes the tag the head of list i, in front of the old head. *)
LEMMA InsertTag ==
    ASSUME NEW h, Typed(h), NEW a \in DOMAIN h.tag, NEW i \in Buckets
    PROVE  /\ Typed(insert_tag(h, a, i))
           /\ Inserted(h, insert_tag(h, a, i), a, i)
<1> DEFINE k == insert_tag(h, a, i)
           Of(b) == [h.tag[b] EXCEPT
                       !.index = IF b = a THEN i ELSE @,
                       !.next  = IF b = a /\ h.free[i] # NULL THEN h.free[i] ELSE @,
                       !.prev  = IF b = h.free[i] THEN a ELSE @]
<1>1. /\ k.tag = [b \in DOMAIN h.tag |-> Of(b)]
      /\ k.free = [h.free EXCEPT ![i] = a]
      /\ k.complete = h.complete
  BY DEF insert_tag, HeapOf
<1>2. a \in Ptr /\ i \in Lists /\ h.free[i] \in Ptr
  BY SizeAssumption DEF Typed, Ptr, Lists, Buckets
<1>3. ASSUME NEW b \in DOMAIN h.tag
      PROVE  /\ Of(b) \in Tags
             /\ Kept(Of(b), h.tag[b])
             /\ Of(b).index = IF b = a THEN i ELSE h.tag[b].index
             /\ Of(b).next = IF b = a /\ h.free[i] # NULL THEN h.free[i] ELSE h.tag[b].next
             /\ Of(b).prev = IF b = h.free[i] THEN a ELSE h.tag[b].prev
  <2>1. h.tag[b] \in Tags
    BY DEF Typed
  <2> QED
    BY <1>2, <2>1 DEF Tags, Kept
<1> HIDE DEF k, Of
<1>4. k.free \in [Buckets -> Ptr]
  BY <1>1, <1>2 DEF Typed
<1>5. Inserted(h, k, a, i)
  <2>1. DOMAIN k.tag = DOMAIN h.tag /\ \A b \in DOMAIN h.tag : k.tag[b] = Of(b)
    BY <1>1
  <2>2. \A j \in Buckets : k.free[j] = IF j = i THEN a ELSE h.free[j]
    BY <1>1 DEF Typed
  <2> QED
    BY <1>1, <1>3, <2>1, <2>2 DEF Inserted
<1>6. Typed(k)
  BY <1>1, <1>3, <1>4 DEF Typed
<1> QED
  BY <1>5, <1>6 DEF k

Removed(h, k, a) ==
    LET t == h.tag[a]
    IN  /\ DOMAIN k.tag = DOMAIN h.tag
        /\ \A b \in DOMAIN h.tag :
              /\ Kept(k.tag[b], h.tag[b])
              /\ k.tag[b].index = IF b = a THEN -1 ELSE h.tag[b].index
              /\ k.tag[b].next = IF b = a THEN NULL
                                 ELSE IF b = t.prev THEN t.next ELSE h.tag[b].next
              /\ k.tag[b].prev = IF b = a THEN NULL
                                 ELSE IF b = t.next THEN t.prev ELSE h.tag[b].prev
        /\ \A j \in Buckets :
              k.free[j] = IF j = t.index /\ h.free[j] = a THEN t.next ELSE h.free[j]
        /\ k.complete = h.complete

(* remove_tag takes the tag out from between its two neighbours on the list. *)
LEMMA RemoveTag ==
    ASSUME NEW h, Typed(h), NEW a \in DOMAIN h.tag
    PROVE  /\ Typed(remove_tag(h, a))
           /\ Removed(h, remove_tag(h, a), a)
<1> DEFINE k == remove_tag(h, a)
           t == h.tag[a]
           Of(b) == [h.tag[b] EXCEPT
                       !.index = IF b = a THEN -1 ELSE @,
                       !.next  = IF b = a THEN NULL ELSE IF b = t.prev THEN t.next ELSE @,
                       !.prev  = IF b = a THEN NULL ELSE IF b = t.next THEN t.prev ELSE @]
           Head(j) == IF j = t.index /\ h.free[j] = a THEN t.next ELSE h.free[j]
<1>1. /\ k.tag = [b \in DOMAIN h.tag |-> Of(b)]
      /\ k.free = [j \in Buckets |-> Head(j)]
      /\ k.complete = h.complete
  BY DEF remove_tag, HeapOf
<1>2. t \in Tags /\ NULL \in Ptr /\ -1 \in Lists
  BY SizeAssumption DEF Typed, Ptr, Lists
<1>3. ASSUME NEW b \in DOMAIN h.tag
      PROVE  /\ Of(b) \in Tags
             /\ Kept(Of(b), h.tag[b])
             /\ Of(b).index = IF b = a THEN -1 ELSE h.tag[b].index
             /\ Of(b).next = IF b = a THEN NULL
                             ELSE IF b = t.prev THEN t.next ELSE h.tag[b].next
             /\ Of(b).prev = IF b = a THEN NULL
                             ELSE IF b = t.next THEN t.prev ELSE h.tag[b].prev
  <2>1. h.tag[b] \in Tags
    BY DEF Typed
  <2> QED
    BY <1>2, <2>1 DEF Tags, Kept
<1>4. \A j \in Buckets : Head(j) \in Ptr
  BY <1>2 DEF Typed, Tags
<1> HIDE DEF k, Of, Head
<1>5. k.free \in [Buckets -> Ptr]
  BY <1>1, <1>4
<1>6. Removed(h, k, a)
  <2>1. DOMAIN k.tag = DOMAIN h.tag /\ \A b \in DOMAIN h.tag : k.tag[b] = Of(b)
    BY <1>1
  <2>2. \A j \in Buckets :
           k.free[j] = IF j = t.index /\ h.free[j] = a THEN t.next ELSE h.free[j]
    BY <1>1 DEF Head
  <2> QED
    BY <1>1, <1>3, <2>1, <2>2 DEF Removed
<1>7. Typed(k)
  BY <1>1, <1>3, <1>5 DEF Typed
<1> QED
  BY <1>6, <1>7 DEF k

Joined(h, k, left, right) ==
    LET t == h.tag[right]
    IN  /\ DOMAIN k.tag = DOMAIN h.tag \ {right}
        /\ \A b \in DOMAIN h.tag \ {right} :
              /\ Listed(k.tag[b], h.tag[b])
              /\ k.tag[b].size = h.tag[b].size
              /\ k.tag[b].real_size = IF b = left THEN h.tag[b].real_size + t.real_size
                                      ELSE h.tag[b].real_size
              /\ k.tag[b].split_right = IF b = left THEN t.split_right
                                        ELSE h.tag[b].split_right
              /\ k.tag[b].split_left = IF b = t.split_right THEN left
                                       ELSE h.tag[b].split_left
        /\ k.free = h.free
        /\ k.complete = h.complete

(* melt_left and absorb_right give the left tag the room of the right one, and what
   is beyond it as its neighbour. *)
LEMMA JoinTags ==
    ASSUME NEW h, Typed(h), NEW left \in DOMAIN h.tag, NEW right \in DOMAIN h.tag
    PROVE  /\ Typed(Join(h, left, right))
           /\ Joined(h, Join(h, left, right), left, right)
<1> DEFINE k == Join(h, left, right)
           t == h.tag[right]
           D == DOMAIN h.tag \ {right}
           Of(b) == [h.tag[b] EXCEPT
                       !.real_size   = IF b = left THEN @ + t.real_size ELSE @,
                       !.split_right = IF b = left THEN t.split_right ELSE @,
                       !.split_left  = IF b = t.split_right THEN left ELSE @]
<1>1. /\ k.tag = [b \in D |-> Of(b)]
      /\ k.free = h.free
      /\ k.complete = h.complete
  BY DEF Join, HeapOf
<1>2. t \in Tags /\ left \in Ptr
  BY DEF Typed, Ptr
<1>3. ASSUME NEW b \in D
      PROVE  /\ Of(b) \in Tags
             /\ Listed(Of(b), h.tag[b])
             /\ Of(b).size = h.tag[b].size
             /\ Of(b).real_size = IF b = left THEN h.tag[b].real_size + t.real_size
                                  ELSE h.tag[b].real_size
             /\ Of(b).split_right = IF b = left THEN t.split_right ELSE h.tag[b].split_right
             /\ Of(b).split_left = IF b = t.split_right THEN left ELSE h.tag[b].split_left
  <2>1. h.tag[b] \in Tags
    BY DEF Typed
  <2> DEFINE n == IF b = left THEN h.tag[b].real_size + t.real_size ELSE h.tag[b].real_size
             r == IF b = left THEN t.split_right ELSE h.tag[b].split_right
             l == IF b = t.split_right THEN left ELSE h.tag[b].split_left
  <2>2. n \in Nat /\ r \in Ptr /\ l \in Ptr
    BY <1>2, <2>1 DEF Tags
  <2>3. Of(b) = [h.tag[b] EXCEPT !.real_size = n, !.split_right = r, !.split_left = l]
    OBVIOUS
  <2> HIDE DEF Of, n, r, l
  <2>4. /\ Of(b) \in Tags /\ Listed(Of(b), h.tag[b]) /\ Of(b).size = h.tag[b].size
        /\ Of(b).real_size = n /\ Of(b).split_right = r /\ Of(b).split_left = l
    BY <2>1, <2>2, <2>3 DEF Tags, Listed
  <2> QED
    BY <2>4 DEF n, r, l
<1> HIDE DEF k, Of
<1>4. Joined(h, k, left, right)
  <2>1. DOMAIN k.tag = D /\ \A b \in D : k.tag[b] = Of(b)
    BY <1>1
  <2> QED
    BY <1>1, <1>3, <2>1 DEF Joined
<1>5. Typed(k)
  BY <1>1, <1>3 DEF Typed
<1> QED
  BY <1>4, <1>5 DEF k

(* A heap m in which new has been cut off a, and is on no list yet. *)
Cut(h, m, a, new, rest) ==
    LET t == h.tag[a]
    IN  /\ DOMAIN m.tag = DOMAIN h.tag \cup {new}
        /\ m.tag[new] = [size |-> 0, real_size |-> rest, index |-> -1,
                         split_left |-> a, split_right |-> t.split_right,
                         next |-> NULL, prev |-> NULL]
        /\ \A b \in DOMAIN h.tag :
              /\ Listed(m.tag[b], h.tag[b])
              /\ m.tag[b].size = h.tag[b].size
              /\ m.tag[b].real_size = IF b = a THEN h.tag[b].real_size - rest
                                      ELSE h.tag[b].real_size
              /\ m.tag[b].split_right = IF b = a THEN new ELSE h.tag[b].split_right
              /\ m.tag[b].split_left = IF b = t.split_right THEN new
                                       ELSE h.tag[b].split_left
        /\ m.free = h.free
        /\ m.complete = h.complete

(* split_tag leaves a block with what was asked for, and makes a tag of the rest. *)
LEMMA CutTag ==
    ASSUME NEW h, Typed(h), NEW a \in DOMAIN h.tag,
           NEW new, new = a + TagSize + h.tag[a].size,
           NEW rest, rest = h.tag[a].real_size - TagSize - h.tag[a].size,
           new \in Addr, new \notin DOMAIN h.tag, rest > 0
    PROVE  \E m : /\ Typed(m) /\ Cut(h, m, a, new, rest)
                  /\ split_tag(h, a) = insert_tag(m, new, Bucket(rest - TagSize))
<1> DEFINE t == h.tag[a]
           fresh == [size |-> 0, real_size |-> rest, index |-> -1,
                     split_left |-> a, split_right |-> t.split_right,
                     next |-> NULL, prev |-> NULL]
           Of(b) == [h.tag[b] EXCEPT
                       !.real_size   = IF b = a THEN @ - rest ELSE @,
                       !.split_right = IF b = a THEN new ELSE @,
                       !.split_left  = IF b = t.split_right THEN new ELSE @]
           D == DOMAIN h.tag \cup {new}
           m == HeapOf([b \in D |-> IF b = new THEN fresh ELSE Of(b)], h.free, h.complete)
<1>1. split_tag(h, a) = insert_tag(m, new, Bucket(rest - TagSize))
  BY DEF split_tag
<1>2. /\ m.tag = [b \in D |-> IF b = new THEN fresh ELSE Of(b)]
      /\ m.free = h.free
      /\ m.complete = h.complete
  BY DEF HeapOf
<1>3. t \in Tags /\ a \in Ptr /\ new \in Ptr /\ a \in Int
  BY HeapAssumption DEF Typed, Ptr, Addr
<1>4. rest \in Nat /\ t.real_size - rest \in Nat
  BY <1>3, SizeAssumption DEF Tags
<1>5. fresh \in Tags
  BY <1>3, <1>4, SizeAssumption DEF Tags, Ptr, Lists
<1>6. ASSUME NEW b \in DOMAIN h.tag
      PROVE  /\ Of(b) \in Tags
             /\ Listed(Of(b), h.tag[b])
             /\ Of(b).size = h.tag[b].size
             /\ Of(b).real_size = IF b = a THEN h.tag[b].real_size - rest
                                  ELSE h.tag[b].real_size
             /\ Of(b).split_right = IF b = a THEN new ELSE h.tag[b].split_right
             /\ Of(b).split_left = IF b = t.split_right THEN new ELSE h.tag[b].split_left
  <2>1. h.tag[b] \in Tags
    BY DEF Typed
  <2> DEFINE n == IF b = a THEN h.tag[b].real_size - rest ELSE h.tag[b].real_size
             r == IF b = a THEN new ELSE h.tag[b].split_right
             l == IF b = t.split_right THEN new ELSE h.tag[b].split_left
  <2>2. n \in Nat /\ r \in Ptr /\ l \in Ptr
    BY <1>3, <1>4, <2>1 DEF Tags
  <2>3. Of(b) = [h.tag[b] EXCEPT !.real_size = n, !.split_right = r, !.split_left = l]
    OBVIOUS
  <2> HIDE DEF Of, n, r, l
  <2>4. /\ Of(b) \in Tags /\ Listed(Of(b), h.tag[b]) /\ Of(b).size = h.tag[b].size
        /\ Of(b).real_size = n /\ Of(b).split_right = r /\ Of(b).split_left = l
    BY <2>1, <2>2, <2>3 DEF Tags, Listed
  <2> QED
    BY <2>4 DEF n, r, l
<1> HIDE DEF m, Of, fresh
<1>7. Cut(h, m, a, new, rest)
  <2>1. /\ DOMAIN m.tag = D /\ m.tag[new] = fresh
        /\ \A b \in DOMAIN h.tag : m.tag[b] = Of(b)
    BY <1>2
  <2> QED
    BY <1>2, <1>6, <2>1 DEF Cut, fresh
<1>8. Typed(m)
  BY <1>2, <1>5, <1>6 DEF Typed
<1> QED
  BY <1>1, <1>7, <1>8

(* A heap k that differs from h in the size a was handed out for. *)
Sized(h, k, a, size) ==
    /\ DOMAIN k.tag = DOMAIN h.tag
    /\ \A b \in DOMAIN h.tag :
          /\ Listed(k.tag[b], h.tag[b])
          /\ k.tag[b].real_size = h.tag[b].real_size
          /\ k.tag[b].split_left = h.tag[b].split_left
          /\ k.tag[b].split_right = h.tag[b].split_right
          /\ k.tag[b].size = IF b = a THEN size ELSE h.tag[b].size
    /\ k.free = h.free
    /\ k.complete = h.complete

(* The size malloc writes changes nothing else. *)
LEMMA SizeTag ==
    ASSUME NEW h, Typed(h), NEW a \in DOMAIN h.tag, NEW size \in Nat,
           NEW k, k = HeapOf([h.tag EXCEPT ![a].size = size], h.free, h.complete)
    PROVE  Typed(k) /\ Sized(h, k, a, size)
<1> DEFINE u == [h.tag[a] EXCEPT !.size = size]
<1>1. /\ k.tag = [h.tag EXCEPT ![a] = u]
      /\ k.free = h.free /\ k.complete = h.complete
  BY DEF HeapOf
<1>2. u \in Tags /\ Listed(u, h.tag[a]) /\ u.size = size
      /\ u.real_size = h.tag[a].real_size
      /\ u.split_left = h.tag[a].split_left /\ u.split_right = h.tag[a].split_right
  <2>1. h.tag[a] \in Tags
    BY DEF Typed
  <2> QED
    BY <2>1 DEF Tags, Listed
<1> HIDE DEF u
<1>3. \A b \in DOMAIN h.tag : k.tag[b] = IF b = a THEN u ELSE h.tag[b]
  BY <1>1 DEF Typed
<1>4. DOMAIN k.tag = DOMAIN h.tag /\ k.tag \in [DOMAIN h.tag -> Tags]
  BY <1>1, <1>2 DEF Typed
<1>5. Sized(h, k, a, size)
  BY <1>1, <1>2, <1>3, <1>4 DEF Sized, Listed
<1>6. Typed(k)
  BY <1>1, <1>4 DEF Typed
<1> QED
  BY <1>5, <1>6

-----------------------------------------------------------------------------
(* What a heap is like between two calls, part by part. *)

Chains(h) ==
    /\ \A i \in Buckets : h.free[i] # NULL =>
          /\ h.free[i] \in DOMAIN h.tag
          /\ h.tag[h.free[i]].index = i /\ h.tag[h.free[i]].prev = NULL
    /\ \A a \in DOMAIN h.tag :
          LET t == h.tag[a]
          IN  /\ t.index < 0 => t.next = NULL /\ t.prev = NULL
              /\ t.index >= 0 => /\ t.index = Bucket(t.real_size - TagSize)
                                 /\ t.prev = NULL => h.free[t.index] = a
              /\ t.next # NULL => /\ t.next \in DOMAIN h.tag
                                  /\ h.tag[t.next].prev = a
                                  /\ h.tag[t.next].index = t.index
              /\ t.prev # NULL => t.prev \in DOMAIN h.tag /\ h.tag[t.prev].next = a

Behind(h) == {a \in DOMAIN h.tag : h.tag[a].prev # NULL}

Acyclic(h) ==
    \A S \in SUBSET Behind(h) : S # {} => \E a \in S : h.tag[a].prev \notin S

Mirrored(h) ==
    \A a \in DOMAIN h.tag :
        LET b == h.tag[a].split_right
            z == h.tag[a].split_left
        IN  /\ b # NULL => /\ b \in DOMAIN h.tag /\ h.tag[b].split_left = a
                           /\ b = a + h.tag[a].real_size
            /\ z # NULL => z \in DOMAIN h.tag /\ h.tag[z].split_right = a

(* Blocks follow one another, fill what was obtained and not given back, and
   have room for what was asked for. *)
Within(h, a, x) == a <= x /\ x < a + h.tag[a].real_size

Tiles(h, end, gone) ==
    /\ \A a \in DOMAIN h.tag : h.tag[a].size + TagSize <= h.tag[a].real_size
    /\ \A a, b \in DOMAIN h.tag : a < b => a + h.tag[a].real_size <= b
    /\ \A x \in Int :
          HeapStart <= x /\ x < end
              <=> x \in gone \/ \E a \in DOMAIN h.tag : Within(h, a, x)
    /\ \A a \in DOMAIN h.tag, x \in gone : ~Within(h, a, x)

(* From where a run of pages begins to where one ends there is at least as much as
   malloc asks for at a time. *)
Spaced(h) ==
    \A a, b \in DOMAIN h.tag :
        h.tag[a].split_left = NULL /\ h.tag[b].split_right = NULL /\ a <= b
          => a + RunBytes <= b + h.tag[b].real_size

-----------------------------------------------------------------------------
(* The lists, when a tag is put on one or taken off. *)

(* The lists stay chains when a tag that was on none becomes the head of one. *)
LEMMA InsertChains ==
    ASSUME NEW h, NEW k, NEW a \in DOMAIN h.tag, NEW i \in Buckets,
           Typed(h), Typed(k), Inserted(h, k, a, i), Chains(h),
           h.tag[a].index = -1, i = Bucket(h.tag[a].real_size - TagSize)
    PROVE  Chains(k)
<1>1. /\ a # NULL /\ \A b \in DOMAIN h.tag : b # NULL
      /\ \A b \in DOMAIN h.tag : h.tag[b].index \in Int
  BY Fields
<1>2. i \in Int /\ i >= 0 /\ i # -1 /\ \A j \in Buckets : h.free[j] # a
  BY <1>1, Bucketed DEF Chains
<1>3. \A b \in DOMAIN h.tag : k.tag[b].real_size = h.tag[b].real_size
  BY DEF Inserted, Kept
<1>4. ASSUME NEW j \in Buckets, k.free[j] # NULL
      PROVE  /\ k.free[j] \in DOMAIN k.tag
             /\ k.tag[k.free[j]].index = j /\ k.tag[k.free[j]].prev = NULL
  <2>1. CASE j = i
    BY <2>1, <1>1, <1>2 DEF Inserted, Chains
  <2>2. CASE j # i
    BY <2>2, <1>1, <1>2, <1>4 DEF Inserted, Chains
  <2> QED
    BY <2>1, <2>2
<1>5. ASSUME NEW b \in DOMAIN k.tag
      PROVE  LET t == k.tag[b]
             IN  /\ t.index < 0 => t.next = NULL /\ t.prev = NULL
                 /\ t.index >= 0 => /\ t.index = Bucket(t.real_size - TagSize)
                                    /\ t.prev = NULL => k.free[t.index] = b
                 /\ t.next # NULL => /\ t.next \in DOMAIN k.tag
                                     /\ k.tag[t.next].prev = b
                                     /\ k.tag[t.next].index = t.index
                 /\ t.prev # NULL => t.prev \in DOMAIN k.tag /\ k.tag[t.prev].next = b
  <2>1. b \in DOMAIN h.tag
    BY DEF Inserted
  <2>2. CASE b = a
    <3>1. h.tag[a].next = NULL /\ h.tag[a].prev = NULL /\ a # h.free[i]
      BY <1>2 DEF Chains
    <3>2. /\ k.tag[a].index = i /\ k.tag[a].next = h.free[i] /\ k.tag[a].prev = NULL
          /\ k.free[i] = a
      BY <3>1 DEF Inserted
    <3>3. h.free[i] # NULL => /\ h.free[i] \in DOMAIN k.tag
                              /\ k.tag[h.free[i]].prev = a
                              /\ k.tag[h.free[i]].index = i
      BY <3>1 DEF Inserted, Chains
    <3> QED
      BY <2>2, <3>2, <3>3, <1>2, <1>3
  <2>3. CASE b = h.free[i] /\ b # a
    <3>1. /\ h.tag[b].index = i /\ h.tag[b].prev = NULL /\ b # NULL
          /\ i = Bucket(h.tag[b].real_size - TagSize)
      BY <2>1, <2>3, <1>1, <1>2 DEF Chains
    <3>2. /\ k.tag[b].index = i /\ k.tag[b].next = h.tag[b].next /\ k.tag[b].prev = a
          /\ k.tag[a].next = b
      BY <2>1, <2>3, <3>1 DEF Inserted
    <3>3. h.tag[b].next # NULL => /\ h.tag[b].next \in DOMAIN h.tag
                                  /\ h.tag[h.tag[b].next].prev = b
                                  /\ h.tag[h.tag[b].next].index = i
      BY <2>1, <3>1 DEF Chains
    <3>4. h.tag[b].next # NULL => h.tag[b].next # b /\ h.tag[b].next # a
      BY <3>1, <3>3, <1>2
    <3>5. h.tag[b].next # NULL => /\ h.tag[b].next \in DOMAIN k.tag
                                  /\ k.tag[h.tag[b].next].prev = b
                                  /\ k.tag[h.tag[b].next].index = i
      BY <2>3, <3>3, <3>4 DEF Inserted
    <3>6. a \in DOMAIN k.tag
      BY DEF Inserted
    <3> QED
      BY <2>1, <3>1, <3>2, <3>5, <3>6, <1>1, <1>2, <1>3
  <2>4. CASE b # h.free[i] /\ b # a
    <3>1. /\ k.tag[b].index = h.tag[b].index /\ k.tag[b].next = h.tag[b].next
          /\ k.tag[b].prev = h.tag[b].prev
      BY <2>1, <2>4 DEF Inserted
    <3>2. h.tag[b].next # a /\ h.tag[b].prev # a
      BY <2>1, <1>1 DEF Chains
    <3>3. h.tag[b].next # NULL => h.tag[b].next # h.free[i]
      BY <2>1, <1>1 DEF Chains
    <3>4. h.tag[b].index >= 0 =>
             h.tag[b].index \in Buckets /\ h.tag[b].index = Bucket(h.tag[b].real_size - TagSize)
      BY <2>1, BucketType, Fields, SizeAssumption DEF Chains
    <3>5. k.tag[b].index < 0 => k.tag[b].next = NULL /\ k.tag[b].prev = NULL
      BY <2>1, <3>1 DEF Chains
    <3>6. k.tag[b].index >= 0 =>
             /\ k.tag[b].index = Bucket(k.tag[b].real_size - TagSize)
             /\ k.tag[b].prev = NULL => k.free[k.tag[b].index] = b
      BY <2>1, <2>4, <3>1, <3>4, <1>3 DEF Inserted, Chains
    <3>7. k.tag[b].next # NULL => /\ k.tag[b].next \in DOMAIN k.tag
                                  /\ k.tag[k.tag[b].next].prev = b
                                  /\ k.tag[k.tag[b].next].index = k.tag[b].index
      BY <2>1, <3>1, <3>2, <3>3 DEF Inserted, Chains
    <3>8. k.tag[b].prev # NULL =>
             k.tag[b].prev \in DOMAIN k.tag /\ k.tag[k.tag[b].prev].next = b
      BY <2>1, <3>1, <3>2 DEF Inserted, Chains
    <3> QED
      BY <3>5, <3>6, <3>7, <3>8
  <2> QED
    BY <2>2, <2>3, <2>4
<1> QED
  BY <1>4, <1>5 DEF Chains

(* A new head closes no cycle: nothing is in front of it. *)
LEMMA InsertAcyclic ==
    ASSUME NEW h, NEW k, NEW a \in DOMAIN h.tag, NEW i \in Buckets,
           Typed(h), Inserted(h, k, a, i), Chains(h), h.tag[a].index = -1, Acyclic(h)
    PROVE  Acyclic(k)
<1>1. h.tag[a].prev = NULL /\ a # NULL /\ a # h.free[i]
  BY Fields, Bucketed DEF Chains
<1>2. SUFFICES ASSUME NEW S \in SUBSET Behind(k), S # {}
               PROVE  \E b \in S : k.tag[b].prev \notin S
  BY DEF Acyclic
<1>3. a \notin S
  BY <1>1 DEF Behind, Inserted
<1>4. CASE h.free[i] \in S
  BY <1>3, <1>4 DEF Behind, Inserted
<1>5. CASE h.free[i] \notin S
  <2>1. \A b \in S : b \in DOMAIN h.tag /\ k.tag[b].prev = h.tag[b].prev
    BY <1>5 DEF Behind, Inserted
  <2>2. S \in SUBSET Behind(h)
    BY <2>1 DEF Behind
  <2> QED
    BY <1>2, <2>1, <2>2 DEF Acyclic
<1> QED
  BY <1>4, <1>5

(* The lists stay chains when a tag is taken out. *)
LEMMA RemoveChains ==
    ASSUME NEW h, NEW k, NEW a \in DOMAIN h.tag,
           Typed(h), Removed(h, k, a), Chains(h), h.tag[a].index >= 0
    PROVE  Chains(k)
<1> DEFINE t == h.tag[a]
<1>1. /\ a # NULL /\ \A b \in DOMAIN h.tag : b # NULL
      /\ \A b \in DOMAIN h.tag : h.tag[b].index \in Int
      /\ t.index \in Buckets
  BY Fields, BucketType, SizeAssumption DEF Chains
<1>2. \A b \in DOMAIN h.tag : k.tag[b].real_size = h.tag[b].real_size
  BY DEF Removed, Kept
<1>3. /\ t.next # NULL => /\ t.next \in DOMAIN h.tag /\ h.tag[t.next].prev = a
                          /\ h.tag[t.next].index = t.index
      /\ t.prev # NULL => /\ t.prev \in DOMAIN h.tag /\ h.tag[t.prev].next = a
                          /\ h.tag[t.prev].index = t.index
      /\ h.free[t.index] = a <=> t.prev = NULL
  BY <1>1 DEF Chains
<1>4. ASSUME NEW j \in Buckets, k.free[j] # NULL
      PROVE  /\ k.free[j] \in DOMAIN k.tag
             /\ k.tag[k.free[j]].index = j /\ k.tag[k.free[j]].prev = NULL
  <2>1. CASE j = t.index /\ h.free[j] = a
    BY <2>1, <1>1, <1>3, <1>4 DEF Removed
  <2>2. CASE ~(j = t.index /\ h.free[j] = a)
    BY <2>2, <1>1, <1>3, <1>4 DEF Removed, Chains
  <2> QED
    BY <2>1, <2>2
<1>5. ASSUME NEW b \in DOMAIN k.tag
      PROVE  LET u == k.tag[b]
             IN  /\ u.index < 0 => u.next = NULL /\ u.prev = NULL
                 /\ u.index >= 0 => /\ u.index = Bucket(u.real_size - TagSize)
                                    /\ u.prev = NULL => k.free[u.index] = b
                 /\ u.next # NULL => /\ u.next \in DOMAIN k.tag
                                     /\ k.tag[u.next].prev = b
                                     /\ k.tag[u.next].index = u.index
                 /\ u.prev # NULL => u.prev \in DOMAIN k.tag /\ k.tag[u.prev].next = b
  <2>1. b \in DOMAIN h.tag
    BY DEF Removed
  <2>2. CASE b = a
    BY <2>1, <2>2, <1>1 DEF Removed
  <2>3. CASE b # a
    <3> DEFINE w == h.tag[b]
               u == k.tag[b]
    <3>1. /\ u.index = w.index /\ u.real_size = w.real_size
          /\ u.next = IF b = t.prev THEN t.next ELSE w.next
          /\ u.prev = IF b = t.next THEN t.prev ELSE w.prev
      BY <2>1, <2>3, <1>2 DEF Removed
    <3>2. /\ w.next = a <=> b = t.prev
          /\ w.prev = a <=> b = t.next
      BY <2>1, <1>1 DEF Chains
    <3>3. w.index >= 0 => w.index \in Buckets /\ w.index = Bucket(w.real_size - TagSize)
      BY <2>1, BucketType, Fields, SizeAssumption DEF Chains
    <3>4. w.index < 0 => w.next = NULL /\ w.prev = NULL
      BY <2>1 DEF Chains
    <3>5. u.index < 0 => u.next = NULL /\ u.prev = NULL
      BY <3>1, <3>2, <3>4, <1>1
    <3>6. ASSUME u.index >= 0, u.prev = NULL
          PROVE  k.free[u.index] = b
      <4>1. CASE b = t.next
        BY <4>1, <3>1, <3>3, <3>6, <1>1, <1>3 DEF Removed
      <4>2. CASE b # t.next
        BY <4>2, <2>1, <2>3, <3>1, <3>3, <3>6 DEF Removed, Chains
      <4> QED
        BY <4>1, <4>2
    <3>7. ASSUME u.next # NULL
          PROVE  /\ u.next \in DOMAIN k.tag
                 /\ k.tag[u.next].prev = b /\ k.tag[u.next].index = u.index
      <4>1. CASE b = t.prev
        <5>1. u.next = t.next /\ t.next # NULL /\ t.next # a
          BY <4>1, <3>1, <3>7, <1>1, <1>3, <2>1, <2>3
        <5> QED
          BY <4>1, <5>1, <3>1, <1>1, <1>3 DEF Removed
      <4>2. CASE b # t.prev
        <5>1. u.next = w.next /\ w.next # a /\ w.next # NULL
          BY <4>2, <3>1, <3>2, <3>7
        <5>2. w.next \in DOMAIN h.tag /\ h.tag[w.next].prev = b /\ h.tag[w.next].index = w.index
          BY <5>1, <2>1 DEF Chains
        <5>3. w.next # t.next
          BY <5>1, <5>2, <1>3, <2>3
        <5> QED
          BY <5>1, <5>2, <5>3, <3>1 DEF Removed
      <4> QED
        BY <4>1, <4>2
    <3>8. ASSUME u.prev # NULL
          PROVE  u.prev \in DOMAIN k.tag /\ k.tag[u.prev].next = b
      <4>1. CASE b = t.next
        <5>1. u.prev = t.prev /\ t.prev # NULL /\ t.prev # a
          BY <4>1, <3>1, <3>8, <1>1, <1>3, <2>1, <2>3
        <5> QED
          BY <4>1, <5>1, <1>1, <1>3 DEF Removed
      <4>2. CASE b # t.next
        <5>1. u.prev = w.prev /\ w.prev # a /\ w.prev # NULL
          BY <4>2, <3>1, <3>2, <3>8
        <5>2. w.prev \in DOMAIN h.tag /\ h.tag[w.prev].next = b
          BY <5>1, <2>1 DEF Chains
        <5>3. w.prev # t.prev
          BY <5>1, <5>2, <1>3, <2>3
        <5> QED
          BY <5>1, <5>2, <5>3 DEF Removed
      <4> QED
        BY <4>1, <4>2
    <3> QED
      BY <3>1, <3>3, <3>5, <3>6, <3>7, <3>8
  <2> QED
    BY <2>2, <2>3
<1> QED
  BY <1>4, <1>5 DEF Chains

(* Taking a tag out closes no cycle: a set of tags that went round without it would
   have gone round with it. *)
LEMMA RemoveAcyclic ==
    ASSUME NEW h, NEW k, NEW a \in DOMAIN h.tag,
           Typed(h), Removed(h, k, a), Chains(h), Acyclic(h)
    PROVE  Acyclic(k)
<1> DEFINE p == h.tag[a].prev
           n == h.tag[a].next
<1>1. SUFFICES ASSUME NEW S \in SUBSET Behind(k), S # {}
               PROVE  \E b \in S : k.tag[b].prev \notin S
  BY DEF Acyclic
<1>2. a \notin S /\ \A b \in S : b \in DOMAIN h.tag /\ k.tag[b].prev # NULL
  BY DEF Behind, Removed
<1>3. \A b \in S : k.tag[b].prev = IF b = n THEN p ELSE h.tag[b].prev
  BY <1>2 DEF Removed
<1>4. CASE n \in S
  <2>1. n \in DOMAIN h.tag /\ h.tag[n].prev = a /\ p # NULL /\ n # NULL /\ a # NULL
    BY <1>2, <1>3, <1>4, Fields DEF Chains
  <2>2. S \cup {a} \in SUBSET Behind(h)
    BY <1>2, <1>3, <2>1 DEF Behind
  <2>3. PICK b \in S \cup {a} : h.tag[b].prev \notin S \cup {a}
    BY <2>2 DEF Acyclic
  <2>4. CASE b = a
    BY <2>3, <2>4, <1>3, <1>4
  <2>5. CASE b # a
    BY <2>1, <2>3, <2>5, <1>3
  <2> QED
    BY <2>4, <2>5
<1>5. CASE n \notin S
  <2>1. S \in SUBSET Behind(h) /\ \A b \in S : k.tag[b].prev = h.tag[b].prev
    BY <1>2, <1>3, <1>5 DEF Behind
  <2> QED
    BY <2>1, <1>1 DEF Acyclic
<1> QED
  BY <1>4, <1>5

-----------------------------------------------------------------------------
(* Changes of blocks that are on no list leave the lists as they are. *)

SameLists(h, k) ==
    /\ k.free = h.free
    /\ \A b \in DOMAIN h.tag \cap DOMAIN k.tag :
          /\ Listed(k.tag[b], h.tag[b])
          /\ h.tag[b].index >= 0 => k.tag[b].real_size = h.tag[b].real_size
    /\ \A b \in DOMAIN h.tag \ DOMAIN k.tag : h.tag[b].index = -1
    /\ \A b \in DOMAIN k.tag \ DOMAIN h.tag :
          k.tag[b].index = -1 /\ k.tag[b].next = NULL /\ k.tag[b].prev = NULL

(* The links and heads of the lists depend on the tags on them only. *)
LEMMA ChainsKept ==
    ASSUME NEW h, NEW k, Typed(h), Typed(k), SameLists(h, k), Chains(h)
    PROVE  Chains(k)
<1>1. \A b \in DOMAIN h.tag : h.tag[b].index >= 0 => b \in DOMAIN k.tag
  BY DEF SameLists
<1>2. ASSUME NEW j \in Buckets, k.free[j] # NULL
      PROVE  /\ k.free[j] \in DOMAIN k.tag
             /\ k.tag[k.free[j]].index = j /\ k.tag[k.free[j]].prev = NULL
  <2>1. /\ h.free[j] = k.free[j] /\ h.free[j] \in DOMAIN h.tag
        /\ h.tag[h.free[j]].index = j /\ h.tag[h.free[j]].prev = NULL
    BY <1>2 DEF SameLists, Chains
  <2> QED
    BY <2>1, <1>1, Bucketed DEF SameLists, Listed
<1>3. ASSUME NEW b \in DOMAIN k.tag
      PROVE  LET t == k.tag[b]
             IN  /\ t.index < 0 => t.next = NULL /\ t.prev = NULL
                 /\ t.index >= 0 => /\ t.index = Bucket(t.real_size - TagSize)
                                    /\ t.prev = NULL => k.free[t.index] = b
                 /\ t.next # NULL => /\ t.next \in DOMAIN k.tag
                                     /\ k.tag[t.next].prev = b
                                     /\ k.tag[t.next].index = t.index
                 /\ t.prev # NULL => t.prev \in DOMAIN k.tag /\ k.tag[t.prev].next = b
  <2>1. CASE b \notin DOMAIN h.tag
    BY <2>1 DEF SameLists
  <2>2. CASE b \in DOMAIN h.tag
    <3> DEFINE t == h.tag[b]
    <3>1. /\ k.tag[b].index = t.index /\ k.tag[b].next = t.next /\ k.tag[b].prev = t.prev
          /\ t.index >= 0 => k.tag[b].real_size = t.real_size
      BY <2>2 DEF SameLists, Listed
    <3>2. /\ t.next # NULL => /\ t.next \in DOMAIN h.tag
                              /\ h.tag[t.next].prev = b /\ h.tag[t.next].index = t.index
          /\ t.prev # NULL => t.prev \in DOMAIN h.tag /\ h.tag[t.prev].next = b
      BY <2>2 DEF Chains
    <3>3. b # NULL /\ t.index \in Int
      BY <2>2, Fields
    <3>4. /\ t.next # NULL => h.tag[t.next].index >= 0
          /\ t.prev # NULL => h.tag[t.prev].index >= 0
      <4>1. \A c \in DOMAIN h.tag : h.tag[c].index \in Int
        BY Fields
      <4> QED
        BY <3>2, <3>3, <4>1 DEF Chains
    <3>5. /\ t.next # NULL => /\ t.next \in DOMAIN k.tag
                              /\ k.tag[t.next].prev = b /\ k.tag[t.next].index = t.index
          /\ t.prev # NULL => t.prev \in DOMAIN k.tag /\ k.tag[t.prev].next = b
      BY <1>1, <3>2, <3>4 DEF SameLists, Listed
    <3>6. /\ t.index < 0 => t.next = NULL /\ t.prev = NULL
          /\ t.index >= 0 => /\ t.index = Bucket(t.real_size - TagSize)
                             /\ t.prev = NULL => k.free[t.index] = b
      BY <2>2 DEF Chains, SameLists
    <3> QED
      BY <3>1, <3>5, <3>6
  <2> QED
    BY <2>1, <2>2
<1> QED
  BY <1>2, <1>3 DEF Chains

(* Tags that are on no list have nothing in front of them. *)
LEMMA AcyclicKept ==
    ASSUME NEW h, NEW k, SameLists(h, k), Acyclic(h)
    PROVE  Acyclic(k)
<1>1. SUFFICES ASSUME NEW S \in SUBSET Behind(k), S # {}
               PROVE  \E b \in S : k.tag[b].prev \notin S
  BY DEF Acyclic
<1>2. \A b \in S : b \in DOMAIN h.tag /\ k.tag[b].prev = h.tag[b].prev /\ k.tag[b].prev # NULL
  BY DEF SameLists, Listed, Behind
<1>3. S \in SUBSET Behind(h)
  BY <1>2 DEF Behind
<1> QED
  BY <1>1, <1>2, <1>3 DEF Acyclic

-----------------------------------------------------------------------------
(* The blocks: their links and their places. *)

(* Changes to lists leave every block where it is. *)
LEMMA BlocksKept ==
    ASSUME NEW h, NEW k, NEW end, NEW gone,
           DOMAIN k.tag = DOMAIN h.tag,
           \A b \in DOMAIN h.tag : Kept(k.tag[b], h.tag[b]),
           Mirrored(h), Tiles(h, end, gone)
    PROVE  Mirrored(k) /\ Tiles(k, end, gone)
<1>1. Mirrored(k)
  BY DEF Mirrored, Kept
<1>2. \A b \in DOMAIN h.tag, x \in Int : Within(k, b, x) <=> Within(h, b, x)
  BY DEF Within, Kept
<1>3. /\ \A a \in DOMAIN k.tag : k.tag[a].size + TagSize <= k.tag[a].real_size
      /\ \A a, b \in DOMAIN k.tag : a < b => a + k.tag[a].real_size <= b
  BY DEF Tiles, Kept
<1>4. \A a \in DOMAIN k.tag, x \in gone : ~Within(k, a, x)
  BY DEF Tiles, Kept, Within
<1>5. \A x \in Int : HeapStart <= x /\ x < end
              <=> x \in gone \/ \E a \in DOMAIN k.tag : Within(k, a, x)
  BY <1>2 DEF Tiles
<1> QED
  BY <1>1, <1>3, <1>4, <1>5 DEF Tiles

(* A block ends where the memory obtained ends, or before. *)
LEMMA Ends ==
    ASSUME NEW h, Typed(h), NEW end \in Int, NEW gone, Tiles(h, end, gone),
           NEW a \in DOMAIN h.tag
    PROVE  /\ HeapStart <= a /\ a < end
           /\ a + h.tag[a].real_size <= end
           /\ h.tag[a].real_size >= TagSize + h.tag[a].size
<1>1. a \in Int /\ h.tag[a].real_size \in Nat /\ h.tag[a].size \in Nat
  BY Fields
<1>2. h.tag[a].size + TagSize <= h.tag[a].real_size
  BY DEF Tiles
<1> DEFINE x == a + h.tag[a].real_size - 1
<1>3. Within(h, a, a) /\ Within(h, a, x) /\ x \in Int
  BY <1>1, <1>2, SizeAssumption DEF Within
<1>4. HeapStart <= a /\ a < end /\ x < end
  BY <1>1, <1>3 DEF Tiles
<1> QED
  BY <1>1, <1>2, <1>4, SizeAssumption

(* Two blocks cut from the same run, right after left. *)
NextTo(h, left, right) ==
    /\ left \in DOMAIN h.tag /\ right \in DOMAIN h.tag
    /\ h.tag[left].split_right = right
    /\ h.tag[right].split_left = left

(* A neighbour begins where the block ends, so it is a different block. *)
LEMMA Neighbours ==
    ASSUME NEW h, Typed(h), NEW end, NEW gone, Mirrored(h), Tiles(h, end, gone),
           NEW left, NEW right, NextTo(h, left, right)
    PROVE  /\ left \in Int /\ right \in Int /\ left < right
           /\ right = left + h.tag[left].real_size
           /\ left # NULL /\ right # NULL
           /\ h.tag[left].real_size \in Nat /\ h.tag[right].real_size \in Nat
           /\ h.tag[left].real_size > 0 /\ h.tag[right].real_size > 0
<1>1. /\ left \in Int /\ right \in Int /\ left # NULL /\ right # NULL
      /\ h.tag[left].real_size \in Nat /\ h.tag[right].real_size \in Nat
      /\ h.tag[left].size \in Nat /\ h.tag[right].size \in Nat
  BY Fields DEF NextTo
<1>2. right = left + h.tag[left].real_size
  BY <1>1 DEF NextTo, Mirrored
<1>3. /\ h.tag[left].size + TagSize <= h.tag[left].real_size
      /\ h.tag[right].size + TagSize <= h.tag[right].real_size
  BY DEF Tiles, NextTo
<1> QED
  BY <1>1, <1>2, <1>3, SizeAssumption

(* The links on both sides of a tag name its neighbours. *)
LEMMA Beside ==
    ASSUME NEW h, Typed(h), Mirrored(h), NEW a \in DOMAIN h.tag
    PROVE  /\ h.tag[a].split_right # NULL => NextTo(h, a, h.tag[a].split_right)
           /\ h.tag[a].split_left # NULL => NextTo(h, h.tag[a].split_left, a)
BY DEF Mirrored, NextTo

(* Joining two neighbours keeps the links of the others, and makes the left one
   the neighbour of what was beyond the right one. *)
LEMMA JoinMirrored ==
    ASSUME NEW h, Typed(h), NEW end, NEW gone, Mirrored(h), Tiles(h, end, gone),
           NEW left, NEW right, NextTo(h, left, right),
           NEW k, Joined(h, k, left, right)
    PROVE  Mirrored(k)
<1> DEFINE t == h.tag[right]
<1>1. /\ left \in Int /\ right \in Int /\ left < right
      /\ right = left + h.tag[left].real_size
      /\ left # NULL /\ right # NULL /\ left # right
      /\ h.tag[left].real_size \in Nat /\ t.real_size \in Nat
      /\ left \in DOMAIN h.tag /\ right \in DOMAIN h.tag
  BY Neighbours DEF NextTo
<1>2. h.tag[left].split_right = right /\ t.split_left = left
  BY DEF NextTo
<1>3. t.split_right # NULL => /\ t.split_right \in DOMAIN h.tag \ {right, left}
                              /\ h.tag[t.split_right].split_left = right
                              /\ t.split_right = right + t.real_size
  <2>1. ASSUME t.split_right # NULL
        PROVE  NextTo(h, right, t.split_right) /\ t.split_right = right + t.real_size
    BY <1>1, <2>1 DEF Mirrored, NextTo
  <2>2. ASSUME t.split_right # NULL
        PROVE  right < t.split_right
    BY <2>1, <2>2, Neighbours
  <2> QED
    BY <2>1, <2>2, <1>1 DEF NextTo
<1>4. ASSUME NEW b \in DOMAIN k.tag
      PROVE  LET r == k.tag[b].split_right
                 z == k.tag[b].split_left
             IN  /\ r # NULL => /\ r \in DOMAIN k.tag /\ k.tag[r].split_left = b
                                /\ r = b + k.tag[b].real_size
                 /\ z # NULL => z \in DOMAIN k.tag /\ k.tag[z].split_right = b
  <2>1. b \in DOMAIN h.tag /\ b # right /\ b # NULL
    BY Fields DEF Joined
  <2>2. ASSUME k.tag[b].split_right # NULL
        PROVE  /\ k.tag[b].split_right \in DOMAIN k.tag
               /\ k.tag[k.tag[b].split_right].split_left = b
               /\ k.tag[b].split_right = b + k.tag[b].real_size
    <3>1. CASE b = left
      <4>1. /\ k.tag[b].split_right = t.split_right
            /\ k.tag[b].real_size = h.tag[left].real_size + t.real_size
        BY <3>1, <2>1 DEF Joined
      <4>2. k.tag[t.split_right].split_left = left
        BY <4>1, <2>2, <1>3 DEF Joined
      <4>3. t.split_right = left + (h.tag[left].real_size + t.real_size)
        BY <4>1, <2>2, <1>1, <1>3
      <4> QED
        BY <4>1, <4>2, <4>3, <3>1, <2>2, <1>3 DEF Joined
    <3>2. CASE b # left
      <4>1. /\ k.tag[b].split_right = h.tag[b].split_right
            /\ k.tag[b].real_size = h.tag[b].real_size
        BY <3>2, <2>1 DEF Joined
      <4>2. /\ h.tag[b].split_right \in DOMAIN h.tag
            /\ h.tag[h.tag[b].split_right].split_left = b
            /\ h.tag[b].split_right = b + h.tag[b].real_size
        BY <4>1, <2>1, <2>2 DEF Mirrored
      <4>3. h.tag[b].split_right # right /\ h.tag[b].split_right # t.split_right
        BY <4>1, <4>2, <3>2, <2>1, <2>2, <1>2, <1>3
      <4> QED
        BY <4>1, <4>2, <4>3 DEF Joined
    <3> QED
      BY <3>1, <3>2
  <2>3. ASSUME k.tag[b].split_left # NULL
        PROVE  /\ k.tag[b].split_left \in DOMAIN k.tag
               /\ k.tag[k.tag[b].split_left].split_right = b
    <3>1. CASE b = t.split_right
      BY <3>1, <2>1, <1>1 DEF Joined
    <3>2. CASE b # t.split_right
      <4>1. k.tag[b].split_left = h.tag[b].split_left
        BY <3>2, <2>1 DEF Joined
      <4>2. /\ h.tag[b].split_left \in DOMAIN h.tag
            /\ h.tag[h.tag[b].split_left].split_right = b
        BY <4>1, <2>1, <2>3 DEF Mirrored
      <4>3. h.tag[b].split_left # right /\ h.tag[b].split_left # left
        BY <4>2, <3>2, <2>1, <1>2
      <4> QED
        BY <4>1, <4>2, <4>3 DEF Joined
    <3> QED
      BY <3>1, <3>2
  <2> QED
    BY <2>2, <2>3
<1> QED
  BY <1>4 DEF Mirrored

(* The joined block takes up what the two took up. *)
LEMMA JoinTiles ==
    ASSUME NEW h, Typed(h), NEW end, NEW gone, gone \subseteq Int,
           Mirrored(h), Tiles(h, end, gone),
           NEW left, NEW right, NextTo(h, left, right),
           NEW k, Joined(h, k, left, right)
    PROVE  Tiles(k, end, gone)
<1> DEFINE n == h.tag[left].real_size
           m == h.tag[right].real_size
<1>1. /\ left \in Int /\ right \in Int /\ left < right /\ right = left + n
      /\ n \in Nat /\ m \in Nat /\ n > 0 /\ m > 0
      /\ left \in DOMAIN h.tag /\ right \in DOMAIN h.tag
  BY Neighbours DEF NextTo
<1>2. \A b \in DOMAIN k.tag :
         /\ b \in DOMAIN h.tag /\ b # right /\ b \in Int
         /\ h.tag[b].real_size \in Nat /\ h.tag[b].size \in Nat
         /\ k.tag[b].size = h.tag[b].size
         /\ k.tag[b].real_size = IF b = left THEN n + m ELSE h.tag[b].real_size
  BY Fields DEF Joined
<1>3. left \in DOMAIN k.tag
  BY <1>1 DEF Joined
<1> HIDE DEF n, m
<1>4. \A b \in DOMAIN k.tag : k.tag[b].size + TagSize <= k.tag[b].real_size
  BY <1>1, <1>2, SizeAssumption DEF Tiles, n
<1>5. ASSUME NEW a \in DOMAIN k.tag, NEW b \in DOMAIN k.tag, a < b
      PROVE  a + k.tag[a].real_size <= b
  <2>1. CASE a = left
    <3>1. right <= b
      BY <2>1, <1>1, <1>2, <1>5 DEF Tiles, n
    <3>2. right < b
      BY <3>1, <1>1, <1>2
    <3>3. right + m <= b
      BY <3>2, <1>1, <1>2 DEF Tiles, m
    <3> QED
      BY <3>3, <2>1, <1>1, <1>2
  <2>2. CASE a # left
    BY <2>2, <1>2, <1>5 DEF Tiles
  <2> QED
    BY <2>1, <2>2
<1>6. ASSUME NEW x \in Int
      PROVE  (\E a \in DOMAIN k.tag : Within(k, a, x))
               <=> (\E a \in DOMAIN h.tag : Within(h, a, x))
  <2>1. Within(k, left, x) <=> Within(h, left, x) \/ Within(h, right, x)
    BY <1>1, <1>2, <1>3 DEF Within, n, m
  <2>2. \A b \in DOMAIN k.tag \ {left} : Within(k, b, x) <=> Within(h, b, x)
    BY <1>2 DEF Within
  <2>3. DOMAIN h.tag = DOMAIN k.tag \cup {right}
    BY <1>1 DEF Joined
  <2> QED
    BY <2>1, <2>2, <2>3, <1>3
<1>7. ASSUME NEW a \in DOMAIN k.tag, NEW x \in gone
      PROVE  ~Within(k, a, x)
  <2>1. x \in Int /\ \A b \in DOMAIN h.tag : ~Within(h, b, x)
    BY DEF Tiles
  <2> QED
    BY <1>6, <2>1
<1> QED
  BY <1>4, <1>5, <1>6, <1>7 DEF Tiles

(* The block cut off a is the neighbour of a, and of what was beyond a. *)
LEMMA CutMirrored ==
    ASSUME NEW h, Typed(h), NEW end, NEW gone, Mirrored(h), Tiles(h, end, gone),
           NEW a \in DOMAIN h.tag, NEW new \in Addr, new \notin DOMAIN h.tag,
           NEW rest \in Nat, new + rest = a + h.tag[a].real_size,
           NEW m, Cut(h, m, a, new, rest)
    PROVE  Mirrored(m)
<1> DEFINE t == h.tag[a]
<1>1. /\ a \in Int /\ a # NULL /\ new \in Int /\ new # NULL /\ a # new
      /\ t.real_size \in Nat /\ \A b \in DOMAIN h.tag : b # NULL
  BY Fields, HeapAssumption DEF Addr, NULL
<1>2. t.split_right # NULL => /\ t.split_right \in DOMAIN h.tag /\ t.split_right # a
                              /\ h.tag[t.split_right].split_left = a
                              /\ t.split_right = new + rest
  <2>1. ASSUME t.split_right # NULL
        PROVE  /\ t.split_right \in DOMAIN h.tag
               /\ h.tag[t.split_right].split_left = a
               /\ t.split_right = a + t.real_size
    BY <2>1 DEF Mirrored
  <2>2. t.size \in Nat /\ t.size + TagSize <= t.real_size
    BY Fields DEF Tiles
  <2> QED
    BY <2>1, <2>2, <1>1, SizeAssumption
<1>3. /\ m.tag[new].split_left = a /\ m.tag[new].split_right = t.split_right
      /\ m.tag[new].real_size = rest
      /\ new \in DOMAIN m.tag
  BY DEF Cut
<1>4. ASSUME NEW b \in DOMAIN h.tag
      PROVE  /\ b \in DOMAIN m.tag /\ b # new
             /\ m.tag[b].real_size = IF b = a THEN t.real_size - rest
                                      ELSE h.tag[b].real_size
             /\ m.tag[b].split_right = IF b = a THEN new ELSE h.tag[b].split_right
             /\ m.tag[b].split_left = IF b = t.split_right THEN new
                                      ELSE h.tag[b].split_left
  BY DEF Cut
<1>5. ASSUME NEW b \in DOMAIN m.tag
      PROVE  LET r == m.tag[b].split_right
                 z == m.tag[b].split_left
             IN  /\ r # NULL => /\ r \in DOMAIN m.tag /\ m.tag[r].split_left = b
                                /\ r = b + m.tag[b].real_size
                 /\ z # NULL => z \in DOMAIN m.tag /\ m.tag[z].split_right = b
  <2>1. CASE b = new
    BY <2>1, <1>1, <1>2, <1>3, <1>4
  <2>2. CASE b = a
    <3>1. m.tag[a].split_right = new /\ new = a + m.tag[a].real_size
      BY <1>1, <1>4
    <3>2. m.tag[a].split_left = h.tag[a].split_left
      <4>1. a # t.split_right
        BY <1>1, <1>2
      <4> QED
        BY <4>1, <1>4
    <3>3. ASSUME h.tag[a].split_left # NULL
          PROVE  /\ h.tag[a].split_left \in DOMAIN m.tag
                 /\ m.tag[h.tag[a].split_left].split_right = a
      <4>1. /\ h.tag[a].split_left \in DOMAIN h.tag
            /\ h.tag[h.tag[a].split_left].split_right = a
        BY <3>3 DEF Mirrored
      <4>2. h.tag[a].split_left # a
        BY <4>1, <1>1, <1>2
      <4> QED
        BY <4>1, <4>2, <1>4
    <3> QED
      BY <2>2, <3>1, <3>2, <3>3, <1>3
  <2>3. CASE b # new /\ b # a
    <3>1. b \in DOMAIN h.tag
      BY <2>3 DEF Cut
    <3>2. m.tag[b].split_right = h.tag[b].split_right
          /\ m.tag[b].real_size = h.tag[b].real_size
      BY <2>3, <3>1, <1>4
    <3>3. ASSUME h.tag[b].split_right # NULL
          PROVE  /\ h.tag[b].split_right \in DOMAIN m.tag
                 /\ m.tag[h.tag[b].split_right].split_left = b
                 /\ h.tag[b].split_right = b + h.tag[b].real_size
      <4>1. /\ h.tag[b].split_right \in DOMAIN h.tag
            /\ h.tag[h.tag[b].split_right].split_left = b
            /\ h.tag[b].split_right = b + h.tag[b].real_size
        BY <3>1, <3>3 DEF Mirrored
      <4>2. h.tag[b].split_right # t.split_right
        BY <4>1, <2>3, <3>3, <1>2
      <4> QED
        BY <4>1, <4>2, <1>4
    <3>4. ASSUME m.tag[b].split_left # NULL
          PROVE  /\ m.tag[b].split_left \in DOMAIN m.tag
                 /\ m.tag[m.tag[b].split_left].split_right = b
      <4>1. CASE b = t.split_right
        BY <4>1, <3>1, <1>3, <1>4
      <4>2. CASE b # t.split_right
        <5>1. m.tag[b].split_left = h.tag[b].split_left
          BY <4>2, <3>1, <1>4
        <5>2. /\ h.tag[b].split_left \in DOMAIN h.tag
              /\ h.tag[h.tag[b].split_left].split_right = b
          BY <5>1, <3>1, <3>4 DEF Mirrored
        <5>3. h.tag[b].split_left # a
          BY <5>2, <4>2
        <5> QED
          BY <5>1, <5>2, <5>3, <1>4
      <4> QED
        BY <4>1, <4>2
    <3> QED
      BY <3>2, <3>3, <3>4
  <2> QED
    BY <2>1, <2>2, <2>3
<1> QED
  BY <1>5 DEF Mirrored

(* The block cut off and what is left of a take up what a took up. *)
LEMMA CutTiles ==
    ASSUME NEW h, Typed(h), NEW end, NEW gone, gone \subseteq Int, Tiles(h, end, gone),
           NEW a \in DOMAIN h.tag, NEW new, new = a + TagSize + h.tag[a].size,
           new \notin DOMAIN h.tag,
           NEW rest \in Nat, new + rest = a + h.tag[a].real_size, rest >= TagSize,
           NEW m, Cut(h, m, a, new, rest)
    PROVE  Tiles(m, end, gone)
<1> DEFINE n == h.tag[a].real_size
           s == h.tag[a].size
<1>1. /\ a \in Int /\ n \in Nat /\ s \in Nat /\ new \in Int
      /\ a < new /\ new + rest = a + n /\ new = a + TagSize + s
      /\ TagSize > 0 /\ TagSize \in Nat
  <2>1. a \in Int /\ n \in Nat /\ s \in Nat
    BY Fields
  <2> QED
    BY <2>1, SizeAssumption
<1>2. ASSUME NEW b \in DOMAIN h.tag
      PROVE  /\ b \in DOMAIN m.tag /\ b # new /\ b \in Int
             /\ h.tag[b].size \in Nat /\ h.tag[b].real_size \in Nat
             /\ m.tag[b].size = h.tag[b].size
             /\ m.tag[b].real_size = IF b = a THEN n - rest ELSE h.tag[b].real_size
             /\ h.tag[b].size + TagSize <= h.tag[b].real_size
  BY Fields DEF Cut, Tiles
<1>3. /\ DOMAIN m.tag = DOMAIN h.tag \cup {new}
      /\ m.tag[new].size = 0 /\ m.tag[new].real_size = rest
  BY DEF Cut
<1>4. \A b \in DOMAIN h.tag : /\ a < b => a + n <= b
                              /\ b < a => b + h.tag[b].real_size <= a
  BY DEF Tiles
<1> HIDE DEF n, s
<1>5. \A b \in DOMAIN m.tag : m.tag[b].size + TagSize <= m.tag[b].real_size
  BY <1>1, <1>2, <1>3 DEF s
<1>6. ASSUME NEW b \in DOMAIN m.tag, NEW c \in DOMAIN m.tag, b < c
      PROVE  b + m.tag[b].real_size <= c
  <2>1. CASE b = new
    <3>1. c \in DOMAIN h.tag /\ c \in Int /\ a < c
      BY <2>1, <1>1, <1>2, <1>3, <1>6
    <3> QED
      BY <2>1, <3>1, <1>1, <1>3, <1>4
  <2>2. CASE c = new /\ b # new
    <3>1. b \in DOMAIN h.tag /\ b \in Int
      BY <2>2, <1>2, <1>3
    <3>2. CASE b = a
      BY <2>2, <3>1, <3>2, <1>1, <1>2
    <3>3. CASE b # a
      <4>1. ~(a < b)
        <5>1. SUFFICES ASSUME a < b PROVE FALSE
          OBVIOUS
        <5>2. a + n <= b
          BY <3>1, <5>1, <1>4
        <5> QED
          BY <2>2, <3>1, <5>2, <1>1, <1>6
      <4>2. b + h.tag[b].real_size <= a
        BY <4>1, <3>1, <3>3, <1>1, <1>4
      <4> QED
        BY <4>2, <2>2, <3>1, <3>3, <1>1, <1>2
    <3> QED
      BY <3>2, <3>3
  <2>3. CASE b # new /\ c # new
    <3>1. b \in DOMAIN h.tag /\ c \in DOMAIN h.tag
      BY <2>3, <1>3
    <3>2. b + h.tag[b].real_size <= c
      BY <3>1, <1>6 DEF Tiles
    <3> QED
      BY <3>1, <3>2, <1>1, <1>2 DEF n
  <2> QED
    BY <2>1, <2>2, <2>3
<1>7. ASSUME NEW x \in Int
      PROVE  (\E b \in DOMAIN m.tag : Within(m, b, x))
               <=> (\E b \in DOMAIN h.tag : Within(h, b, x))
  <2>1. Within(h, a, x) <=> Within(m, a, x) \/ Within(m, new, x)
    BY <1>1, <1>2, <1>3 DEF Within, n
  <2>2. \A b \in DOMAIN h.tag \ {a} : Within(m, b, x) <=> Within(h, b, x)
    BY <1>2 DEF Within
  <2> QED
    BY <2>1, <2>2, <1>3
<1>8. ASSUME NEW b \in DOMAIN m.tag, NEW x \in gone
      PROVE  ~Within(m, b, x)
  <2>1. x \in Int /\ \A c \in DOMAIN h.tag : ~Within(h, c, x)
    BY DEF Tiles
  <2> QED
    BY <1>7, <2>1
<1> QED
  BY <1>5, <1>6, <1>7, <1>8 DEF Tiles

(* A size that fits its block moves nothing. *)
LEMMA SizedBlocks ==
    ASSUME NEW h, NEW k, NEW end, NEW gone, Mirrored(h), Tiles(h, end, gone),
           NEW a \in DOMAIN h.tag, NEW size, size + TagSize <= h.tag[a].real_size,
           Sized(h, k, a, size)
    PROVE  Mirrored(k) /\ Tiles(k, end, gone)
<1>1. Mirrored(k)
  BY DEF Mirrored, Sized
<1>2. \A b \in DOMAIN h.tag, x \in Int : Within(k, b, x) <=> Within(h, b, x)
  BY DEF Within, Sized
<1>3. \A b \in DOMAIN k.tag : k.tag[b].size + TagSize <= k.tag[b].real_size
  BY DEF Tiles, Sized
<1>4. \A b, c \in DOMAIN k.tag : b < c => b + k.tag[b].real_size <= c
  BY DEF Tiles, Sized
<1>5. \A b \in DOMAIN k.tag, x \in gone : ~Within(k, b, x)
  BY DEF Tiles, Sized, Within
<1>6. \A x \in Int : HeapStart <= x /\ x < end
              <=> x \in gone \/ \E b \in DOMAIN k.tag : Within(k, b, x)
  BY <1>2 DEF Tiles, Sized
<1> QED
  BY <1>1, <1>3, <1>4, <1>5, <1>6 DEF Tiles

(* A tag of n addresses, linked to no other, and a heap k that has a tag at new
   besides those of h. *)
Fresh(size, n) ==
    [size |-> size, real_size |-> n, index |-> -1,
     split_left |-> NULL, split_right |-> NULL, next |-> NULL, prev |-> NULL]

Added(h, k, new, t) ==
    /\ DOMAIN k.tag = DOMAIN h.tag \cup {new}
    /\ k.tag[new] = t
    /\ \A b \in DOMAIN h.tag : k.tag[b] = h.tag[b]
    /\ k.free = h.free
    /\ k.complete = h.complete

(* A block of fresh pages goes behind all others. *)
LEMMA AddTag ==
    ASSUME NEW h, Typed(h), NEW new \in Addr, new \notin DOMAIN h.tag,
           NEW size \in Nat, NEW n \in Nat,
           NEW k, k = HeapOf([b \in DOMAIN h.tag \cup {new} |->
                                IF b = new THEN Fresh(size, n) ELSE h.tag[b]],
                             h.free, h.complete)
    PROVE  Typed(k) /\ Added(h, k, new, Fresh(size, n))
<1>1. Fresh(size, n) \in Tags
  BY SizeAssumption DEF Fresh, Tags, Lists, Ptr
<1>2. /\ k.tag = [b \in DOMAIN h.tag \cup {new} |->
                    IF b = new THEN Fresh(size, n) ELSE h.tag[b]]
      /\ k.free = h.free /\ k.complete = h.complete
  BY DEF HeapOf
<1> HIDE DEF Fresh
<1>3. Added(h, k, new, Fresh(size, n))
  BY <1>2 DEF Added
<1>4. Typed(k)
  BY <1>1, <1>2 DEF Typed
<1> QED
  BY <1>3, <1>4

(* It leaves the links alone and takes up what was obtained for it. *)
LEMMA AddedBlocks ==
    ASSUME NEW h, Typed(h), NEW end \in Int, NEW gone, gone \subseteq Int,
           Mirrored(h), Tiles(h, end, gone), end >= HeapStart, end # NULL,
           NEW size \in Nat, NEW n \in Nat, size + TagSize <= n,
           NEW k, Added(h, k, end, Fresh(size, n))
    PROVE  Mirrored(k) /\ Tiles(k, end + n, gone)
<1>1. \A b \in DOMAIN h.tag : b \in Int /\ h.tag[b].real_size \in Nat /\ b < end
                              /\ b + h.tag[b].real_size <= end
  BY Ends, Fields
<1>2. end \notin DOMAIN h.tag
  BY <1>1
<1>3. /\ DOMAIN k.tag = DOMAIN h.tag \cup {end}
      /\ k.tag[end].size = size /\ k.tag[end].real_size = n
      /\ k.tag[end].split_left = NULL /\ k.tag[end].split_right = NULL
      /\ \A b \in DOMAIN h.tag : k.tag[b] = h.tag[b]
  BY DEF Added, Fresh
<1>4. Mirrored(k)
  BY <1>3 DEF Mirrored
<1>5. \A b \in DOMAIN k.tag : k.tag[b].size + TagSize <= k.tag[b].real_size
  BY <1>3 DEF Tiles
<1>6. ASSUME NEW b \in DOMAIN k.tag, NEW c \in DOMAIN k.tag, b < c
      PROVE  b + k.tag[b].real_size <= c
  <2>1. b \in DOMAIN h.tag
    BY <1>1, <1>3, <1>6
  <2>2. CASE c = end
    BY <2>1, <2>2, <1>1, <1>3
  <2>3. CASE c # end
    BY <2>1, <2>3, <1>3, <1>6 DEF Tiles
  <2> QED
    BY <2>2, <2>3
<1>7. \A x \in Int : Within(k, end, x) <=> end <= x /\ x < end + n
  BY <1>3 DEF Within
<1>8. \A b \in DOMAIN h.tag, x \in Int : Within(k, b, x) <=> Within(h, b, x)
  BY <1>3 DEF Within
<1>9. ASSUME NEW x \in Int
      PROVE  HeapStart <= x /\ x < end + n
               <=> x \in gone \/ \E b \in DOMAIN k.tag : Within(k, b, x)
  <2>1. HeapStart <= x /\ x < end + n <=>
           (HeapStart <= x /\ x < end) \/ (end <= x /\ x < end + n)
    BY HeapAssumption
  <2>2. (\E b \in DOMAIN k.tag : Within(k, b, x))
           <=> Within(k, end, x) \/ \E b \in DOMAIN h.tag : Within(h, b, x)
    BY <1>3, <1>8
  <2> QED
    BY <2>1, <2>2, <1>7 DEF Tiles
<1>10. ASSUME NEW b \in DOMAIN k.tag, NEW x \in gone
       PROVE  ~Within(k, b, x)
  <2>1. x \in Int /\ x < end
    BY DEF Tiles
  <2>2. CASE b = end
    BY <2>1, <2>2, <1>7
  <2>3. CASE b # end
    BY <2>1, <2>3, <1>3, <1>8 DEF Tiles
  <2> QED
    BY <2>2, <2>3
<1> QED
  BY <1>4, <1>5, <1>6, <1>9, <1>10 DEF Tiles

(* What joins, cuts and fresh pages do to the beginnings and ends of runs. *)
LEMMA SpacedKept ==
    ASSUME NEW h, NEW k, DOMAIN k.tag = DOMAIN h.tag,
           \A b \in DOMAIN h.tag : /\ k.tag[b].real_size = h.tag[b].real_size
                                   /\ k.tag[b].split_left = h.tag[b].split_left
                                   /\ k.tag[b].split_right = h.tag[b].split_right,
           Spaced(h)
    PROVE  Spaced(k)
BY DEF Spaced

LEMMA RunBytesType == RunBytes \in Nat
BY SizeAssumption DEF RunBytes

LEMMA JoinSpaced ==
    ASSUME NEW h, Typed(h), NEW end, NEW gone, Mirrored(h), Tiles(h, end, gone), Spaced(h),
           NEW left, NEW right, NextTo(h, left, right),
           NEW k, Joined(h, k, left, right)
    PROVE  Spaced(k)
<1>1. /\ left \in Int /\ right \in Int /\ left < right
      /\ right = left + h.tag[left].real_size
      /\ left # NULL /\ right # NULL
      /\ h.tag[left].real_size \in Nat /\ h.tag[right].real_size \in Nat
      /\ left \in DOMAIN h.tag /\ right \in DOMAIN h.tag
  BY Neighbours DEF NextTo
<1>2. SUFFICES ASSUME NEW a \in DOMAIN k.tag, NEW b \in DOMAIN k.tag,
                      k.tag[a].split_left = NULL, k.tag[b].split_right = NULL, a <= b
               PROVE  a + RunBytes <= b + k.tag[b].real_size
  BY DEF Spaced
<1>3. /\ a \in DOMAIN h.tag /\ b \in DOMAIN h.tag /\ a \in Int /\ b \in Int
      /\ h.tag[a].split_left = NULL
  BY <1>1, <1>2, Fields DEF Joined
<1>4. CASE b = left
  <2>1. h.tag[right].split_right = NULL /\ a <= right
    BY <1>1, <1>2, <1>3, <1>4 DEF Joined
  <2>2. a + RunBytes <= right + h.tag[right].real_size
    BY <2>1, <1>1, <1>3 DEF Spaced
  <2>3. k.tag[b].real_size = h.tag[left].real_size + h.tag[right].real_size
    BY <1>4 DEF Joined
  <2> QED
    BY <2>2, <2>3, <1>1, <1>3, <1>4, RunBytesType
<1>5. CASE b # left
  <2>1. h.tag[b].split_right = NULL /\ k.tag[b].real_size = h.tag[b].real_size
    BY <1>2, <1>5 DEF Joined
  <2> QED
    BY <2>1, <1>2, <1>3 DEF Spaced
<1> QED
  BY <1>4, <1>5

LEMMA CutSpaced ==
    ASSUME NEW h, Typed(h), NEW end, NEW gone, Tiles(h, end, gone), Spaced(h),
           NEW a \in DOMAIN h.tag, NEW new \in Int, a < new, new # NULL,
           new \notin DOMAIN h.tag,
           NEW rest \in Nat, new + rest = a + h.tag[a].real_size, rest > 0,
           NEW m, Cut(h, m, a, new, rest)
    PROVE  Spaced(m)
<1>1. a \in Int /\ a # NULL /\ h.tag[a].real_size \in Nat
  BY Fields
<1>2. SUFFICES ASSUME NEW x \in DOMAIN m.tag, NEW y \in DOMAIN m.tag,
                      m.tag[x].split_left = NULL, m.tag[y].split_right = NULL, x <= y
               PROVE  x + RunBytes <= y + m.tag[y].real_size
  BY DEF Spaced
<1>3. x \in DOMAIN h.tag /\ x \in Int /\ h.tag[x].split_left = NULL
  BY <1>1, <1>2, Fields DEF Cut
<1>4. CASE y = new
  <2>1. h.tag[a].split_right = NULL /\ m.tag[y].real_size = rest
    BY <1>2, <1>4 DEF Cut
  <2>2. x <= a
    <3>1. SUFFICES ASSUME a < x PROVE FALSE
      BY <1>1, <1>3
    <3>2. a + h.tag[a].real_size <= x
      BY <3>1, <1>3 DEF Tiles
    <3> QED
      BY <3>2, <1>1, <1>2, <1>3, <1>4
  <2>3. x + RunBytes <= a + h.tag[a].real_size
    BY <2>1, <2>2, <1>3 DEF Spaced
  <2> QED
    BY <2>1, <2>3, <1>1, <1>3, <1>4, RunBytesType
<1>5. CASE y # new
  <2>1. y \in DOMAIN h.tag /\ y # a
    BY <1>2, <1>5 DEF Cut
  <2>2. h.tag[y].split_right = NULL /\ m.tag[y].real_size = h.tag[y].real_size
    BY <2>1, <1>2 DEF Cut
  <2> QED
    BY <2>1, <2>2, <1>2, <1>3 DEF Spaced
<1> QED
  BY <1>4, <1>5

LEMMA AddedSpaced ==
    ASSUME NEW h, Typed(h), NEW end \in Int, NEW gone, Tiles(h, end, gone), Spaced(h),
           NEW size, NEW n \in Nat, RunBytes <= n,
           NEW k, Added(h, k, end, Fresh(size, n))
    PROVE  Spaced(k)
<1>1. SUFFICES ASSUME NEW a \in DOMAIN k.tag, NEW b \in DOMAIN k.tag,
                      k.tag[a].split_left = NULL, k.tag[b].split_right = NULL, a <= b
               PROVE  a + RunBytes <= b + k.tag[b].real_size
  BY DEF Spaced
<1>2. /\ DOMAIN k.tag = DOMAIN h.tag \cup {end} /\ k.tag[end].real_size = n
      /\ \A c \in DOMAIN h.tag : k.tag[c] = h.tag[c]
  BY DEF Added, Fresh
<1>3. \A c \in DOMAIN h.tag : c \in Int /\ c < end
  BY Fields, Ends
<1>4. CASE b = end
  <2>1. a \in Int /\ a <= end
    BY <1>2, <1>3
  <2> QED
    BY <2>1, <1>2, <1>4, RunBytesType
<1>5. CASE b # end
  <2>1. b \in DOMAIN h.tag /\ a \in DOMAIN h.tag
    BY <1>1, <1>2, <1>3, <1>5
  <2> QED
    BY <2>1, <1>1, <1>2 DEF Spaced
<1> QED
  BY <1>4, <1>5

(* A heap k without the block a. *)
Dropped(h, k, a) ==
    /\ DOMAIN k.tag = DOMAIN h.tag \ {a}
    /\ \A b \in DOMAIN h.tag \ {a} : k.tag[b] = h.tag[b]
    /\ k.free = h.free
    /\ k.complete = h.complete

(* A whole run of pages goes back to liballoc_free. *)
LEMMA DropTag ==
    ASSUME NEW h, Typed(h), NEW a,
           NEW k, k = HeapOf([b \in DOMAIN h.tag \ {a} |-> h.tag[b]], h.free, h.complete)
    PROVE  Typed(k) /\ Dropped(h, k, a)
<1>1. /\ k.tag = [b \in DOMAIN h.tag \ {a} |-> h.tag[b]]
      /\ k.free = h.free /\ k.complete = h.complete
  BY DEF HeapOf
<1> QED
  BY <1>1 DEF Typed, Dropped

(* Nothing is linked to it, and nothing else covers what it took up. *)
LEMMA DroppedBlocks ==
    ASSUME NEW h, Typed(h), NEW end \in Int, NEW gone, gone \subseteq Int,
           Mirrored(h), Tiles(h, end, gone), NEW a \in DOMAIN h.tag,
           h.tag[a].split_left = NULL, h.tag[a].split_right = NULL,
           NEW k, Dropped(h, k, a)
    PROVE  /\ Mirrored(k)
           /\ Tiles(k, end, gone \cup (a .. a + h.tag[a].real_size - 1))
<1> DEFINE taken == a .. a + h.tag[a].real_size - 1
<1>1. \A b \in DOMAIN h.tag : b \in Int /\ h.tag[b].real_size \in Nat /\ b # NULL
  BY Fields
<1>2. Mirrored(k)
  BY <1>1 DEF Mirrored, Dropped
<1>3. \A x \in Int : x \in taken <=> Within(h, a, x)
  BY <1>1 DEF Within
<1>4. \A b \in DOMAIN k.tag, x \in Int : Within(k, b, x) <=> Within(h, b, x)
  BY DEF Within, Dropped
<1>5. ASSUME NEW b \in DOMAIN k.tag, NEW x \in Int, Within(h, a, x)
      PROVE  ~Within(h, b, x)
  <2>1. b \in DOMAIN h.tag /\ b # a
    BY DEF Dropped
  <2>2. /\ a < b => a + h.tag[a].real_size <= b
        /\ b < a => b + h.tag[b].real_size <= a
    BY <2>1 DEF Tiles
  <2> QED
    BY <2>1, <2>2, <1>1, <1>5 DEF Within
<1> HIDE DEF taken
<1>6. /\ \A b \in DOMAIN k.tag : k.tag[b].size + TagSize <= k.tag[b].real_size
      /\ \A b, c \in DOMAIN k.tag : b < c => b + k.tag[b].real_size <= c
  BY DEF Tiles, Dropped
<1>7. ASSUME NEW x \in Int
      PROVE  HeapStart <= x /\ x < end
               <=> x \in gone \cup taken \/ \E b \in DOMAIN k.tag : Within(k, b, x)
  <2>1. (\E b \in DOMAIN h.tag : Within(h, b, x))
           <=> Within(h, a, x) \/ \E b \in DOMAIN k.tag : Within(k, b, x)
    BY <1>4 DEF Dropped
  <2> QED
    BY <2>1, <1>3 DEF Tiles
<1>8. ASSUME NEW b \in DOMAIN k.tag, NEW x \in gone \cup taken
      PROVE  ~Within(k, b, x)
  <2>1. x \in Int
    BY <1>1 DEF taken
  <2>2. CASE x \in gone
    BY <2>1, <2>2, <1>4 DEF Tiles, Dropped
  <2>3. CASE x \in taken
    BY <2>1, <2>3, <1>3, <1>4, <1>5
  <2> QED
    BY <2>2, <2>3
<1>9. Tiles(k, end, gone \cup taken)
  BY <1>6, <1>7, <1>8 DEF Tiles
<1> QED
  BY <1>2, <1>9 DEF taken

-----------------------------------------------------------------------------
(* A heap between two steps under the lock, and what each change makes of it. *)

(* No two free blocks are neighbours. *)
Apart(h) ==
    \A a \in DOMAIN h.tag :
        LET b == h.tag[a].split_right
        IN  b # NULL => ~(h.tag[a].index >= 0 /\ h.tag[b].index >= 0)

Sound(h, end, gone) ==
    /\ end \in Addr /\ gone \subseteq Int
    /\ Typed(h)
    /\ Chains(h) /\ Acyclic(h)
    /\ Mirrored(h) /\ Tiles(h, end, gone) /\ Spaced(h)
    /\ Apart(h)

(* The tags on no list: in a caller's hands, or in a call's. *)
Loose(h) == {a \in DOMAIN h.tag : h.tag[a].index = -1}

(* The whole runs of pages on list i. *)
Unsplit(t) == t.split_left = NULL /\ t.split_right = NULL
Runs(h, i) == {a \in DOMAIN h.tag : h.tag[a].index = i /\ Unsplit(h.tag[a])}

SameRuns(h, k)  == \A i \in Buckets : Runs(k, i) = Runs(h, i)
Joins(h, k, a, i) ==
    \A j \in Buckets :
        Runs(k, j) = IF j = i /\ Unsplit(h.tag[a]) THEN Runs(h, j) \cup {a} ELSE Runs(h, j)
SameSizes(h, k) == \A b \in Loose(h) \cap Loose(k) : k.tag[b].size = h.tag[b].size

(* A tag is loose, or on the list of its room's exponent. *)
LEMMA LooseOrListed ==
    ASSUME NEW h, Typed(h), Chains(h), NEW a \in DOMAIN h.tag
    PROVE  /\ a \in Loose(h) <=> ~(h.tag[a].index >= 0)
           /\ h.tag[a].index >= 0 => /\ h.tag[a].index \in Buckets
                                     /\ h.tag[a].index = Bucket(h.tag[a].real_size - TagSize)
<1>1. h.tag[a].index \in Lists /\ h.tag[a].real_size \in Nat
  BY DEF Typed, Tags
<1>2. Bucket(h.tag[a].real_size - TagSize) \in Buckets
  BY <1>1, BucketType, SizeAssumption
<1>3. a \in Loose(h) <=> ~(h.tag[a].index >= 0)
  BY <1>1, SizeAssumption DEF Loose, Lists
<1>4. h.tag[a].index >= 0 => h.tag[a].index = Bucket(h.tag[a].real_size - TagSize)
  BY DEF Chains
<1> QED
  BY <1>2, <1>3, <1>4

(* Two loose neighbours become one. *)
LEMMA JoinSound ==
    ASSUME NEW h, NEW end, NEW gone, Sound(h, end, gone),
           NEW left, NEW right, NextTo(h, left, right),
           left \in Loose(h), right \in Loose(h),
           NEW k, Typed(k), Joined(h, k, left, right)
    PROVE  /\ Sound(k, end, gone)
           /\ Loose(k) = Loose(h) \ {right} /\ left \in Loose(k)
           /\ SameSizes(h, k) /\ SameRuns(h, k)
           /\ k.complete = h.complete
           /\ \A b \in DOMAIN k.tag : k.tag[b].index = h.tag[b].index
           /\ k.tag[left].split_left = h.tag[left].split_left
           /\ DOMAIN k.tag = DOMAIN h.tag \ {right}
<1> DEFINE t == h.tag[right]
<1>1. left # right /\ left # NULL /\ right # NULL /\ left \in DOMAIN k.tag
  BY Neighbours DEF Sound, Joined, NextTo
<1>2. Mirrored(k) /\ Tiles(k, end, gone) /\ Spaced(k)
  BY JoinMirrored, JoinTiles, JoinSpaced DEF Sound
<1>3. SameLists(h, k)
  BY DEF SameLists, Joined, Loose, Listed
<1>4. Chains(k) /\ Acyclic(k)
  BY <1>3, ChainsKept, AcyclicKept DEF Sound
<1>5. \A b \in DOMAIN k.tag : k.tag[b].index = h.tag[b].index /\ k.tag[b].size = h.tag[b].size
  BY DEF Joined, Listed
<1>6. \A b \in DOMAIN k.tag : b # left => k.tag[b].split_right = h.tag[b].split_right
  BY DEF Joined
<1>7. Apart(k)
  <2>1. ASSUME NEW b \in DOMAIN k.tag, k.tag[b].split_right # NULL, k.tag[b].index >= 0
        PROVE  ~(k.tag[k.tag[b].split_right].index >= 0)
    <3>1. b # left /\ b \in DOMAIN h.tag
      BY <2>1, <1>5 DEF Loose, Joined
    <3>2. k.tag[b].split_right = h.tag[b].split_right /\ h.tag[b].index >= 0
      BY <2>1, <3>1, <1>5, <1>6
    <3>3. k.tag[b].split_right \in DOMAIN k.tag
      BY <2>1, <1>2 DEF Mirrored
    <3> QED
      BY <2>1, <3>1, <3>2, <3>3, <1>5 DEF Apart, Sound
  <2> QED
    BY <2>1 DEF Apart
<1>8. Sound(k, end, gone)
  BY <1>2, <1>4, <1>7 DEF Sound
<1>9. Loose(k) = Loose(h) \ {right}
  BY <1>5 DEF Loose, Joined
<1>10. SameSizes(h, k)
  BY <1>5 DEF SameSizes, Loose
<1>11. t.split_right # NULL => /\ t.split_right \in DOMAIN h.tag
                               /\ h.tag[t.split_right].split_left = right
                               /\ t.split_right # left
  <2>1. ASSUME t.split_right # NULL
        PROVE  NextTo(h, right, t.split_right)
    BY <2>1, Beside DEF Sound, NextTo
  <2>2. ASSUME t.split_right # NULL
        PROVE  t.split_right # left
    <3>1. left \in Int /\ right \in Int /\ left < right
      BY Neighbours DEF Sound
    <3>2. t.split_right \in Int /\ right < t.split_right
      BY <2>1, <2>2, Neighbours DEF Sound
    <3> QED
      BY <3>1, <3>2
  <2> QED
    BY <2>1, <2>2 DEF NextTo
<1>12. k.tag[left].split_left = h.tag[left].split_left
  BY <1>1, <1>11 DEF Joined
<1>13. ASSUME NEW b \in DOMAIN k.tag, b # left
       PROVE  Unsplit(k.tag[b]) <=> Unsplit(h.tag[b])
  <2>1. /\ k.tag[b].split_right = h.tag[b].split_right
        /\ k.tag[b].split_left = IF b = t.split_right THEN left ELSE h.tag[b].split_left
    BY <1>6, <1>13 DEF Joined
  <2>2. b \in DOMAIN h.tag /\ b # NULL
    BY Fields DEF Sound, Joined
  <2> QED
    BY <2>1, <2>2, <1>1, <1>11 DEF Unsplit
<1>14. SameRuns(h, k)
  <2>1. ASSUME NEW i \in Buckets
        PROVE  Runs(k, i) = Runs(h, i)
    <3>1. left \notin Runs(k, i) /\ left \notin Runs(h, i) /\ right \notin Runs(h, i)
      BY <1>1, <1>5, Bucketed DEF Runs, Loose
    <3>2. DOMAIN k.tag = DOMAIN h.tag \ {right}
      BY DEF Joined
    <3> QED
      BY <3>1, <3>2, <1>5, <1>13 DEF Runs
  <2> QED
    BY <2>1 DEF SameRuns
<1> QED
  BY <1>1, <1>5, <1>8, <1>9, <1>10, <1>12, <1>14 DEF Joined

(* A tag leaves its list. *)
LEMMA RemoveSound ==
    ASSUME NEW h, NEW end, NEW gone, Sound(h, end, gone),
           NEW a \in DOMAIN h.tag, h.tag[a].index >= 0,
           NEW k, k = remove_tag(h, a)
    PROVE  /\ Sound(k, end, gone) /\ Removed(h, k, a)
           /\ Loose(k) = Loose(h) \cup {a}
           /\ SameSizes(h, k)
           /\ \A i \in Buckets : Runs(k, i) = Runs(h, i) \ {a}
           /\ k.complete = h.complete
           /\ DOMAIN k.tag = DOMAIN h.tag
           /\ \A b \in DOMAIN h.tag : Kept(k.tag[b], h.tag[b])
<1>1. Typed(k) /\ Removed(h, k, a)
  BY RemoveTag DEF Sound
<1>2. Chains(k) /\ Acyclic(k)
  BY <1>1, RemoveChains, RemoveAcyclic DEF Sound
<1>3. /\ DOMAIN k.tag = DOMAIN h.tag /\ k.complete = h.complete
      /\ \A b \in DOMAIN h.tag : /\ Kept(k.tag[b], h.tag[b])
                                 /\ k.tag[b].index = IF b = a THEN -1 ELSE h.tag[b].index
  BY <1>1 DEF Removed
<1>4. Mirrored(k) /\ Tiles(k, end, gone) /\ Spaced(k)
  BY <1>3, BlocksKept, SpacedKept DEF Sound, Kept
<1>5. Apart(k)
  <2>1. \A b \in DOMAIN h.tag : /\ k.tag[b].split_right = h.tag[b].split_right
                                /\ k.tag[b].index >= 0 => h.tag[b].index >= 0
    BY <1>3 DEF Kept
  <2>2. \A b \in DOMAIN h.tag : h.tag[b].split_right # NULL => h.tag[b].split_right \in DOMAIN h.tag
    BY DEF Sound, Mirrored
  <2> QED
    BY <2>1, <2>2, <1>3 DEF Apart, Sound
<1>6. Sound(k, end, gone)
  BY <1>1, <1>2, <1>4, <1>5 DEF Sound
<1>7. Loose(k) = Loose(h) \cup {a}
  BY <1>3 DEF Loose
<1>8. SameSizes(h, k)
  BY <1>3 DEF SameSizes, Loose, Kept
<1>9. ASSUME NEW i \in Buckets
      PROVE  Runs(k, i) = Runs(h, i) \ {a}
  <2>1. \A b \in DOMAIN h.tag : Unsplit(k.tag[b]) <=> Unsplit(h.tag[b])
    BY <1>3 DEF Unsplit, Kept
  <2> QED
    BY <2>1, <1>3, Bucketed DEF Runs
<1> QED
  BY <1>1, <1>3, <1>6, <1>7, <1>8, <1>9

(* A loose tag whose neighbours are on no list goes on its list. *)
LEMMA InsertSound ==
    ASSUME NEW h, NEW end, NEW gone, Sound(h, end, gone),
           NEW a \in Loose(h),
           h.tag[a].split_left # NULL => h.tag[h.tag[a].split_left].index = -1,
           h.tag[a].split_right # NULL => h.tag[h.tag[a].split_right].index = -1,
           NEW i, i = Bucket(h.tag[a].real_size - TagSize),
           NEW k, k = insert_tag(h, a, i)
    PROVE  /\ Sound(k, end, gone)
           /\ Loose(k) = Loose(h) \ {a}
           /\ SameSizes(h, k)
           /\ Joins(h, k, a, i)
           /\ k.complete = h.complete
           /\ DOMAIN k.tag = DOMAIN h.tag
           /\ i \in Buckets
           /\ \A b \in DOMAIN h.tag : Kept(k.tag[b], h.tag[b])
<1>1. a \in DOMAIN h.tag /\ h.tag[a].index = -1 /\ a \in Int /\ a # NULL
  BY Fields DEF Loose, Sound
<1>2. i \in Buckets
  <2>1. h.tag[a].real_size \in Nat
    BY <1>1, Fields DEF Sound
  <2> QED
    BY <2>1, BucketType, SizeAssumption
<1>3. Typed(k) /\ Inserted(h, k, a, i)
  BY <1>1, <1>2, InsertTag DEF Sound
<1>4. Chains(k) /\ Acyclic(k)
  BY <1>1, <1>2, <1>3, InsertChains, InsertAcyclic DEF Sound
<1>5. /\ DOMAIN k.tag = DOMAIN h.tag /\ k.complete = h.complete
      /\ \A b \in DOMAIN h.tag : /\ Kept(k.tag[b], h.tag[b])
                                 /\ k.tag[b].index = IF b = a THEN i ELSE h.tag[b].index
  BY <1>3 DEF Inserted
<1>6. Mirrored(k) /\ Tiles(k, end, gone) /\ Spaced(k)
  BY <1>5, BlocksKept, SpacedKept DEF Sound, Kept
<1>7. Apart(k)
  <2>1. ASSUME NEW b \in DOMAIN h.tag, h.tag[b].split_right # NULL,
               k.tag[b].index >= 0, k.tag[h.tag[b].split_right].index >= 0
        PROVE  FALSE
    <3>1. NextTo(h, b, h.tag[b].split_right)
      BY <2>1, Beside DEF Sound
    <3>2. b # NULL /\ b # h.tag[b].split_right
      BY <3>1, Neighbours DEF Sound
    <3>3. CASE b = a
      BY <2>1, <3>1, <3>2, <3>3, <1>5 DEF NextTo
    <3>4. CASE h.tag[b].split_right = a
      BY <2>1, <3>1, <3>2, <3>4, <1>5 DEF NextTo
    <3>5. CASE b # a /\ h.tag[b].split_right # a
      BY <2>1, <3>1, <3>5, <1>5 DEF NextTo, Sound, Apart
    <3> QED
      BY <3>3, <3>4, <3>5
  <2>2. \A b \in DOMAIN h.tag : k.tag[b].split_right = h.tag[b].split_right
    BY <1>5 DEF Kept
  <2> QED
    BY <2>1, <2>2, <1>5 DEF Apart
<1>8. Sound(k, end, gone)
  BY <1>3, <1>4, <1>6, <1>7 DEF Sound
<1>9. Loose(k) = Loose(h) \ {a}
  BY <1>2, <1>5, Bucketed DEF Loose
<1>10. SameSizes(h, k)
  BY <1>5 DEF SameSizes, Loose, Kept
<1>11. ASSUME NEW j \in Buckets
       PROVE  Runs(k, j) = IF j = i /\ Unsplit(h.tag[a]) THEN Runs(h, j) \cup {a}
                           ELSE Runs(h, j)
  <2>1. \A b \in DOMAIN h.tag : Unsplit(k.tag[b]) <=> Unsplit(h.tag[b])
    BY <1>5 DEF Unsplit, Kept
  <2>2. h.tag[a].index # j
    BY <1>1, Bucketed
  <2>3. \A b \in DOMAIN h.tag :
           b \in Runs(k, j) <=> \/ b \in Runs(h, j)
                                \/ b = a /\ j = i /\ Unsplit(h.tag[a])
    BY <2>1, <2>2, <1>5 DEF Runs
  <2>4. Runs(k, j) \subseteq DOMAIN h.tag /\ Runs(h, j) \subseteq DOMAIN h.tag
    BY <1>5 DEF Runs
  <2> QED
    BY <2>3, <2>4, <1>1
<1> QED
  BY <1>2, <1>5, <1>8, <1>9, <1>10, <1>11 DEF Joins

(* malloc's block gets its size, and what is left over goes on its list: no
   other block is touched, and the whole runs on the lists stay the same. *)
LEMMA CarveSound ==
    ASSUME NEW h, NEW end, NEW gone, Sound(h, end, gone),
           NEW a \in Loose(h), NEW size \in Nat,
           size + TagSize <= h.tag[a].real_size,
           h.tag[a].split_right # NULL => h.tag[h.tag[a].split_right].index = -1,
           NEW k, k = Carve(h, a, size)
    PROVE  /\ Sound(k, end, gone)
           /\ Loose(k) = Loose(h)
           /\ k.tag[a].size = size
           /\ \A b \in Loose(h) \ {a} : k.tag[b].size = h.tag[b].size
           /\ SameRuns(h, k)
           /\ k.complete = h.complete
<1> DEFINE s == HeapOf([h.tag EXCEPT ![a].size = size], h.free, h.complete)
           remainder == h.tag[a].real_size - size - 2 * TagSize
<1>1. a \in DOMAIN h.tag /\ h.tag[a].index = -1 /\ a \in Int /\ a # NULL
      /\ h.tag[a].real_size \in Nat
  BY Fields DEF Loose, Sound
<1>2. Typed(s) /\ Sized(h, s, a, size)
  BY <1>1, SizeTag DEF Sound
<1>3. k = IF remainder > 0 /\ getexp(remainder) >= 0 THEN split_tag(s, a) ELSE s
  BY DEF Carve
<1> HIDE DEF s
<1>4. /\ DOMAIN s.tag = DOMAIN h.tag /\ s.complete = h.complete /\ s.free = h.free
      /\ \A b \in DOMAIN h.tag :
            /\ Listed(s.tag[b], h.tag[b]) /\ s.tag[b].real_size = h.tag[b].real_size
            /\ s.tag[b].split_left = h.tag[b].split_left
            /\ s.tag[b].split_right = h.tag[b].split_right
            /\ s.tag[b].size = IF b = a THEN size ELSE h.tag[b].size
  BY <1>2 DEF Sized
<1>5. Sound(s, end, gone)
  <2>1. SameLists(h, s)
    BY <1>4 DEF SameLists
  <2>2. Chains(s) /\ Acyclic(s)
    BY <1>2, <2>1, ChainsKept, AcyclicKept DEF Sound
  <2>3. Mirrored(s) /\ Tiles(s, end, gone) /\ Spaced(s)
    BY <1>1, <1>2, <1>4, SizedBlocks, SpacedKept DEF Sound
  <2>4. Apart(s)
    <3>1. \A b \in DOMAIN h.tag : h.tag[b].split_right # NULL => h.tag[b].split_right \in DOMAIN h.tag
      BY DEF Sound, Mirrored
    <3> QED
      BY <3>1, <1>4 DEF Apart, Sound, Listed
  <2> QED
    BY <1>2, <2>2, <2>3, <2>4 DEF Sound
<1>6. Loose(s) = Loose(h)
  BY <1>4 DEF Loose, Listed
<1>7. SameRuns(h, s)
  BY <1>4 DEF SameRuns, Runs, Unsplit, Listed
<1>8. CASE k = s
  <2>1. \A b \in Loose(h) \ {a} : b \in DOMAIN h.tag
    BY DEF Loose
  <2> QED
    BY <1>1, <1>4, <1>5, <1>6, <1>7, <1>8, <2>1
<1>9. CASE remainder > 0 /\ k = split_tag(s, a)
  <2> DEFINE new == a + TagSize + s.tag[a].size
             rest == s.tag[a].real_size - TagSize - s.tag[a].size
             t == s.tag[a]
  <2>1. /\ s.tag[a].size = size /\ s.tag[a].real_size = h.tag[a].real_size
        /\ s.tag[a].index = -1 /\ s.tag[a].split_right = h.tag[a].split_right
        /\ a \in DOMAIN s.tag
    BY <1>1, <1>4 DEF Listed
  <2>2. /\ rest \in Nat /\ rest >= TagSize /\ rest > 0
        /\ new = a + TagSize + s.tag[a].size
        /\ new \in Int /\ a < new /\ new < a + s.tag[a].real_size
        /\ new + rest = a + s.tag[a].real_size
    BY <1>1, <1>9, <2>1, SizeAssumption
  <2>3. new \in Addr
    <3>1. HeapStart <= a /\ a + s.tag[a].real_size <= end
      BY <1>5, <2>1, Ends, HeapAssumption DEF Sound, Addr
    <3> QED
      BY <2>1, <2>2, <3>1, <1>1, <1>5, HeapAssumption DEF Sound, Addr
  <2>4. new \notin DOMAIN s.tag
    <3>1. SUFFICES ASSUME new \in DOMAIN s.tag PROVE FALSE
      OBVIOUS
    <3>2. a + s.tag[a].real_size <= new
      BY <2>1, <2>2, <3>1, <1>5 DEF Sound, Tiles
    <3> QED
      BY <3>2, <2>1, <2>2, <1>1
  <2>5. PICK m : /\ Typed(m) /\ Cut(s, m, a, new, rest)
                 /\ split_tag(s, a) = insert_tag(m, new, Bucket(rest - TagSize))
    BY <1>2, <2>1, <2>2, <2>3, <2>4, CutTag
  <2> HIDE DEF new, rest
  <2>6. Mirrored(m) /\ Tiles(m, end, gone) /\ Spaced(m)
    <3>1. Mirrored(m)
      BY <1>2, <1>5, <2>1, <2>2, <2>3, <2>4, <2>5, CutMirrored DEF Sound
    <3>2. Tiles(m, end, gone)
      <4>1. Tiles(s, end, gone) /\ gone \subseteq Int /\ Cut(s, m, a, new, rest)
        BY <1>5, <2>5 DEF Sound
      <4> QED
        BY <1>2, <2>1, <2>2, <2>4, <4>1, CutTiles
    <3>3. Spaced(m)
      <4>1. Tiles(s, end, gone) /\ Spaced(s) /\ Cut(s, m, a, new, rest)
        BY <1>5, <2>5 DEF Sound
      <4>2. new # NULL
        BY <2>3, HeapAssumption DEF Addr, NULL
      <4> QED
        BY <1>2, <2>1, <2>2, <2>4, <4>1, <4>2, CutSpaced
    <3> QED
      BY <3>1, <3>2, <3>3
  <2>7. /\ DOMAIN m.tag = DOMAIN s.tag \cup {new} /\ m.complete = s.complete
        /\ m.free = s.free
        /\ m.tag[new].index = -1 /\ m.tag[new].next = NULL /\ m.tag[new].prev = NULL
        /\ m.tag[new].split_left = a /\ m.tag[new].split_right = t.split_right
        /\ m.tag[new].real_size = rest
        /\ \A b \in DOMAIN s.tag :
              /\ Listed(m.tag[b], s.tag[b]) /\ m.tag[b].size = s.tag[b].size
              /\ m.tag[b].real_size = IF b = a THEN s.tag[b].real_size - rest
                                      ELSE s.tag[b].real_size
              /\ m.tag[b].split_right = IF b = a THEN new ELSE s.tag[b].split_right
              /\ m.tag[b].split_left = IF b = t.split_right THEN new
                                       ELSE s.tag[b].split_left
    BY <2>5 DEF Cut
  <2>8. Chains(m) /\ Acyclic(m)
    <3>1. SameLists(s, m)
      BY <2>1, <2>7 DEF SameLists
    <3> QED
      BY <1>2, <1>5, <2>5, <3>1, ChainsKept, AcyclicKept DEF Sound
  <2>9. Apart(m)
    <3>1. ASSUME NEW b \in DOMAIN m.tag, m.tag[b].split_right # NULL, m.tag[b].index >= 0
          PROVE  ~(m.tag[m.tag[b].split_right].index >= 0)
      <4>1. b # a /\ b # new
        BY <2>1, <2>7, <3>1 DEF Listed
      <4>2. b \in DOMAIN s.tag /\ s.tag[b].index >= 0 /\ m.tag[b].split_right = s.tag[b].split_right
        BY <2>7, <3>1, <4>1 DEF Listed
      <4>3. s.tag[b].split_right \in DOMAIN s.tag
        BY <3>1, <4>2, <1>5 DEF Sound, Mirrored
      <4> QED
        BY <2>7, <3>1, <4>2, <4>3, <1>5 DEF Sound, Apart, Listed
    <3> QED
      BY <3>1 DEF Apart
  <2>10. Sound(m, end, gone)
    BY <1>5, <2>5, <2>6, <2>8, <2>9 DEF Sound
  <2>11. new \in Loose(m) /\ Loose(m) = Loose(s) \cup {new}
    BY <2>7 DEF Loose, Listed
  <2>12. m.tag[a].index = -1 /\ a \in DOMAIN m.tag
    BY <2>1, <2>7 DEF Listed
  <2>13. t.split_right # NULL => m.tag[t.split_right].index = -1
    <3>1. ASSUME t.split_right # NULL
          PROVE  t.split_right \in DOMAIN s.tag
      BY <3>1, <2>1, <1>5 DEF Sound, Mirrored
    <3> QED
      BY <2>1, <2>7, <3>1, <1>4 DEF Listed
  <2>14. /\ Sound(k, end, gone) /\ Loose(k) = Loose(m) \ {new}
         /\ SameSizes(m, k) /\ k.complete = m.complete
         /\ \A j \in Buckets : Runs(k, j) = Runs(m, j)
    <3>1. ~Unsplit(m.tag[new])
      BY <2>7, <1>1 DEF Unsplit
    <3>2. k = insert_tag(m, new, Bucket(m.tag[new].real_size - TagSize))
      BY <1>9, <2>5, <2>7
    <3>3. /\ m.tag[new].split_left # NULL => m.tag[m.tag[new].split_left].index = -1
          /\ m.tag[new].split_right # NULL => m.tag[m.tag[new].split_right].index = -1
      BY <2>7, <2>12, <2>13
    <3> QED
      BY <2>10, <2>11, <3>1, <3>2, <3>3, InsertSound DEF Joins
  <2>15. SameRuns(s, m)
    <3>1. ASSUME NEW j \in Buckets, NEW b \in DOMAIN s.tag, b # a
          PROVE  Unsplit(m.tag[b]) <=> Unsplit(s.tag[b])
      <4>1. t.split_right # NULL => s.tag[t.split_right].split_left = a
        BY <2>1, <1>5 DEF Sound, Mirrored
      <4>2. b # NULL /\ new # NULL
        BY <2>3, Fields, <1>2, HeapAssumption DEF Addr, NULL
      <4> QED
        BY <2>7, <3>1, <4>1, <4>2, <1>1 DEF Unsplit
    <3>2. ASSUME NEW j \in Buckets
          PROVE  Runs(m, j) = Runs(s, j)
      <4>1. /\ a \notin Runs(m, j) /\ a \notin Runs(s, j) /\ new \notin Runs(m, j)
        BY <2>1, <2>7, <2>12, Bucketed DEF Runs
      <4> QED
        BY <2>7, <3>1, <4>1 DEF Runs, Listed
    <3> QED
      BY <3>2 DEF SameRuns
  <2>16. Loose(k) = Loose(h)
    <3>1. new \notin Loose(s)
      BY <2>4 DEF Loose
    <3> QED
      BY <2>11, <2>14, <3>1, <1>6
  <2>17. \A b \in Loose(h) : k.tag[b].size = s.tag[b].size
    <3>1. \A b \in Loose(h) : b \in Loose(m) /\ b \in Loose(k) /\ b \in DOMAIN s.tag
      BY <2>11, <2>16, <1>4, <1>6 DEF Loose
    <3> QED
      BY <2>7, <2>14, <3>1 DEF SameSizes
  <2>18. \A b \in Loose(h) : b \in DOMAIN h.tag
    BY DEF Loose
  <2>19. SameRuns(h, k)
    BY <2>14, <2>15, <1>7 DEF SameRuns
  <2> QED
    BY <2>7, <2>14, <2>16, <2>17, <2>18, <2>19, <1>4
<1> QED
  BY <1>3, <1>8, <1>9

(* A block of fresh pages is loose. *)
LEMMA AddSound ==
    ASSUME NEW h, NEW end, NEW gone, Sound(h, end, gone),
           NEW size \in Nat, NEW n \in Nat, size + TagSize <= n, RunBytes <= n,
           end + n \in Addr,
           NEW k, Typed(k), Added(h, k, end, Fresh(size, n))
    PROVE  /\ Sound(k, end + n, gone)
           /\ Loose(k) = Loose(h) \cup {end} /\ end \notin DOMAIN h.tag
           /\ SameSizes(h, k) /\ SameRuns(h, k)
           /\ k.complete = h.complete
           /\ k.tag[end].split_right = NULL
           /\ k.tag[end].real_size = n
<1>1. end \in Int /\ end >= HeapStart /\ end # NULL
  BY HeapAssumption DEF Sound, Addr, NULL
<1>2. Mirrored(k) /\ Tiles(k, end + n, gone) /\ Spaced(k)
  BY <1>1, AddedBlocks, AddedSpaced DEF Sound
<1>3. end \notin DOMAIN h.tag
  <2>1. SUFFICES ASSUME end \in DOMAIN h.tag PROVE FALSE
    OBVIOUS
  <2>2. end < end
    BY <2>1, <1>1, Ends DEF Sound
  <2> QED
    BY <1>1, <2>2
<1>4. /\ DOMAIN k.tag = DOMAIN h.tag \cup {end} /\ k.free = h.free /\ k.complete = h.complete
      /\ \A b \in DOMAIN h.tag : k.tag[b] = h.tag[b]
      /\ k.tag[end].index = -1 /\ k.tag[end].next = NULL /\ k.tag[end].prev = NULL
      /\ k.tag[end].split_left = NULL /\ k.tag[end].split_right = NULL
      /\ k.tag[end].real_size = n
  BY DEF Added, Fresh
<1>5. Chains(k) /\ Acyclic(k)
  <2>1. SameLists(h, k)
    BY <1>4 DEF SameLists, Listed
  <2> QED
    BY <2>1, ChainsKept, AcyclicKept DEF Sound
<1>6. Apart(k)
  <2>1. \A b \in DOMAIN h.tag : h.tag[b].split_right # NULL => h.tag[b].split_right \in DOMAIN h.tag
    BY DEF Sound, Mirrored
  <2> QED
    BY <1>4, <2>1 DEF Apart, Sound
<1>7. Sound(k, end + n, gone)
  BY <1>2, <1>5, <1>6 DEF Sound
<1>8. Loose(k) = Loose(h) \cup {end}
  BY <1>4 DEF Loose
<1>9. SameSizes(h, k)
  BY <1>4 DEF SameSizes, Loose
<1>10. SameRuns(h, k)
  <2>1. ASSUME NEW i \in Buckets
        PROVE  Runs(k, i) = Runs(h, i)
    <3>1. end \notin Runs(k, i) /\ end \notin Runs(h, i)
      BY <1>3, <1>4, Bucketed DEF Runs
    <3> QED
      BY <3>1, <1>4 DEF Runs
  <2> QED
    BY <2>1 DEF SameRuns
<1> QED
  BY <1>3, <1>4, <1>7, <1>8, <1>9, <1>10

(* A loose block that is linked to no other can go. *)
LEMMA DropSound ==
    ASSUME NEW h, NEW end, NEW gone, Sound(h, end, gone),
           NEW a \in Loose(h), Unsplit(h.tag[a]),
           NEW k, Typed(k), Dropped(h, k, a)
    PROVE  /\ Sound(k, end, gone \cup (a .. a + h.tag[a].real_size - 1))
           /\ Loose(k) = Loose(h) \ {a}
           /\ SameSizes(h, k) /\ SameRuns(h, k)
           /\ k.complete = h.complete
<1>1. a \in DOMAIN h.tag /\ h.tag[a].index = -1 /\ a \in Int /\ h.tag[a].real_size \in Nat
  BY Fields DEF Loose, Sound
<1>2. Mirrored(k) /\ Tiles(k, end, gone \cup (a .. a + h.tag[a].real_size - 1))
  <2>1. h.tag[a].split_left = NULL /\ h.tag[a].split_right = NULL
    BY DEF Unsplit
  <2>2. end \in Int /\ gone \subseteq Int /\ Typed(h) /\ Mirrored(h) /\ Tiles(h, end, gone)
    BY HeapAssumption DEF Sound, Addr
  <2> QED
    BY <1>1, <2>1, <2>2, DroppedBlocks
<1>3. /\ DOMAIN k.tag = DOMAIN h.tag \ {a} /\ k.free = h.free /\ k.complete = h.complete
      /\ \A b \in DOMAIN h.tag \ {a} : k.tag[b] = h.tag[b]
  BY DEF Dropped
<1>4. Chains(k) /\ Acyclic(k)
  <2>1. SameLists(h, k)
    BY <1>1, <1>3 DEF SameLists, Listed
  <2> QED
    BY <2>1, ChainsKept, AcyclicKept DEF Sound
<1>5. Apart(k) /\ Spaced(k)
  <2>1. \A b \in DOMAIN k.tag : k.tag[b].split_right # NULL => k.tag[b].split_right \in DOMAIN k.tag
    BY <1>2 DEF Mirrored
  <2>2. Apart(k)
    BY <1>3, <2>1 DEF Apart, Sound
  <2>3. Spaced(k)
    BY <1>3 DEF Spaced, Sound
  <2> QED
    BY <2>2, <2>3
<1>6. Sound(k, end, gone \cup (a .. a + h.tag[a].real_size - 1))
  <2>1. gone \cup (a .. a + h.tag[a].real_size - 1) \subseteq Int
    <3>1. gone \subseteq Int
      BY DEF Sound
    <3>2. \A x \in a .. a + h.tag[a].real_size - 1 : x \in Int
      BY <1>1
    <3> QED
      BY <3>1, <3>2
  <2> QED
    BY <2>1, <1>2, <1>4, <1>5 DEF Sound
<1>7. Loose(k) = Loose(h) \ {a}
  BY <1>3 DEF Loose
<1>8. SameSizes(h, k)
  BY <1>3 DEF SameSizes, Loose
<1>9. SameRuns(h, k)
  <2>1. ASSUME NEW i \in Buckets
        PROVE  Runs(k, i) = Runs(h, i)
    BY <1>1, <1>3, Bucketed DEF Runs
  <2> QED
    BY <2>1 DEF SameRuns
<1> QED
  BY <1>3, <1>6, <1>7, <1>8, <1>9

(* melt_left joins a with the block before it and takes the latter off its list
   afterwards: that is the same as taking it off first. *)
LEMMA MeltTags ==
    ASSUME NEW h, NEW end, NEW gone, Sound(h, end, gone),
           NEW left, NEW a, NextTo(h, left, a), a \in Loose(h),
           NEW m, m = remove_tag(h, left),
           NEW k, k = remove_tag(Join(h, left, a), left)
    PROVE  Typed(k) /\ Joined(m, k, left, a)
<1> DEFINE j == Join(h, left, a)
           t == h.tag[left]
<1>1. left \in DOMAIN h.tag /\ a \in DOMAIN h.tag /\ left # a /\ left # NULL /\ a # NULL
  BY Neighbours DEF Sound, NextTo
<1>2. Typed(j) /\ Joined(h, j, left, a)
  BY <1>1, JoinTags DEF Sound
<1>3. left \in DOMAIN j.tag
  BY <1>1, <1>2 DEF Joined
<1>4. Typed(k) /\ Removed(j, k, left)
  BY <1>2, <1>3, RemoveTag
<1>5. Typed(m) /\ Removed(h, m, left)
  BY <1>1, RemoveTag DEF Sound
<1> HIDE DEF j
<1>6. t.prev # a /\ t.next # a
  BY <1>1 DEF Sound, Chains, Loose
<1>7. /\ j.tag[left].index = t.index /\ j.tag[left].next = t.next /\ j.tag[left].prev = t.prev
  BY <1>2, <1>3 DEF Joined, Listed
<1>8. /\ m.tag[a].real_size = h.tag[a].real_size
      /\ m.tag[a].split_right = h.tag[a].split_right
  BY <1>1, <1>5 DEF Removed, Kept
<1>9. DOMAIN k.tag = DOMAIN h.tag \ {a} /\ DOMAIN m.tag = DOMAIN h.tag /\ DOMAIN j.tag = DOMAIN h.tag \ {a}
  BY <1>2, <1>4, <1>5 DEF Joined, Removed
<1>10. ASSUME NEW b \in DOMAIN h.tag \ {a}
       PROVE  /\ Listed(k.tag[b], m.tag[b])
              /\ k.tag[b].size = m.tag[b].size
              /\ k.tag[b].real_size = IF b = left THEN m.tag[b].real_size + m.tag[a].real_size
                                      ELSE m.tag[b].real_size
              /\ k.tag[b].split_right = IF b = left THEN m.tag[a].split_right
                                        ELSE m.tag[b].split_right
              /\ k.tag[b].split_left = IF b = m.tag[a].split_right THEN left
                                       ELSE m.tag[b].split_left
  <2>1. /\ Kept(k.tag[b], j.tag[b])
        /\ k.tag[b].index = IF b = left THEN -1 ELSE j.tag[b].index
        /\ k.tag[b].next = IF b = left THEN NULL
                           ELSE IF b = t.prev THEN t.next ELSE j.tag[b].next
        /\ k.tag[b].prev = IF b = left THEN NULL
                           ELSE IF b = t.next THEN t.prev ELSE j.tag[b].prev
    BY <1>4, <1>7, <1>9 DEF Removed
  <2>2. /\ Kept(m.tag[b], h.tag[b])
        /\ m.tag[b].index = IF b = left THEN -1 ELSE h.tag[b].index
        /\ m.tag[b].next = IF b = left THEN NULL
                           ELSE IF b = t.prev THEN t.next ELSE h.tag[b].next
        /\ m.tag[b].prev = IF b = left THEN NULL
                           ELSE IF b = t.next THEN t.prev ELSE h.tag[b].prev
    BY <1>5 DEF Removed
  <2>3. /\ Listed(j.tag[b], h.tag[b])
        /\ j.tag[b].size = h.tag[b].size
        /\ j.tag[b].real_size = IF b = left THEN h.tag[b].real_size + h.tag[a].real_size
                                ELSE h.tag[b].real_size
        /\ j.tag[b].split_right = IF b = left THEN h.tag[a].split_right
                                  ELSE h.tag[b].split_right
        /\ j.tag[b].split_left = IF b = h.tag[a].split_right THEN left
                                 ELSE h.tag[b].split_left
    BY <1>2 DEF Joined
  <2>4. Listed(k.tag[b], m.tag[b])
    BY <2>1, <2>2, <2>3 DEF Listed
  <2>5. k.tag[b].size = m.tag[b].size
    BY <2>1, <2>2, <2>3 DEF Kept
  <2>6. k.tag[b].real_size = IF b = left THEN m.tag[b].real_size + m.tag[a].real_size
                             ELSE m.tag[b].real_size
    BY <2>1, <2>2, <2>3, <1>8 DEF Kept
  <2>7. /\ k.tag[b].split_right = IF b = left THEN m.tag[a].split_right
                                  ELSE m.tag[b].split_right
        /\ k.tag[b].split_left = IF b = m.tag[a].split_right THEN left
                                 ELSE m.tag[b].split_left
    BY <2>1, <2>2, <2>3, <1>8 DEF Kept
  <2> QED
    BY <2>4, <2>5, <2>6, <2>7
<1>11. k.free = m.free
  <2>1. \A i \in Buckets : k.free[i] = m.free[i]
    BY <1>2, <1>4, <1>5, <1>7 DEF Removed, Joined
  <2> QED
    BY <2>1, <1>4, <1>5 DEF Typed
<1>12. k.complete = m.complete
  BY <1>2, <1>4, <1>5 DEF Removed, Joined
<1>13. Joined(m, k, left, a)
  BY <1>9, <1>10, <1>11, <1>12 DEF Joined
<1> QED
  BY <1>4, <1>13

-----------------------------------------------------------------------------
(* The heap as it is, and what each step under the lock makes of it. *)

Counted(h) ==
    /\ h.complete \in [Buckets -> 0 .. MaxComplete]
    /\ \A i \in Buckets : h.complete[i] = Cardinality(Runs(h, i))

HeapInv ==
    /\ Sound(Now, heap_cur, released)
    /\ Counted(Now)
    /\ l_initialized = 0 => DOMAIN tag = {}

Out == Loose(Now)

(* Now has the tables of the state. *)
LEMMA NowTables ==
    /\ Now.tag = tag /\ Now.free = free /\ Now.complete = complete
    /\ Now'.tag = tag' /\ Now'.free = free' /\ Now'.complete = complete'
BY DEF Now, HeapOf

(* What is said of a heap is said of its tables. *)
LEMMA SameTables ==
    ASSUME NEW h, NEW k, k.tag = h.tag, k.free = h.free, NEW end, NEW gone
    PROVE  /\ Sound(h, end, gone) => Sound(k, end, gone)
           /\ Loose(k) = Loose(h)
           /\ \A i \in Buckets : Runs(k, i) = Runs(h, i)
<1>1. Sound(h, end, gone) => Sound(k, end, gone)
  <2>1. Typed(h) => Typed(k)
    BY DEF Typed
  <2>2. Chains(h) => Chains(k)
    BY DEF Chains
  <2>3. Acyclic(h) => Acyclic(k)
    BY DEF Acyclic, Behind
  <2>4. Mirrored(h) => Mirrored(k)
    BY DEF Mirrored
  <2>5. Tiles(h, end, gone) => Tiles(k, end, gone)
    BY DEF Tiles, Within
  <2>6. Apart(h) /\ Spaced(h) => Apart(k) /\ Spaced(k)
    BY DEF Apart, Spaced
  <2> QED
    BY <2>1, <2>2, <2>3, <2>4, <2>5, <2>6 DEF Sound
<1> QED
  BY <1>1 DEF Loose, Runs

(* There are finitely many tags. *)
LEMMA RunsFinite ==
    ASSUME NEW h, Typed(h), NEW i
    PROVE  IsFiniteSet(Runs(h, i)) /\ Cardinality(Runs(h, i)) \in Nat
<1>1. IsFiniteSet(Addr)
  BY HeapAssumption, FS_Interval DEF Addr
<1>2. Runs(h, i) \in SUBSET Addr
  BY DEF Runs, Typed
<1> QED
  BY <1>1, <1>2, FS_Subset, FS_CardinalityType

(* A count that follows the whole runs stays true: it goes down with a run that
   leaves list i, and up with one that joins it. *)
LEMMA CountedKept ==
    ASSUME NEW h, NEW k, Typed(h), Counted(h), SameRuns(h, k), k.complete = h.complete
    PROVE  Counted(k)
BY DEF Counted, SameRuns

(* The count goes down by one when a whole run leaves its list. *)
LEMMA CountedTaken ==
    ASSUME NEW h, NEW k, Typed(h), Counted(h), NEW i \in Buckets,
           NEW a \in DOMAIN h.tag, h.tag[a].index = i,
           \A j \in Buckets : Runs(k, j) = Runs(h, j) \ {a},
           k.complete = IF Unsplit(h.tag[a]) THEN [h.complete EXCEPT ![i] = @ - 1]
                        ELSE h.complete
    PROVE  Counted(k)
<1>1. \A j \in Buckets : h.complete[j] \in 0 .. MaxComplete
                         /\ h.complete[j] = Cardinality(Runs(h, j))
  BY DEF Counted
<1>2. ASSUME NEW j \in Buckets
      PROVE  IsFiniteSet(Runs(h, j)) /\ Cardinality(Runs(h, j)) \in Nat
  BY RunsFinite
<1>3. \A j \in Buckets : a \in Runs(h, j) <=> j = i /\ Unsplit(h.tag[a])
  BY DEF Runs
<1>4. CASE Unsplit(h.tag[a])
  <2>1. k.complete = [h.complete EXCEPT ![i] = @ - 1]
    BY <1>4
  <2>2. Cardinality(Runs(h, i) \ {a}) = Cardinality(Runs(h, i)) - 1
    BY <1>2, <1>3, <1>4, FS_RemoveElement
  <2>3. Cardinality(Runs(h, i) \ {a}) \in Nat
    BY <1>2, FS_RemoveElement, FS_CardinalityType
  <2>4. h.complete[i] - 1 \in 0 .. MaxComplete
    BY <1>1, <2>2, <2>3, SizeAssumption
  <2>5. k.complete \in [Buckets -> 0 .. MaxComplete]
    BY <2>1, <2>4 DEF Counted
  <2>6. ASSUME NEW j \in Buckets
        PROVE  k.complete[j] = Cardinality(Runs(k, j))
    <3>1. CASE j = i
      <4>1. k.complete[i] = h.complete[i] - 1
        BY <2>1 DEF Counted
      <4> QED
        BY <3>1, <4>1, <2>2, <1>1
    <3>2. CASE j # i
      <4>1. k.complete[j] = h.complete[j]
        BY <2>1, <3>2 DEF Counted
      <4>2. Runs(h, j) \ {a} = Runs(h, j)
        BY <1>3, <3>2
      <4> QED
        BY <4>1, <4>2, <1>1
    <3> QED
      BY <3>1, <3>2
  <2> QED
    BY <2>5, <2>6 DEF Counted
<1>5. CASE ~Unsplit(h.tag[a])
  <2>1. \A j \in Buckets : Runs(k, j) = Runs(h, j)
    BY <1>3, <1>5
  <2> QED
    BY <2>1, <1>5 DEF Counted
<1> QED
  BY <1>4, <1>5

(* The count goes up by one when a whole run is put on a list that has room for it. *)
LEMMA CountedPut ==
    ASSUME NEW h, NEW k, Typed(h), Counted(h), NEW i \in Buckets,
           NEW a \in DOMAIN h.tag, h.tag[a].index # i,
           Unsplit(h.tag[a]) => h.complete[i] # MaxComplete,
           Joins(h, k, a, i),
           k.complete = IF Unsplit(h.tag[a]) THEN [h.complete EXCEPT ![i] = @ + 1]
                        ELSE h.complete
    PROVE  Counted(k)
<1>1. \A j \in Buckets : h.complete[j] \in 0 .. MaxComplete
                         /\ h.complete[j] = Cardinality(Runs(h, j))
  BY DEF Counted
<1>2. \A j \in Buckets :
        Runs(k, j) = IF j = i /\ Unsplit(h.tag[a]) THEN Runs(h, j) \cup {a} ELSE Runs(h, j)
  BY DEF Joins
<1>3. IsFiniteSet(Runs(h, i)) /\ Cardinality(Runs(h, i)) \in Nat
  BY RunsFinite
<1>4. a \notin Runs(h, i)
  BY DEF Runs
<1>5. CASE Unsplit(h.tag[a])
  <2>1. k.complete = [h.complete EXCEPT ![i] = @ + 1]
    BY <1>5
  <2>2. Cardinality(Runs(h, i) \cup {a}) = Cardinality(Runs(h, i)) + 1
    BY <1>3, <1>4, FS_AddElement
  <2>3. h.complete[i] + 1 \in 0 .. MaxComplete
    BY <1>1, <1>5, SizeAssumption
  <2>4. k.complete \in [Buckets -> 0 .. MaxComplete]
    BY <2>1, <2>3 DEF Counted
  <2>5. ASSUME NEW j \in Buckets
        PROVE  k.complete[j] = Cardinality(Runs(k, j))
    <3>1. CASE j = i
      <4>1. k.complete[i] = h.complete[i] + 1
        BY <2>1 DEF Counted
      <4> QED
        BY <3>1, <4>1, <2>2, <1>2, <1>1, <1>5
    <3>2. CASE j # i
      <4>1. k.complete[j] = h.complete[j]
        BY <2>1, <3>2 DEF Counted
      <4> QED
        BY <4>1, <3>2, <1>2, <1>1
    <3> QED
      BY <3>1, <3>2
  <2> QED
    BY <2>4, <2>5 DEF Counted
<1>6. CASE ~Unsplit(h.tag[a])
  BY <1>2, <1>6 DEF Counted
<1> QED
  BY <1>5, <1>6

(* What a tag on a list, or beside another, looks like in the state. *)
LEMMA HeapFacts ==
    ASSUME HeapInv, NEW a \in DOMAIN tag
    PROVE  /\ a \in Int /\ a # NULL /\ a \in Ptr /\ a \in Addr
           /\ tag[a].size \in Nat /\ tag[a].real_size \in Nat
           /\ tag[a].size + TagSize <= tag[a].real_size
           /\ a + tag[a].real_size <= heap_cur
           /\ HeapStart <= a /\ a < heap_cur
           /\ tag[a].index \in Int
           /\ tag[a].split_left \in Ptr /\ tag[a].split_right \in Ptr
           /\ tag[a].next \in Ptr /\ tag[a].prev \in Ptr
           /\ a \in Out <=> ~(tag[a].index >= 0)
           /\ a \in Out <=> tag[a].index = -1
           /\ tag[a].index >= 0 => tag[a].index = Bucket(Room(a)) /\ tag[a].index \in Buckets
<1>1. Sound(Now, heap_cur, released) /\ Now.tag = tag /\ Typed(Now) /\ Chains(Now)
      /\ Tiles(Now, heap_cur, released) /\ heap_cur \in Int
  BY NowTables, HeapAssumption DEF HeapInv, Sound, Addr
<1>2. HeapStart <= a /\ a < heap_cur /\ a + tag[a].real_size <= heap_cur
  BY <1>1, Ends
<1>3. tag[a].size + TagSize <= tag[a].real_size
  BY <1>1 DEF Tiles
<1>4. /\ a \in Out <=> ~(tag[a].index >= 0)
      /\ tag[a].index >= 0 => tag[a].index = Bucket(Room(a)) /\ tag[a].index \in Buckets
  BY <1>1, LooseOrListed DEF Out, Room
<1>5. a \in Out <=> tag[a].index = -1
  BY <1>1 DEF Out, Loose
<1>6. a \in Addr
  BY <1>1 DEF Typed
<1> QED
  BY <1>1, <1>2, <1>3, <1>4, <1>5, <1>6, Fields

(* malloc takes the free block a, which fits. *)
LEMMA TakeHeap ==
    ASSUME HeapInv, NEW a \in DOMAIN tag, NEW size \in Nat,
           tag[a].index >= 0, tag[a].index = Bucket(size), Fits(a, size),
           Becomes(Taken(a, size)),
           heap_cur' = heap_cur, released' = released, l_initialized' = l_initialized
    PROVE  /\ HeapInv'
           /\ a \notin Out /\ Out' = Out \cup {a}
           /\ tag'[a].size = size
           /\ \A b \in Out : tag'[b].size = tag[b].size
<1> DEFINE c == IF Whole(a) THEN [complete EXCEPT ![Bucket(size)] = @ - 1] ELSE complete
           h == HeapOf(tag, free, c)
           m == remove_tag(h, a)
           k == Carve(m, a, size)
<1>1. h.tag = tag /\ h.free = free /\ h.complete = c
  BY DEF HeapOf
<1>2. /\ Sound(h, heap_cur, released) /\ Loose(h) = Out
      /\ \A i \in Buckets : Runs(h, i) = Runs(Now, i)
  BY <1>1, NowTables, SameTables DEF HeapInv, Out
<1> HIDE DEF c, h
<1>3. /\ Sound(m, heap_cur, released) /\ Removed(h, m, a)
      /\ Loose(m) = Loose(h) \cup {a} /\ SameSizes(h, m)
      /\ \A i \in Buckets : Runs(m, i) = Runs(h, i) \ {a}
      /\ m.complete = h.complete /\ DOMAIN m.tag = DOMAIN h.tag
      /\ \A b \in DOMAIN h.tag : Kept(m.tag[b], h.tag[b])
  BY <1>1, <1>2, RemoveSound
<1> HIDE DEF m
<1>4. Sound(Now, heap_cur, released) /\ Now.tag = tag /\ Typed(Now) /\ Now.complete = complete
  BY NowTables DEF HeapInv, Sound
<1>5. a \notin Out /\ tag[a].real_size \in Nat /\ tag[a].index \in Buckets
  BY HeapFacts
<1>6. size + TagSize <= m.tag[a].real_size
  <2>1. m.tag[a].real_size = tag[a].real_size
    BY <1>1, <1>3 DEF Kept
  <2> QED
    BY <2>1, <1>5, SizeAssumption DEF Fits, Room
<1>7. m.tag[a].split_right # NULL => m.tag[m.tag[a].split_right].index = -1
  <2>1. SUFFICES ASSUME m.tag[a].split_right # NULL
                 PROVE  m.tag[m.tag[a].split_right].index = -1
    OBVIOUS
  <2> DEFINE b == tag[a].split_right
  <2>2. m.tag[a].split_right = b /\ b # NULL
    BY <2>1, <1>1, <1>3 DEF Kept
  <2>3. b \in DOMAIN tag /\ ~(tag[b].index >= 0)
    BY <2>2, <1>4 DEF Sound, Mirrored, Apart
  <2>4. tag[b].index = -1
    BY <2>3, HeapFacts
  <2>5. m.tag[b].index = -1
    BY <2>3, <2>4, <1>1, <1>3 DEF Removed
  <2> QED
    BY <2>2, <2>5
<1>8. /\ Sound(k, heap_cur, released) /\ Loose(k) = Loose(m)
      /\ k.tag[a].size = size
      /\ \A b \in Loose(m) \ {a} : k.tag[b].size = m.tag[b].size
      /\ SameRuns(m, k) /\ k.complete = m.complete
  BY <1>3, <1>6, <1>7, CarveSound
<1> HIDE DEF k
<1>9. tag' = k.tag /\ free' = k.free /\ complete' = k.complete
  BY DEF Becomes, Taken, k, m, h, c
<1>10. /\ Sound(Now', heap_cur', released') /\ Out' = Loose(k)
       /\ \A i \in Buckets : Runs(Now', i) = Runs(k, i)
  BY <1>8, <1>9, NowTables, SameTables DEF Out
<1>11. Counted(Now')
  <2>1. Counted(Now) /\ Typed(Now) /\ Now.complete = complete /\ Now.tag = tag
    BY NowTables, <1>4 DEF HeapInv
  <2>2. Now'.complete = IF Unsplit(Now.tag[a]) THEN [Now.complete EXCEPT ![Bucket(size)] = @ - 1]
                        ELSE Now.complete
    BY <1>1, <1>3, <1>4, <1>8, <1>9, NowTables DEF c, Whole, Unsplit
  <2>3. \A j \in Buckets : Runs(Now', j) = Runs(Now, j) \ {a}
    BY <1>2, <1>3, <1>8, <1>10 DEF SameRuns
  <2> QED
    BY <2>1, <2>2, <2>3, <1>5, CountedTaken
<1>12. HeapInv'
  <2>1. l_initialized' # 0
    BY DEF HeapInv
  <2> QED
    BY <2>1, <1>10, <1>11 DEF HeapInv
<1>13. \A b \in Out : k.tag[b].size = tag[b].size
  <2>1. \A b \in Out : b \in Loose(m) \ {a} /\ b \in DOMAIN tag
    BY <1>2, <1>3, <1>5, NowTables DEF Out, Loose
  <2> QED
    BY <2>1, <1>1, <1>2, <1>3, <1>8 DEF SameSizes
<1> QED
  BY <1>2, <1>3, <1>5, <1>8, <1>9, <1>10, <1>12, <1>13

(* The pages malloc asks for hold the tag and what is asked for. *)
LEMMA BytesEnough ==
    ASSUME NEW size \in Nat
    PROVE  Bytes(size) \in Nat /\ size + TagSize <= Bytes(size) /\ RunBytes <= Bytes(size)
<1> DEFINE n == Bytes(size)
<1> DEFINE s == size + TagSize
           q == s \div PageSize
           r == s % PageSize
<1>1. s \in Nat /\ PageSize \in Nat \ {0} /\ PageCount \in Nat
  BY SizeAssumption
<1>2. q \in Nat /\ r \in 0 .. PageSize - 1 /\ s = PageSize * q + r
  BY <1>1
<1> HIDE DEF q, r, s
<1> DEFINE g == q + (IF r # 0 THEN 1 ELSE 0)
           p == IF g < PageCount THEN PageCount ELSE g
<1>3. n = p * PageSize
  BY DEF Bytes, PagesFor, q, r, s
<1>4. g \in Nat /\ p \in Nat /\ g <= p /\ PageCount <= p
  BY <1>1, <1>2
<1>5. s <= g * PageSize
  <2>1. CASE r = 0
    BY <2>1, <1>1, <1>2
  <2>2. CASE r # 0
    <3>1. g * PageSize = q * PageSize + PageSize
      BY <2>2, <1>1, <1>2
    <3>2. r <= PageSize - 1
      BY <1>2
    <3> QED
      BY <3>1, <3>2, <1>1, <1>2
  <2> QED
    BY <2>1, <2>2
<1> HIDE DEF g, p
<1>6. g * PageSize <= p * PageSize /\ g * PageSize \in Nat /\ p * PageSize \in Nat
  BY <1>1, <1>4
<1>7. PageCount * PageSize <= p * PageSize
  BY <1>1, <1>4
<1> QED
  BY <1>1, <1>3, <1>5, <1>6, <1>7 DEF s, RunBytes

(* malloc makes a block of fresh pages behind all others. *)
LEMMA GrowHeap ==
    ASSUME HeapInv, NEW size \in Nat, ~Exhausted(size), l_initialized # 0,
           Becomes(Grown(size)),
           heap_cur' = heap_cur + Bytes(size), released' = released,
           l_initialized' = l_initialized
    PROVE  /\ HeapInv'
           /\ heap_cur \notin Out /\ Out' = Out \cup {heap_cur}
           /\ tag'[heap_cur].size = size
           /\ \A b \in Out : tag'[b].size = tag[b].size
<1> DEFINE n == Bytes(size)
           h == HeapOf([b \in DOMAIN tag \cup {heap_cur} |->
                          IF b = heap_cur THEN Fresh(size, n) ELSE tag[b]], free, complete)
           k == Carve(h, heap_cur, size)
<1>1. Sound(Now, heap_cur, released) /\ Typed(Now)
      /\ Now.tag = tag /\ Now.free = free /\ Now.complete = complete
      /\ heap_cur \in Addr /\ heap_cur \in Int
  BY NowTables, HeapAssumption DEF HeapInv, Sound, Addr
<1>2. n \in Nat /\ size + TagSize <= n /\ RunBytes <= n
  BY BytesEnough
<1>3. heap_cur \notin DOMAIN tag
  <2>1. SUFFICES ASSUME heap_cur \in DOMAIN tag PROVE FALSE
    OBVIOUS
  <2>2. heap_cur < heap_cur
    BY <2>1, HeapFacts
  <2> QED
    BY <2>2, <1>1
<1>4. heap_cur + n \in Addr
  BY <1>1, <1>2, HeapAssumption DEF Addr, Exhausted
<1> HIDE DEF n, h
<1>5. Typed(h) /\ Added(Now, h, heap_cur, Fresh(size, n))
  <2>1. h = HeapOf([b \in DOMAIN Now.tag \cup {heap_cur} |->
                      IF b = heap_cur THEN Fresh(size, n) ELSE Now.tag[b]],
                   Now.free, Now.complete)
    BY <1>1 DEF h
  <2> QED
    BY <2>1, <1>1, <1>2, <1>3, AddTag
<1>6. /\ Sound(h, heap_cur + n, released)
      /\ Loose(h) = Out \cup {heap_cur} /\ heap_cur \notin DOMAIN tag
      /\ SameSizes(Now, h) /\ SameRuns(Now, h) /\ h.complete = complete
      /\ h.tag[heap_cur].split_right = NULL /\ h.tag[heap_cur].real_size = n
  BY <1>1, <1>2, <1>4, <1>5, AddSound DEF Out
<1>7. /\ Sound(k, heap_cur + n, released) /\ Loose(k) = Loose(h)
      /\ k.tag[heap_cur].size = size
      /\ \A b \in Loose(h) \ {heap_cur} : k.tag[b].size = h.tag[b].size
      /\ SameRuns(h, k) /\ k.complete = h.complete
  BY <1>2, <1>6, CarveSound
<1> HIDE DEF k
<1>8. tag' = k.tag /\ free' = k.free /\ complete' = k.complete
  BY DEF Becomes, Grown, Fresh, k, h, n
<1>9. /\ Sound(Now', heap_cur', released') /\ Out' = Loose(k)
      /\ \A i \in Buckets : Runs(Now', i) = Runs(k, i)
  <2>1. Now'.tag = k.tag /\ Now'.free = k.free
    BY <1>8, NowTables
  <2>2. heap_cur' = heap_cur + n
    BY DEF n
  <2> QED
    BY <1>7, <2>1, <2>2, SameTables DEF Out
<1>10. Counted(Now')
  <2>1. SameRuns(Now, Now')
    BY <1>6, <1>7, <1>9 DEF SameRuns
  <2>2. Now'.complete = Now.complete
    BY <1>1, <1>6, <1>7, <1>8, NowTables
  <2> QED
    BY <2>1, <2>2, <1>1, CountedKept DEF HeapInv
<1>11. HeapInv'
  BY <1>9, <1>10 DEF HeapInv
<1>12. \A b \in Out : k.tag[b].size = tag[b].size
  <2>1. \A b \in Out : b \in DOMAIN tag /\ b \in Loose(h) \ {heap_cur}
    BY <1>1, <1>6 DEF Out, Loose
  <2> QED
    BY <2>1, <1>1, <1>6, <1>7 DEF SameSizes, Out
<1>13. heap_cur \notin Out
  BY <1>1, <1>3 DEF Out, Loose
<1> QED
  BY <1>6, <1>7, <1>8, <1>9, <1>11, <1>12, <1>13

(* free joins the loose block a with the free block before it. *)
LEMMA MeltHeap ==
    ASSUME HeapInv, NEW a \in Out, NEW left, left = tag[a].split_left, left # NULL,
           tag[left].index >= 0, Becomes(Melted(a)),
           heap_cur' = heap_cur, released' = released, l_initialized' = l_initialized
    PROVE  /\ HeapInv'
           /\ left \in DOMAIN tag /\ left \notin Out
           /\ Out' = (Out \ {a}) \cup {left}
           /\ \A b \in Out \ {a} : tag'[b].size = tag[b].size
<1> DEFINE m == remove_tag(Now, left)
           k == remove_tag(Join(Now, left, a), left)
<1>1. Sound(Now, heap_cur, released) /\ Typed(Now) /\ Mirrored(Now)
      /\ Now.tag = tag /\ Now.free = free /\ Now.complete = complete
      /\ a \in DOMAIN tag
  BY NowTables DEF HeapInv, Sound, Out, Loose
<1>2. NextTo(Now, left, a) /\ left \in DOMAIN tag /\ left # a /\ a # NULL
  <2>1. NextTo(Now, left, a)
    BY <1>1, Beside
  <2> QED
    BY <2>1, <1>1, Neighbours DEF NextTo, Sound
<1>3. left \notin Out
  BY <1>2, HeapFacts
<1>4. /\ Sound(m, heap_cur, released) /\ Loose(m) = Out \cup {left} /\ SameSizes(Now, m)
      /\ \A i \in Buckets : Runs(m, i) = Runs(Now, i) \ {left}
      /\ m.complete = complete /\ DOMAIN m.tag = DOMAIN tag
      /\ \A b \in DOMAIN tag : Kept(m.tag[b], tag[b])
  BY <1>1, <1>2, RemoveSound DEF Out
<1>5. Typed(k) /\ Joined(m, k, left, a)
  BY <1>1, <1>2, MeltTags DEF Out
<1> HIDE DEF m, k
<1>6. NextTo(m, left, a) /\ left \in Loose(m) /\ a \in Loose(m)
  BY <1>1, <1>2, <1>4 DEF NextTo, Kept
<1>7. /\ Sound(k, heap_cur, released) /\ Loose(k) = Loose(m) \ {a}
      /\ SameSizes(m, k) /\ SameRuns(m, k) /\ k.complete = m.complete
  BY <1>4, <1>5, <1>6, JoinSound
<1>8. tag' = k.tag /\ free' = k.free /\ complete' = k.complete
  BY <1>1 DEF Becomes, Melted, melt_left, k
<1>9. /\ Sound(Now', heap_cur', released') /\ Out' = Loose(k)
      /\ \A i \in Buckets : Runs(Now', i) = Runs(k, i)
  BY <1>7, <1>8, NowTables, SameTables DEF Out
<1>10. Counted(Now')
  <2>1. \A i \in Buckets : left \notin Runs(Now, i)
    BY <1>1, <1>2 DEF Runs, Unsplit, NextTo
  <2>2. SameRuns(Now, Now')
    BY <1>4, <1>7, <1>9, <2>1 DEF SameRuns
  <2>3. Now'.complete = Now.complete
    BY <1>1, <1>4, <1>7, <1>8, NowTables
  <2> QED
    BY <2>2, <2>3, <1>1, CountedKept DEF HeapInv
<1>11. HeapInv'
  <2>1. l_initialized' # 0
    BY <1>1 DEF HeapInv
  <2> QED
    BY <2>1, <1>9, <1>10 DEF HeapInv
<1>12. Out' = (Out \ {a}) \cup {left}
  BY <1>2, <1>4, <1>7, <1>9
<1>13. \A b \in Out \ {a} : tag'[b].size = tag[b].size
  <2>1. \A b \in Out \ {a} : /\ b \in Loose(Now) \cap Loose(m)
                             /\ b \in Loose(m) \cap Loose(k)
    BY <1>4, <1>7 DEF Out
  <2> QED
    BY <2>1, <1>1, <1>4, <1>7, <1>8 DEF SameSizes
<1> QED
  BY <1>2, <1>3, <1>11, <1>12, <1>13

(* free joins the loose block a with the free block after it; what is before it
   stays as it was. *)
LEMMA AbsorbHeap ==
    ASSUME HeapInv, NEW a \in Out, tag[a].split_right # NULL,
           tag[tag[a].split_right].index >= 0, Becomes(absorb_right(Now, a)),
           heap_cur' = heap_cur, released' = released, l_initialized' = l_initialized
    PROVE  /\ HeapInv'
           /\ Out' = Out
           /\ \A b \in Out : tag'[b].size = tag[b].size
           /\ tag'[a].split_left = tag[a].split_left
<1> DEFINE right == tag[a].split_right
           m == remove_tag(Now, right)
           k == Join(m, a, right)
<1>1. Sound(Now, heap_cur, released) /\ Typed(Now) /\ Mirrored(Now)
      /\ Now.tag = tag /\ Now.free = free /\ Now.complete = complete
      /\ a \in DOMAIN tag
  BY NowTables DEF HeapInv, Sound, Out, Loose
<1>2. NextTo(Now, a, right) /\ right \in DOMAIN tag /\ right # a /\ a # NULL
  <2>1. NextTo(Now, a, right)
    BY <1>1, Beside
  <2> QED
    BY <2>1, <1>1, Neighbours DEF NextTo, Sound
<1>3. right \notin Out
  BY <1>2, HeapFacts
<1>4. /\ Sound(m, heap_cur, released) /\ Loose(m) = Out \cup {right} /\ SameSizes(Now, m)
      /\ \A i \in Buckets : Runs(m, i) = Runs(Now, i) \ {right}
      /\ m.complete = complete /\ DOMAIN m.tag = DOMAIN tag
      /\ \A b \in DOMAIN tag : Kept(m.tag[b], tag[b])
  BY <1>1, <1>2, RemoveSound DEF Out
<1>5. Typed(k) /\ Joined(m, k, a, right)
  BY <1>1, <1>2, <1>4, JoinTags DEF Sound
<1>6. tag' = k.tag /\ free' = k.free /\ complete' = k.complete
  BY <1>1 DEF Becomes, absorb_right
<1> HIDE DEF m, k
<1>7. NextTo(m, a, right) /\ right \in Loose(m) /\ a \in Loose(m)
  BY <1>1, <1>2, <1>4 DEF NextTo, Kept
<1>8. /\ Sound(k, heap_cur, released) /\ Loose(k) = Loose(m) \ {right}
      /\ SameSizes(m, k) /\ SameRuns(m, k) /\ k.complete = m.complete
      /\ k.tag[a].split_left = m.tag[a].split_left
  BY <1>4, <1>5, <1>7, JoinSound
<1>9. /\ Sound(Now', heap_cur', released') /\ Out' = Loose(k)
      /\ \A i \in Buckets : Runs(Now', i) = Runs(k, i)
  BY <1>6, <1>8, NowTables, SameTables DEF Out
<1>10. Counted(Now')
  <2>1. \A i \in Buckets : right \notin Runs(Now, i)
    BY <1>1, <1>2 DEF Runs, Unsplit, NextTo
  <2>2. ASSUME NEW i \in Buckets
        PROVE  Runs(Now', i) = Runs(Now, i)
    <3>1. Runs(Now, i) \ {right} = Runs(Now, i)
      BY <2>1
    <3> QED
      BY <1>4, <1>8, <1>9, <3>1 DEF SameRuns
  <2>3. Now'.complete = Now.complete
    BY <1>1, <1>4, <1>6, <1>8, NowTables
  <2> QED
    BY <2>2, <2>3, <1>1, CountedKept DEF HeapInv, SameRuns
<1>11. HeapInv'
  <2>1. l_initialized' # 0
    BY <1>1 DEF HeapInv
  <2> QED
    BY <2>1, <1>9, <1>10 DEF HeapInv
<1>12. Out' = Out
  BY <1>3, <1>4, <1>8, <1>9
<1>13. \A b \in Out : tag'[b].size = tag[b].size
  <2>1. \A b \in Out : b \in Loose(Now) \cap Loose(m) /\ b \in Loose(m) \cap Loose(k)
    BY <1>3, <1>4, <1>8 DEF Out
  <2> QED
    BY <2>1, <1>1, <1>4, <1>6, <1>8 DEF SameSizes
<1>14. tag'[a].split_left = tag[a].split_left
  BY <1>1, <1>4, <1>6, <1>8 DEF Kept
<1> QED
  BY <1>11, <1>12, <1>13, <1>14

(* free puts the loose block a on its list. *)
LEMMA PutHeap ==
    ASSUME HeapInv, NEW a \in Out,
           tag[a].split_left # NULL => tag[tag[a].split_left].index = -1,
           tag[a].split_right # NULL => tag[tag[a].split_right].index = -1,
           ~Crowded(a), Becomes(Put(a)),
           heap_cur' = heap_cur, released' = released, l_initialized' = l_initialized
    PROVE  /\ HeapInv'
           /\ Out' = Out \ {a}
           /\ \A b \in Out' : tag'[b].size = tag[b].size
<1> DEFINE i == Bucket(Room(a))
           c == IF Whole(a) THEN [complete EXCEPT ![i] = @ + 1] ELSE complete
           h == HeapOf(tag, free, c)
           k == insert_tag(h, a, i)
<1>1. Sound(Now, heap_cur, released) /\ Typed(Now)
      /\ Now.tag = tag /\ Now.free = free /\ Now.complete = complete
      /\ a \in DOMAIN tag
  BY NowTables DEF HeapInv, Sound, Out, Loose
<1>2. h.tag = tag /\ h.free = free /\ h.complete = c
  BY DEF HeapOf
<1>3. tag' = k.tag /\ free' = k.free /\ complete' = k.complete
  BY DEF Becomes, Put
<1> HIDE DEF c, h, k
<1>4. /\ Sound(h, heap_cur, released) /\ Loose(h) = Out
      /\ \A j \in Buckets : Runs(h, j) = Runs(Now, j)
  BY <1>1, <1>2, SameTables DEF Out
<1>5. /\ Sound(k, heap_cur, released) /\ Loose(k) = Loose(h) \ {a} /\ SameSizes(h, k)
      /\ Joins(h, k, a, i) /\ k.complete = h.complete /\ i \in Buckets
  <2>1. a \in Loose(h) /\ Room(a) = h.tag[a].real_size - TagSize
    BY <1>2, <1>4 DEF Room
  <2>2. /\ h.tag[a].split_left # NULL => h.tag[h.tag[a].split_left].index = -1
        /\ h.tag[a].split_right # NULL => h.tag[h.tag[a].split_right].index = -1
    BY <1>2
  <2>3. i = Bucket(h.tag[a].real_size - TagSize) /\ k = insert_tag(h, a, i)
    BY <2>1 DEF k
  <2> HIDE DEF i
  <2> QED
    BY <1>4, <2>1, <2>2, <2>3, InsertSound
<1>6. /\ Sound(Now', heap_cur', released') /\ Out' = Loose(k)
      /\ \A j \in Buckets : Runs(Now', j) = Runs(k, j)
  BY <1>3, <1>5, NowTables, SameTables DEF Out
<1>7. Counted(Now')
  <2>1. Joins(Now, Now', a, i)
    BY <1>1, <1>2, <1>4, <1>5, <1>6 DEF Joins
  <2>2. Now'.complete = IF Unsplit(Now.tag[a]) THEN [Now.complete EXCEPT ![i] = @ + 1]
                        ELSE Now.complete
    BY <1>1, <1>2, <1>3, <1>5, NowTables DEF c, Whole, Unsplit
  <2>3. Unsplit(Now.tag[a]) => Now.complete[i] # MaxComplete
    BY <1>1 DEF Unsplit, Crowded, Whole
  <2>4. Now.tag[a].index # i
    BY <1>1, <1>5, Bucketed DEF Out, Loose
  <2> HIDE DEF i
  <2> QED
    BY <2>1, <2>2, <2>3, <2>4, <1>1, <1>5, CountedPut DEF HeapInv
<1>8. HeapInv'
  <2>1. l_initialized' # 0
    BY <1>1 DEF HeapInv
  <2> QED
    BY <2>1, <1>6, <1>7 DEF HeapInv
<1>9. \A b \in Out' : tag'[b].size = tag[b].size
  BY <1>2, <1>3, <1>4, <1>5, <1>6 DEF SameSizes
<1> QED
  BY <1>4, <1>5, <1>6, <1>8, <1>9

(* free gives the loose block a, a whole run of pages, back to liballoc_free. *)
LEMMA ReleaseHeap ==
    ASSUME HeapInv, NEW a \in Out, Crowded(a),
           tag' = [b \in DOMAIN tag \ {a} |-> tag[b]],
           free' = free, complete' = complete,
           heap_cur' = heap_cur, released' = released \cup Extent(a),
           l_initialized' = l_initialized
    PROVE  /\ HeapInv'
           /\ Out' = Out \ {a}
           /\ \A b \in Out' : tag'[b].size = tag[b].size
<1>1. Sound(Now, heap_cur, released) /\ Typed(Now)
      /\ Now.tag = tag /\ Now.free = free /\ Now.complete = complete
      /\ a \in DOMAIN tag
  BY NowTables DEF HeapInv, Sound, Out, Loose
<1>2. Now' = HeapOf([b \in DOMAIN Now.tag \ {a} |-> Now.tag[b]], Now.free, Now.complete)
  BY <1>1 DEF Now
<1>3. Typed(Now') /\ Dropped(Now, Now', a)
  BY <1>1, <1>2, DropTag
<1>4. Unsplit(Now.tag[a])
  BY <1>1 DEF Crowded, Whole, Unsplit
<1>5. /\ Sound(Now', heap_cur, released \cup (a .. a + Now.tag[a].real_size - 1))
      /\ Loose(Now') = Loose(Now) \ {a}
      /\ SameSizes(Now, Now') /\ SameRuns(Now, Now')
      /\ Now'.complete = Now.complete
  BY <1>1, <1>3, <1>4, DropSound DEF Out
<1>6. Sound(Now', heap_cur', released')
  BY <1>1, <1>5 DEF Extent
<1>7. Counted(Now')
  BY <1>1, <1>5, CountedKept DEF HeapInv
<1>8. HeapInv'
  <2>1. l_initialized' # 0
    BY <1>1 DEF HeapInv
  <2> QED
    BY <2>1, <1>6, <1>7 DEF HeapInv
<1>9. Out' = Out \ {a}
  BY <1>5 DEF Out
<1>10. \A b \in Out' : tag'[b].size = tag[b].size
  <2>1. \A b \in Out' : b \in DOMAIN tag \ {a}
    BY <1>1, <1>9 DEF Out, Loose
  <2> QED
    BY <2>1
<1> QED
  BY <1>8, <1>9, <1>10

-----------------------------------------------------------------------------
(* Who owns the blocks on no list. *)

TypeInv ==
    /\ l_initialized \in {0, 1}
    /\ present \subseteq 0 .. TableEnd \div PageSize - 1
    /\ holders \subseteq Threads
    /\ pc \in [Threads -> {"idle"} \cup Waiting \cup Locked \cup Filling]
    /\ loc \in [Threads -> Locals]
    /\ live \subseteq Addr
    /\ released \subseteq Addr
    /\ halted \in BOOLEAN

(* The lock is held by the one thread that is inside, or by none. *)
LockInv ==
    /\ holders = {} \/ \E t \in Threads : holders = {t}
    /\ \A t \in Threads : pc[t] \in Locked <=> holders = {t}

(* The tag of a pointer, the tags of callers' pointers, and the tags that belong
   to the call of t: the block it gives back, the old and the new block of a
   realloc, the block of a calloc. *)
Header(p)  == IF p = NULL THEN {} ELSE {p - TagSize}
Lent       == {p - TagSize : p \in live}
Freeing(t) == pc[t] \in {"free", "melt", "absorb"}
Mine(t)    == (IF Freeing(t) THEN {loc[t].tag} ELSE Header(loc[t].old)) \cup Header(loc[t].ptr)

(* The two blocks of a call are not the same. *)
TwoBlocks(t) ==
    loc[t].ptr # NULL =>
        loc[t].ptr # IF Freeing(t) THEN loc[t].tag + TagSize ELSE loc[t].old

OwnInv ==
    /\ Lent \subseteq Out
    /\ \A t \in Threads : Mine(t) \subseteq Out
    /\ \A x \in Out : x \in Lent \/ \E t \in Threads : x \in Mine(t)
    /\ \A t \in Threads : Lent \cap Mine(t) = {}
    /\ \A t, u \in Threads : t # u => Mine(t) \cap Mine(u) = {}
    /\ \A t \in Threads : TwoBlocks(t)

(* What a thread's locals mean at each point of its call. *)
Local(t) ==
    LET l == loc[t]
    IN  /\ pc[t] = "idle" => l.ptr = NULL /\ l.old = NULL
        /\ pc[t] \in {"malloc", "search", "realloc"} =>
              /\ l.ptr = NULL /\ l.op # "free"
              /\ l.op = "realloc" <=> l.old # NULL
        /\ pc[t] \in {"realloc", "copy"} => l.op = "realloc" /\ l.old # NULL
        /\ pc[t] \in {"malloc", "search", "copy"} /\ l.op = "realloc" =>
              l.keep <= l.size /\ l.keep <= tag[l.old - TagSize].size
        /\ pc[t] = "search" =>
              /\ l_initialized = 1
              /\ l.tag # NULL => l.tag \in DOMAIN tag /\ tag[l.tag].index = Bucket(l.size)
        /\ pc[t] = "absorb" => ~OnList(Left(t))
        /\ pc[t] \in {"copy", "fill"} /\ l.ptr # NULL =>
              tag[l.ptr - TagSize].size = l.size
        /\ pc[t] = "fill" => l.old = NULL

LocalInv == \A t \in Threads : Local(t)

IInv == TypeInv /\ HeapInv /\ LockInv /\ OwnInv /\ LocalInv

-----------------------------------------------------------------------------
(* A step of t changes what t owns; the rest of the invariant follows from that. *)

OthersStay(t) ==
    \A u \in Threads \ {t} : pc'[u] = pc[u] /\ loc'[u] = loc[u]

(* The blocks in gain come to t or its caller from the lists or from fresh pages,
   those in loss leave them; every other block stays with its owner. *)
LEMMA OwnKept ==
    ASSUME OwnInv, NEW t \in Threads, OthersStay(t),
           NEW gain, NEW loss, gain \cap Out = {}, loss \subseteq Lent \cup Mine(t),
           Out' = (Out \ loss) \cup gain,
           Lent' \cup Mine(t)' = ((Lent \cup Mine(t)) \ loss) \cup gain,
           Lent' \cap Mine(t)' = {},
           TwoBlocks(t)'
    PROVE  OwnInv'
<1> DEFINE lent == Lent'
           mine == Mine(t)'
           out  == Out'
<1>1. \A u \in Threads \ {t} : Mine(u)' = Mine(u)
  BY DEF OthersStay, Mine, Freeing
<1>2. \A u \in Threads \ {t} : TwoBlocks(u)'
  BY DEF OthersStay, OwnInv, TwoBlocks, Freeing
<1>3. /\ Lent \subseteq Out /\ \A u \in Threads : Mine(u) \subseteq Out
      /\ \A x \in Out : x \in Lent \/ \E u \in Threads : x \in Mine(u)
      /\ \A u \in Threads : Lent \cap Mine(u) = {}
      /\ \A u, v \in Threads : u # v => Mine(u) \cap Mine(v) = {}
  BY DEF OwnInv
<1>4. /\ out = (Out \ loss) \cup gain
      /\ lent \cup mine = ((Lent \cup Mine(t)) \ loss) \cup gain
      /\ lent \cap mine = {}
  OBVIOUS
<1> HIDE DEF lent, mine, out
<1>5. lent \subseteq out /\ mine \subseteq out
  BY <1>3, <1>4
<1>6. ASSUME NEW u \in Threads \ {t}
      PROVE  Mine(u) \subseteq out /\ lent \cap Mine(u) = {} /\ mine \cap Mine(u) = {}
  <2>1. Mine(u) \cap Lent = {} /\ Mine(u) \cap Mine(t) = {} /\ Mine(u) \subseteq Out
    BY <1>3
  <2>2. Mine(u) \cap loss = {} /\ Mine(u) \cap gain = {}
    BY <2>1
  <2> QED
    BY <2>1, <2>2, <1>4
<1>7. ASSUME NEW x \in out
      PROVE  x \in lent \/ x \in mine \/ \E u \in Threads \ {t} : x \in Mine(u)
  <2>1. CASE x \in gain
    BY <2>1, <1>4
  <2>2. CASE x \notin gain
    <3>1. x \in Out /\ x \notin loss
      BY <2>2, <1>4
    <3>2. CASE x \in Lent \cup Mine(t)
      BY <3>1, <3>2, <1>4
    <3>3. CASE x \notin Lent \cup Mine(t)
      BY <3>1, <3>3, <1>3
    <3> QED
      BY <3>2, <3>3
  <2> QED
    BY <2>1, <2>2
<1>8. lent \subseteq out /\ \A u \in Threads : Mine(u)' \subseteq out
  BY <1>1, <1>5, <1>6 DEF mine
<1>9. \A x \in out : x \in lent \/ \E u \in Threads : x \in Mine(u)'
  BY <1>1, <1>7 DEF mine
<1>10. \A u \in Threads : lent \cap Mine(u)' = {}
  BY <1>1, <1>4, <1>6 DEF mine
<1>11. \A u, v \in Threads : u # v => Mine(u)' \cap Mine(v)' = {}
  BY <1>1, <1>3, <1>6 DEF mine
<1>12. \A u \in Threads : TwoBlocks(u)'
  BY <1>2
<1> QED
  BY <1>8, <1>9, <1>10, <1>11, <1>12 DEF OwnInv, lent, out

(* A thread outside the lock relies on the sizes of its own blocks only. *)
LEMMA LocalKept ==
    ASSUME NEW u \in Threads, Local(u), pc'[u] = pc[u], loc'[u] = loc[u],
           l_initialized' = l_initialized \/ l_initialized' = 1,
           \A b \in Mine(u) : tag'[b].size = tag[b].size,
           pc[u] \in Locked => tag' = tag
    PROVE  Local(u)'
<1>1. pc[u] # "idle" /\ ~Freeing(u) /\ loc[u].old # NULL =>
         tag'[loc[u].old - TagSize].size = tag[loc[u].old - TagSize].size
  BY DEF Mine, Header
<1>2. ~Freeing(u) /\ loc[u].ptr # NULL =>
         tag'[loc[u].ptr - TagSize].size = tag[loc[u].ptr - TagSize].size
  BY DEF Mine, Header
<1>3. (pc[u] = "absorb" => ~OnList(Left(u)))'
  BY DEF Local, Locked, OnList, Left
<1>4. (pc[u] = "search" =>
         /\ l_initialized = 1
         /\ loc[u].tag # NULL => loc[u].tag \in DOMAIN tag
                                 /\ tag[loc[u].tag].index = Bucket(loc[u].size))'
  BY DEF Local, Locked
<1>5. (pc[u] \in {"malloc", "search", "copy"} /\ loc[u].op = "realloc" =>
         loc[u].keep <= loc[u].size /\ loc[u].keep <= tag[loc[u].old - TagSize].size)'
  BY <1>1 DEF Local, Freeing
<1>6. (pc[u] \in {"copy", "fill"} /\ loc[u].ptr # NULL => tag[loc[u].ptr - TagSize].size = loc[u].size)'
  BY <1>2 DEF Local, Freeing
<1> QED
  BY <1>3, <1>4, <1>5, <1>6 DEF Local

(* A block on no list before and after a step keeps its size. *)
Steady == \A b \in Out \cap Out' : tag'[b].size = tag[b].size

(* What it takes for a step of t to keep the invariant. *)
LEMMA StepKeeps ==
    ASSUME IInv, NEW t \in Threads, OthersStay(t),
           TypeInv', HeapInv', LockInv',
           l_initialized' = l_initialized \/ l_initialized' = 1,
           NEW gain, NEW loss, gain \cap Out = {}, loss \subseteq Lent \cup Mine(t),
           Out' = (Out \ loss) \cup gain,
           Lent' \cup Mine(t)' = ((Lent \cup Mine(t)) \ loss) \cup gain,
           Lent' \cap Mine(t)' = {},
           TwoBlocks(t)',
           \A b \in Out \ loss : tag'[b].size = tag[b].size,
           tag' = tag \/ holders = {t},
           Local(t)'
    PROVE  IInv' /\ Steady
<1>1. OwnInv'
  BY OwnKept DEF IInv
<1>2. ASSUME NEW u \in Threads \ {t}
      PROVE  Local(u)'
  <2>1. Mine(u) \subseteq Out \ loss
    BY DEF IInv, OwnInv
  <2>2. pc[u] \in Locked => tag' = tag
    BY DEF IInv, LockInv
  <2> QED
    BY <2>1, <2>2, LocalKept DEF IInv, LocalInv, OthersStay
<1>3. Steady
  BY DEF Steady
<1> QED
  BY <1>1, <1>2, <1>3 DEF IInv, LocalInv

(* A step that leaves the tables alone, and hands over what t owns. *)
LEMMA QuietKeeps ==
    ASSUME IInv, NEW t \in Threads, OthersStay(t), TypeInv', LockInv',
           tag' = tag, free' = free, complete' = complete,
           heap_cur' = heap_cur, released' = released,
           l_initialized' = l_initialized \/ l_initialized' = 1,
           Lent' \cup Mine(t)' = Lent \cup Mine(t),
           Lent' \cap Mine(t)' = {},
           TwoBlocks(t)', Local(t)'
    PROVE  IInv' /\ Steady
<1>1. Now' = Now
  BY DEF Now
<1>2. HeapInv'
  BY <1>1 DEF IInv, HeapInv
<1>3. Out' = (Out \ {}) \cup {}
  BY <1>1 DEF Out
<1> QED
  BY <1>2, <1>3, StepKeeps

(* The lock is taken, given back, or left as it is. *)
LEMMA LockKept ==
    ASSUME TypeInv, LockInv, NEW t \in Threads, NEW to, pc' = [pc EXCEPT ![t] = to],
           \/ holders' = holders /\ (to \in Locked <=> pc[t] \in Locked)
           \/ holders = {} /\ holders' = {t} /\ to \in Locked
           \/ holders = {t} /\ holders' = {} /\ to \notin Locked
    PROVE  LockInv'
<1>1. pc'[t] = to /\ \A u \in Threads \ {t} : pc'[u] = pc[u]
  BY DEF TypeInv
<1>2. CASE holders' = holders /\ (to \in Locked <=> pc[t] \in Locked)
  BY <1>1, <1>2 DEF LockInv
<1>3. CASE holders = {} /\ holders' = {t} /\ to \in Locked
  BY <1>1, <1>3 DEF LockInv
<1>4. CASE holders = {t} /\ holders' = {} /\ to \notin Locked
  BY <1>1, <1>4 DEF LockInv
<1> QED
  BY <1>2, <1>3, <1>4

(* One thread's place and locals change. *)
LEMMA Moves ==
    ASSUME TypeInv, NEW t \in Threads, NEW to, NEW l,
           pc' = [pc EXCEPT ![t] = to], loc' = [loc EXCEPT ![t] = l]
    PROVE  OthersStay(t) /\ pc'[t] = to /\ loc'[t] = l
BY DEF TypeInv, OthersStay

(* A call without locals owns nothing. *)
LEMMA NoLocalsOwned ==
    ASSUME NEW t \in Threads, loc[t].ptr = NULL, loc[t].old = NULL, ~Freeing(t)
    PROVE  Mine(t) = {}
BY DEF Mine, Header

-----------------------------------------------------------------------------
(* The invariant holds at first: there is no block, and no call. *)
LEMMA IInit == Init => IInv
<1> SUFFICES ASSUME Init PROVE IInv
  OBVIOUS
<1>1. TypeInv
  <2>1. NoLocals \in Locals
    BY DEF NoLocals, Locals, Op, Ptr
  <2>2. /\ l_initialized = 0 /\ present = 0 .. TableEnd \div PageSize - 1 /\ holders = {}
        /\ pc = [t \in Threads |-> "idle"] /\ loc = [t \in Threads |-> NoLocals]
        /\ live = {} /\ released = {} /\ halted = FALSE
    BY DEF Init
  <2> HIDE DEF Init
  <2> QED
    BY <2>1, <2>2 DEF TypeInv
<1>2. HeapInv
  <2>1. /\ Now.tag = [a \in {} |-> NULL] /\ Now.free = [i \in Buckets |-> NULL]
        /\ Now.complete = [i \in Buckets |-> 0] /\ heap_cur = HeapStart /\ released = {}
        /\ tag = [a \in {} |-> NULL]
    BY NowTables DEF Init
  <2> HIDE DEF Init
  <2>2. DOMAIN Now.tag = {} /\ \A i \in Buckets : Now.free[i] = NULL
    BY <2>1
  <2>3. Typed(Now)
    BY <2>1 DEF Typed, Ptr
  <2>4. Chains(Now) /\ Acyclic(Now) /\ Mirrored(Now) /\ Apart(Now) /\ Spaced(Now)
    BY <2>2 DEF Chains, Acyclic, Behind, Mirrored, Apart, Spaced
  <2>5. Tiles(Now, heap_cur, released)
    BY <2>1, <2>2, HeapAssumption DEF Tiles
  <2>6. heap_cur \in Addr /\ released \subseteq Int
    BY <2>1, HeapAssumption DEF Addr
  <2>7. Counted(Now)
    <3>1. Now.complete \in [Buckets -> 0 .. MaxComplete]
      BY <2>1, SizeAssumption
    <3>2. \A i \in Buckets : Runs(Now, i) = {}
      BY <2>2 DEF Runs
    <3>3. \A i \in Buckets : Now.complete[i] = 0
      BY <2>1
    <3> QED
      BY <3>1, <3>2, <3>3, FS_EmptySet DEF Counted
  <2>8. DOMAIN tag = {}
    BY <2>1
  <2> QED
    BY <2>3, <2>4, <2>5, <2>6, <2>7, <2>8 DEF HeapInv, Sound
<1>3. \A t \in Threads : pc[t] = "idle" /\ loc[t] = NoLocals
  BY DEF Init
<1>4. LockInv
  BY <1>3 DEF LockInv, Locked, Init
<1>5. OwnInv
  <2>1. Out = {} /\ Lent = {}
    BY NowTables DEF Init, Out, Loose, Lent
  <2>2. \A t \in Threads : loc[t].ptr = NULL /\ loc[t].old = NULL /\ ~Freeing(t)
    BY <1>3 DEF NoLocals, Freeing
  <2>3. \A t \in Threads : Mine(t) = {} /\ TwoBlocks(t)
    BY <2>2, NoLocalsOwned DEF TwoBlocks
  <2> QED
    BY <2>1, <2>3 DEF OwnInv
<1>6. LocalInv
  BY <1>3 DEF LocalInv, Local, NoLocals
<1> QED
  BY <1>1, <1>2, <1>4, <1>5, <1>6 DEF IInv

-----------------------------------------------------------------------------
(* Calls *)

(* A pointer a caller holds is the payload of a block that is on no list. *)
LEMMA LentBlock ==
    ASSUME IInv, NEW p \in live
    PROVE  /\ p \in Int /\ p # NULL /\ p \in Ptr
           /\ p - TagSize \in Out /\ p - TagSize \in DOMAIN tag
           /\ p - TagSize \in Ptr
<1>1. p \in Addr /\ p - TagSize \in Out
  BY DEF IInv, TypeInv, OwnInv, Lent
<1>2. p - TagSize \in DOMAIN tag
  BY <1>1, NowTables DEF Out, Loose
<1> QED
  BY <1>1, <1>2, HeapFacts, HeapAssumption DEF IInv, Addr, Ptr, NULL

(* Different pointers have different tags. *)
LEMMA LentWithout ==
    ASSUME TypeInv, NEW p \in live, live' = live \ {p}
    PROVE  Lent' = Lent \ {p - TagSize}
<1>1. \A q \in live : q \in Int
  BY HeapAssumption DEF TypeInv, Addr
<1>2. \A q \in live : q - TagSize = p - TagSize => q = p
  BY <1>1, SizeAssumption
<1> QED
  BY <1>2 DEF Lent

(* malloc and calloc are called: the call owns nothing yet. *)
LEMMA CallMallocKeeps ==
    ASSUME IInv, NEW t \in Threads, CallMalloc(t) \/ CallCalloc(t)
    PROVE  IInv' /\ Steady
<1>1. PICK n \in Requests, op \in {"malloc", "calloc"} :
         Call(t, "malloc", [NoLocals EXCEPT !.op = op, !.size = n]) /\ live' = live
  BY DEF CallMalloc, CallCalloc
<1> DEFINE l == [NoLocals EXCEPT !.op = op, !.size = n]
<1>2. /\ l \in Locals /\ l.op = op /\ l.ptr = NULL /\ l.old = NULL
  BY SizeAssumption DEF NoLocals, Locals, Op, Ptr
<1> HIDE DEF l
<1>3. /\ pc[t] = "idle" /\ pc' = [pc EXCEPT ![t] = "malloc"] /\ loc' = [loc EXCEPT ![t] = l]
      /\ tag' = tag /\ free' = free /\ complete' = complete
      /\ l_initialized' = l_initialized /\ heap_cur' = heap_cur /\ present' = present
      /\ holders' = holders /\ released' = released /\ halted' = halted /\ live' = live
  BY <1>1 DEF Call, heap, l
<1>4. OthersStay(t) /\ pc'[t] = "malloc" /\ loc'[t] = l
  BY <1>3, Moves DEF IInv
<1>5. TypeInv'
  BY <1>2, <1>3 DEF IInv, TypeInv, Waiting
<1>6. LockInv'
  BY <1>3, LockKept DEF IInv, Locked
<1>7. Mine(t) = {}
  BY <1>3, NoLocalsOwned DEF IInv, LocalInv, Local, Freeing
<1>8. Mine(t)' = {} /\ Lent' = Lent
  BY <1>2, <1>3, <1>4 DEF Mine, Freeing, Header, Lent
<1>9. TwoBlocks(t)' /\ Local(t)'
  BY <1>2, <1>4 DEF TwoBlocks, Local
<1> QED
  BY <1>3, <1>4, <1>5, <1>6, <1>7, <1>8, <1>9, QuietKeeps

(* free is called: the block goes from the caller to the call. *)
LEMMA CallFreeKeeps ==
    ASSUME IInv, NEW t \in Threads, CallFree(t)
    PROVE  IInv' /\ Steady
<1>1. PICK p \in live : /\ Call(t, "free", [NoLocals EXCEPT !.tag = p - TagSize])
                        /\ live' = live \ {p}
  BY DEF CallFree
<1> DEFINE l == [NoLocals EXCEPT !.tag = p - TagSize]
<1>2. l \in Locals /\ l.tag = p - TagSize /\ l.ptr = NULL /\ l.old = NULL
  BY LentBlock DEF NoLocals, Locals, Op, Ptr
<1> HIDE DEF l
<1>3. /\ pc[t] = "idle" /\ pc' = [pc EXCEPT ![t] = "free"] /\ loc' = [loc EXCEPT ![t] = l]
      /\ tag' = tag /\ free' = free /\ complete' = complete
      /\ l_initialized' = l_initialized /\ heap_cur' = heap_cur /\ present' = present
      /\ holders' = holders /\ released' = released /\ halted' = halted
  BY <1>1 DEF Call, heap, l
<1>4. OthersStay(t) /\ pc'[t] = "free" /\ loc'[t] = l
  BY <1>3, Moves DEF IInv
<1>5. TypeInv'
  BY <1>1, <1>2, <1>3 DEF IInv, TypeInv, Waiting
<1>6. LockInv'
  BY <1>3, LockKept DEF IInv, Locked
<1>7. Mine(t) = {}
  BY <1>3, NoLocalsOwned DEF IInv, LocalInv, Local, Freeing
<1>8. Mine(t)' = {p - TagSize} /\ Lent' = Lent \ {p - TagSize} /\ p - TagSize \in Lent
  BY <1>1, <1>2, <1>4, LentWithout DEF IInv, Mine, Freeing, Header, Lent
<1>9. TwoBlocks(t)' /\ Local(t)'
  BY <1>2, <1>4 DEF TwoBlocks, Local
<1> QED
  BY <1>3, <1>4, <1>5, <1>6, <1>7, <1>8, <1>9, QuietKeeps

(* realloc is called: the old block goes from the caller to the call. *)
LEMMA CallReallocKeeps ==
    ASSUME IInv, NEW t \in Threads, CallRealloc(t)
    PROVE  IInv' /\ Steady
<1>1. PICK p \in live, n \in Requests \ {0} :
         /\ Call(t, "realloc", [NoLocals EXCEPT !.op = "realloc", !.size = n, !.old = p])
         /\ live' = live \ {p}
  BY DEF CallRealloc
<1> DEFINE l == [NoLocals EXCEPT !.op = "realloc", !.size = n, !.old = p]
<1>2. l \in Locals /\ l.op = "realloc" /\ l.ptr = NULL /\ l.old = p /\ p # NULL
  BY LentBlock, SizeAssumption DEF NoLocals, Locals, Op, Ptr
<1> HIDE DEF l
<1>3. /\ pc[t] = "idle" /\ pc' = [pc EXCEPT ![t] = "realloc"] /\ loc' = [loc EXCEPT ![t] = l]
      /\ tag' = tag /\ free' = free /\ complete' = complete
      /\ l_initialized' = l_initialized /\ heap_cur' = heap_cur /\ present' = present
      /\ holders' = holders /\ released' = released /\ halted' = halted
  BY <1>1 DEF Call, heap, l
<1>4. OthersStay(t) /\ pc'[t] = "realloc" /\ loc'[t] = l
  BY <1>3, Moves DEF IInv
<1>5. TypeInv'
  BY <1>1, <1>2, <1>3 DEF IInv, TypeInv, Waiting
<1>6. LockInv'
  BY <1>3, LockKept DEF IInv, Locked
<1>7. Mine(t) = {}
  BY <1>3, NoLocalsOwned DEF IInv, LocalInv, Local, Freeing
<1>8. Mine(t)' = {p - TagSize} /\ Lent' = Lent \ {p - TagSize} /\ p - TagSize \in Lent
  BY <1>1, <1>2, <1>4, LentWithout DEF IInv, Mine, Freeing, Header, Lent
<1>9. TwoBlocks(t)' /\ Local(t)'
  BY <1>2, <1>4 DEF TwoBlocks, Local
<1> QED
  BY <1>3, <1>4, <1>5, <1>6, <1>7, <1>8, <1>9, QuietKeeps

-----------------------------------------------------------------------------
(* malloc *)

(* One of t's locals changes, the tag it looks at. *)
LooksAt(t, to, x) ==
    pc' = [pc EXCEPT ![t] = to] /\ loc' = [loc EXCEPT ![t].tag = x]

(* Nothing but the tag the call looks at changes. *)
LEMMA MovesTag ==
    ASSUME TypeInv, NEW t \in Threads, NEW to, NEW x \in Ptr, LooksAt(t, to, x)
    PROVE  /\ OthersStay(t) /\ pc'[t] = to
           /\ loc' \in [Threads -> Locals]
           /\ loc'[t].tag = x
           /\ loc'[t].op = loc[t].op /\ loc'[t].size = loc[t].size
           /\ loc'[t].old = loc[t].old /\ loc'[t].ptr = loc[t].ptr
           /\ loc'[t].keep = loc[t].keep
<1> DEFINE l == [loc[t] EXCEPT !.tag = x]
<1>1. pc' = [pc EXCEPT ![t] = to] /\ loc' = [loc EXCEPT ![t] = l]
  BY DEF LooksAt
<1>2. loc[t] \in Locals
  BY DEF TypeInv
<1>3. /\ l \in Locals /\ l.tag = x /\ l.op = loc[t].op /\ l.size = loc[t].size
      /\ l.old = loc[t].old /\ l.ptr = loc[t].ptr /\ l.keep = loc[t].keep
  BY <1>2 DEF Locals
<1> HIDE DEF l
<1>4. OthersStay(t) /\ pc'[t] = to /\ loc'[t] = l
  BY <1>1, Moves
<1>5. loc' \in [Threads -> Locals]
  BY <1>1, <1>3 DEF TypeInv
<1> QED
  BY <1>3, <1>4, <1>5

(* The first call finds the lists and counts as it leaves them: all empty. *)
LEMMA FirstCall ==
    ASSUME HeapInv, l_initialized = 0
    PROVE  free = [i \in Buckets |-> NULL] /\ complete = [i \in Buckets |-> 0]
<1>1. DOMAIN tag = {} /\ Now.tag = tag /\ Now.free = free /\ Now.complete = complete
      /\ Typed(Now) /\ Chains(Now) /\ Counted(Now)
  BY NowTables DEF HeapInv, Sound
<1>2. \A i \in Buckets : free[i] = NULL
  BY <1>1 DEF Chains
<1>3. \A i \in Buckets : Runs(Now, i) = {}
  BY <1>1 DEF Runs
<1>4. \A i \in Buckets : complete[i] = 0
  BY <1>1, <1>3, FS_EmptySet DEF Counted
<1>5. free \in [Buckets -> Ptr] /\ complete \in [Buckets -> 0 .. MaxComplete]
  BY <1>1 DEF Typed, Counted
<1> QED
  BY <1>2, <1>4, <1>5

(* malloc takes the lock and looks at the head of a list of its exponent. *)
LEMMA MallocStartKeeps ==
    ASSUME IInv, NEW t \in Threads, MallocStart(t)
    PROVE  IInv' /\ Steady
<1> DEFINE x == free[Bucket(loc[t].size)]
<1>1. Sound(Now, heap_cur, released) /\ Typed(Now) /\ Chains(Now)
      /\ Now.tag = tag /\ Now.free = free
  BY NowTables DEF IInv, HeapInv, Sound
<1>2. Bucket(loc[t].size) \in Buckets
  BY BucketType DEF IInv, TypeInv, Locals
<1>3. x \in Ptr /\ (x # NULL => x \in DOMAIN tag /\ tag[x].index = Bucket(loc[t].size))
  BY <1>1, <1>2 DEF Typed, Chains
<1>4. (IF l_initialized = 0 THEN [i \in Buckets |-> NULL] ELSE free) = free
      /\ (IF l_initialized = 0 THEN [i \in Buckets |-> 0] ELSE complete) = complete
  BY FirstCall DEF IInv
<1>5. /\ pc[t] = "malloc" /\ holders = {} /\ holders' = {t}
      /\ free' = free /\ complete' = complete /\ l_initialized' = 1
      /\ loc' = [loc EXCEPT ![t].tag = x]
      /\ pc' = [pc EXCEPT ![t] = "search"]
      /\ tag' = tag /\ heap_cur' = heap_cur /\ present' = present
      /\ live' = live /\ released' = released /\ halted' = halted
  BY <1>4 DEF MallocStart, At, Lock!Acquire
<1>6. LooksAt(t, "search", x) /\ TypeInv
  BY <1>5 DEF LooksAt, IInv
<1> HIDE DEF x
<1>7. /\ OthersStay(t) /\ pc'[t] = "search" /\ loc' \in [Threads -> Locals]
      /\ loc'[t].tag = x /\ loc'[t].op = loc[t].op /\ loc'[t].size = loc[t].size
      /\ loc'[t].old = loc[t].old /\ loc'[t].ptr = loc[t].ptr /\ loc'[t].keep = loc[t].keep
  BY <1>3, <1>6, MovesTag
<1>8. TypeInv'
  BY <1>5, <1>7 DEF IInv, TypeInv, Locked
<1>9. LockInv'
  BY <1>5, LockKept DEF IInv, Locked
<1>10. Mine(t)' = Mine(t) /\ Lent' = Lent
  BY <1>5, <1>7 DEF Mine, Freeing, Lent
<1>11. TwoBlocks(t)'
  BY <1>5, <1>7 DEF IInv, OwnInv, TwoBlocks, Freeing
<1>12. Local(t)'
  BY <1>3, <1>5, <1>7 DEF IInv, LocalInv, Local
<1>13. Lent \cap Mine(t) = {}
  BY DEF IInv, OwnInv
<1> QED
  BY <1>5, <1>7, <1>8, <1>9, <1>10, <1>11, <1>12, <1>13, QuietKeeps

(* The next of a tag on the list is on the list. *)
LEMMA MallocNextKeeps ==
    ASSUME IInv, NEW t \in Threads, MallocNext(t)
    PROVE  IInv' /\ Steady
<1> DEFINE a == loc[t].tag
           x == tag[a].next
<1>1. /\ pc[t] = "search" /\ a # NULL
      /\ loc' = [loc EXCEPT ![t].tag = x]
      /\ tag' = tag /\ free' = free /\ complete' = complete
      /\ l_initialized' = l_initialized /\ heap_cur' = heap_cur /\ present' = present
      /\ holders' = holders /\ pc' = pc
      /\ live' = live /\ released' = released /\ halted' = halted
  <2>1. loc' = [loc EXCEPT ![t].tag = tag[@].next]
    BY DEF MallocNext
  <2>2. loc' = [loc EXCEPT ![t].tag = x]
    BY <2>1
  <2> QED
    BY <2>2 DEF MallocNext, At, heap
<1>2. a \in DOMAIN tag /\ tag[a].index = Bucket(loc[t].size)
  BY <1>1 DEF IInv, LocalInv, Local
<1>3. x \in Ptr /\ (x # NULL => x \in DOMAIN tag /\ tag[x].index = Bucket(loc[t].size))
  <2>1. Chains(Now) /\ Now.tag = tag
    BY NowTables DEF IInv, HeapInv, Sound
  <2> QED
    BY <2>1, <1>2, HeapFacts DEF IInv, Chains
<1> HIDE DEF x
<1>4. pc' = [pc EXCEPT ![t] = "search"]
  BY <1>1 DEF IInv, TypeInv
<1>5. LooksAt(t, "search", x) /\ TypeInv
  BY <1>1, <1>4 DEF LooksAt, IInv
<1>6. /\ OthersStay(t) /\ pc'[t] = "search" /\ loc' \in [Threads -> Locals]
      /\ loc'[t].tag = x /\ loc'[t].op = loc[t].op /\ loc'[t].size = loc[t].size
      /\ loc'[t].old = loc[t].old /\ loc'[t].ptr = loc[t].ptr /\ loc'[t].keep = loc[t].keep
  BY <1>3, <1>5, MovesTag
<1>7. TypeInv' /\ LockInv'
  BY <1>1, <1>6 DEF IInv, TypeInv, LockInv
<1>8. Mine(t)' = Mine(t) /\ Lent' = Lent
  BY <1>1, <1>6 DEF Mine, Freeing, Lent
<1>9. TwoBlocks(t)'
  BY <1>1, <1>6 DEF IInv, OwnInv, TwoBlocks, Freeing
<1>10. Local(t)'
  BY <1>1, <1>3, <1>6 DEF IInv, LocalInv, Local
<1>11. Lent \cap Mine(t) = {}
  BY DEF IInv, OwnInv
<1> QED
  BY <1>1, <1>6, <1>7, <1>8, <1>9, <1>10, <1>11, QuietKeeps

(* malloc returns p, the payload of a new block, or NULL: to its caller, or to
   the calloc or realloc it was called from. *)
LEMMA HandKeeps ==
    ASSUME IInv, NEW t \in Threads, pc[t] = "search", NEW p \in Ptr, Hand(t, p),
           Header(p) \cap Out = {}, Out' = Out \cup Header(p),
           \A b \in Out : tag'[b].size = tag[b].size,
           p # NULL => tag'[p - TagSize].size = loc[t].size,
           HeapInv', l_initialized' = l_initialized,
           present' \subseteq 0 .. TableEnd \div PageSize - 1,
           released' = released, halted' = halted
    PROVE  IInv' /\ Steady
<1> DEFINE l == loc[t]
<1>1. /\ l \in Locals /\ l.ptr = NULL /\ l.op # "free"
      /\ l.op = "realloc" <=> l.old # NULL
      /\ l.op = "realloc" => l.keep <= l.size /\ l.keep <= tag[l.old - TagSize].size
      /\ l_initialized = 1
  BY DEF IInv, TypeInv, LocalInv, Local
<1>2. /\ Mine(t) = Header(l.old) /\ Mine(t) \subseteq Out /\ Lent \subseteq Out
      /\ Lent \cap Mine(t) = {} /\ holders = {t}
  <2>1. Mine(t) = Header(l.old)
    BY <1>1 DEF Mine, Freeing, Header
  <2> QED
    BY <2>1 DEF IInv, OwnInv, LockInv, Locked
<1>3. holders' = {}
  BY DEF Hand, Lock!Release
<1>4. CASE l.op = "malloc"
  <2>1. /\ pc' = [pc EXCEPT ![t] = "idle"] /\ loc' = [loc EXCEPT ![t] = NoLocals]
        /\ live' = live \cup ({p} \ {NULL})
    BY <1>4 DEF Hand
  <2>2. OthersStay(t) /\ pc'[t] = "idle" /\ loc'[t] = NoLocals
    BY <2>1, Moves DEF IInv
  <2>3. NoLocals \in Locals /\ NoLocals.ptr = NULL /\ NoLocals.old = NULL
    BY DEF NoLocals, Locals, Op, Ptr
  <2>4. TypeInv'
    BY <2>1, <2>3, <1>3 DEF IInv, TypeInv, Ptr
  <2>5. LockInv'
    BY <2>1, <1>2, <1>3, LockKept DEF IInv, Locked
  <2>6. Mine(t) = {} /\ Mine(t)' = {} /\ Lent' = Lent \cup Header(p)
    BY <2>1, <2>2, <2>3, <1>1, <1>2, <1>4 DEF Mine, Freeing, Header, Lent
  <2>7. TwoBlocks(t)' /\ Local(t)'
    BY <2>2, <2>3 DEF TwoBlocks, Local
  <2> QED
    BY <2>2, <2>4, <2>5, <2>6, <2>7, <1>2, StepKeeps
<1>5. CASE l.op # "malloc"
  <2> DEFINE to == IF l.op = "calloc" THEN "fill" ELSE "copy"
             k  == [l EXCEPT !.tag = NULL, !.ptr = p]
  <2>1. pc' = [pc EXCEPT ![t] = to] /\ loc' = [loc EXCEPT ![t] = k] /\ live' = live
    BY <1>5 DEF Hand
  <2>2. /\ k \in Locals /\ k.ptr = p /\ k.old = l.old /\ k.op = l.op
        /\ k.size = l.size /\ k.keep = l.keep
    BY <1>1 DEF Locals, Ptr
  <2>3. to \in Filling /\ to # "idle" /\ to \notin Locked
        /\ to \notin {"malloc", "search", "realloc", "absorb"}
        /\ (to = "copy" <=> l.op = "realloc") /\ (to = "fill" <=> l.op = "calloc")
    BY <1>1, <1>5 DEF Filling, Locked, Locals, Op
  <2> HIDE DEF to, k
  <2>4. OthersStay(t) /\ pc'[t] = to /\ loc'[t] = k
    BY <2>1, Moves DEF IInv
  <2>5. TypeInv'
    BY <2>1, <2>2, <2>3, <1>3 DEF IInv, TypeInv
  <2>6. LockInv'
    BY <2>1, <2>3, <1>2, <1>3, LockKept DEF IInv
  <2>7. Mine(t)' = Mine(t) \cup Header(p) /\ Lent' = Lent
    BY <2>1, <2>2, <2>3, <2>4, <1>2 DEF Mine, Freeing, Lent, Filling
  <2>8. TwoBlocks(t)'
    <3>1. p # NULL => p # l.old
      BY <1>2 DEF Header
    <3> QED
      BY <3>1, <2>2, <2>3, <2>4 DEF TwoBlocks, Freeing, Filling
  <2>9. Local(t)'
    <3>1. l.op = "realloc" => tag'[l.old - TagSize].size = tag[l.old - TagSize].size
      BY <1>1, <1>2 DEF Header
    <3> QED
      BY <3>1, <2>2, <2>3, <2>4, <1>1 DEF Local
  <2> QED
    BY <2>4, <2>5, <2>6, <2>7, <2>8, <2>9, <1>2, StepKeeps
<1> QED
  BY <1>4, <1>5

(* The payload of a block, and its tag again. *)
LEMMA HeaderOf ==
    ASSUME NEW a \in Addr
    PROVE  a + TagSize # NULL /\ Header(a + TagSize) = {a} /\ (a + TagSize) - TagSize = a
BY HeapAssumption, SizeAssumption DEF Addr, NULL, Header

(* The free block found leaves the lists and goes to the call, or to its caller. *)
LEMMA MallocTakeKeeps ==
    ASSUME IInv, NEW t \in Threads, MallocTake(t)
    PROVE  IInv' /\ Steady
<1> DEFINE a == loc[t].tag
           size == loc[t].size
           p == a + TagSize
<1>1. /\ pc[t] = "search" /\ a # NULL /\ Fits(a, size)
      /\ Becomes(Taken(a, size)) /\ Hand(t, p)
      /\ l_initialized' = l_initialized /\ heap_cur' = heap_cur /\ present' = present
      /\ released' = released /\ halted' = halted
  BY DEF MallocTake, At
<1>2. a \in DOMAIN tag /\ tag[a].index = Bucket(size) /\ size \in Nat /\ HeapInv
  BY <1>1 DEF IInv, LocalInv, Local, TypeInv, Locals
<1>3. tag[a].index >= 0 /\ a \in Addr /\ a \in Int /\ a + tag[a].real_size <= heap_cur
      /\ tag[a].real_size \in Nat /\ tag[a].size \in Nat
      /\ tag[a].size + TagSize <= tag[a].real_size
  <2>1. Bucket(size) >= 0
    BY <1>2, BucketType, Bucketed
  <2> QED
    BY <2>1, <1>2, HeapFacts
<1> HIDE DEF a, size
<1>4. /\ HeapInv' /\ a \notin Out /\ Out' = Out \cup {a}
      /\ tag'[a].size = size
      /\ \A b \in Out : tag'[b].size = tag[b].size
  BY <1>1, <1>2, <1>3, TakeHeap
<1>5. p # NULL /\ Header(p) = {a} /\ p - TagSize = a
  BY <1>3, HeaderOf
<1>6. p \in Ptr
  <2>1. heap_cur \in Addr
    BY <1>2 DEF HeapInv, Sound
  <2>2. a + TagSize <= heap_cur /\ a + TagSize \in Int /\ HeapStart <= a + TagSize
    BY <2>1, <1>3, SizeAssumption, HeapAssumption DEF Addr
  <2> QED
    BY <2>1, <2>2, HeapAssumption DEF Addr, Ptr
<1>7. present' \subseteq 0 .. TableEnd \div PageSize - 1
  BY <1>1 DEF IInv, TypeInv
<1>8. p # NULL => tag'[p - TagSize].size = loc[t].size
  BY <1>4, <1>5 DEF size
<1>9. Header(p) \cap Out = {} /\ Out' = Out \cup Header(p)
  BY <1>4, <1>5
<1> HIDE DEF p
<1> QED
  BY <1>1, <1>4, <1>6, <1>7, <1>8, <1>9, HandKeeps

(* The block of fresh pages goes to the call, or to its caller. *)
LEMMA MallocGrowKeeps ==
    ASSUME IInv, NEW t \in Threads, MallocGrow(t)
    PROVE  IInv' /\ Steady
<1> DEFINE a == heap_cur
           size == loc[t].size
           p == a + TagSize
<1>1. /\ pc[t] = "search" /\ ~Exhausted(size) /\ Accessible(t) /\ Grows(t)
      /\ Becomes(Grown(size)) /\ Hand(t, p)
      /\ l_initialized' = l_initialized /\ heap_cur' = heap_cur + Bytes(size)
      /\ present' = present \cup NewPages(size)
      /\ released' = released /\ halted' = halted
  BY DEF MallocGrow, At, Goes, Grows
<1>2. size \in Nat /\ l_initialized # 0 /\ HeapInv /\ a \in Addr
  BY <1>1 DEF IInv, TypeInv, Locals, LocalInv, Local, HeapInv, Sound
<1>3. NewPages(size) \subseteq 0 .. TableEnd \div PageSize - 1
  BY <1>1 DEF Accessible, InTable
<1>4. /\ HeapInv' /\ a \notin Out /\ Out' = Out \cup {a}
      /\ tag'[a].size = size
      /\ \A b \in Out : tag'[b].size = tag[b].size
  BY <1>1, <1>2, GrowHeap
<1>5. p # NULL /\ Header(p) = {a} /\ p - TagSize = a
  BY <1>2, HeaderOf
<1>6. p \in Ptr
  <2>1. /\ Sound(Now', heap_cur', released') /\ Now'.tag = tag' /\ a \in DOMAIN tag'
        /\ heap_cur' \in Addr
    BY <1>4, NowTables DEF HeapInv, Sound, Out, Loose
  <2>2. /\ a + Now'.tag[a].real_size <= heap_cur'
        /\ Now'.tag[a].real_size >= TagSize + Now'.tag[a].size
        /\ Now'.tag[a].real_size \in Nat /\ Now'.tag[a].size \in Nat
    BY <2>1, Ends, Fields, HeapAssumption DEF Sound, Addr
  <2>3. p <= heap_cur' /\ p \in Int /\ HeapStart <= p
    BY <1>2, <2>1, <2>2, SizeAssumption, HeapAssumption DEF Addr
  <2> QED
    BY <2>1, <2>3, HeapAssumption DEF Addr, Ptr
<1>7. present' \subseteq 0 .. TableEnd \div PageSize - 1
  BY <1>1, <1>3 DEF IInv, TypeInv
<1>8. p # NULL => tag'[p - TagSize].size = loc[t].size
  BY <1>4, <1>5
<1>9. Header(p) \cap Out = {} /\ Out' = Out \cup Header(p)
  BY <1>4, <1>5
<1> HIDE DEF a, size, p
<1> QED
  BY <1>1, <1>4, <1>6, <1>7, <1>8, <1>9, HandKeeps

(* malloc returns NULL: nothing changes hands. *)
LEMMA MallocFailKeeps ==
    ASSUME IInv, NEW t \in Threads, MallocFail(t)
    PROVE  IInv' /\ Steady
<1>1. /\ pc[t] = "search" /\ Hand(t, NULL)
      /\ tag' = tag /\ free' = free /\ complete' = complete
      /\ l_initialized' = l_initialized /\ heap_cur' = heap_cur /\ present' = present
      /\ released' = released /\ halted' = halted
  BY DEF MallocFail, At, heap
<1>2. Now' = Now /\ HeapInv'
  BY <1>1 DEF IInv, HeapInv, Now
<1>3. Header(NULL) = {} /\ NULL \in Ptr /\ Out' = Out
  BY <1>2 DEF Header, Ptr, Out
<1>4. present' \subseteq 0 .. TableEnd \div PageSize - 1
  BY <1>1 DEF IInv, TypeInv
<1> QED
  BY <1>1, <1>2, <1>3, <1>4, HandKeeps

-----------------------------------------------------------------------------
(* free *)

(* The block a call gives back is on no list, and is not the one the call goes
   on to return. *)
LEMMA GivenBack ==
    ASSUME IInv, NEW t \in Threads, Freeing(t)
    PROVE  /\ loc[t].tag \in Out /\ loc[t].tag \in DOMAIN tag
           /\ loc[t].tag \in Mine(t) /\ loc[t].tag \notin Lent
           /\ Mine(t) = {loc[t].tag} \cup Header(loc[t].ptr)
           /\ Header(loc[t].ptr) \subseteq Out \ {loc[t].tag}
           /\ loc[t].ptr \in Ptr
<1> DEFINE a == loc[t].tag
           p == loc[t].ptr
<1>1. Mine(t) = {a} \cup Header(p)
  BY DEF Mine
<1>2. Mine(t) \subseteq Out /\ Lent \cap Mine(t) = {} /\ a \in Ptr /\ p \in Ptr
  BY DEF IInv, OwnInv, TypeInv, Locals
<1>3. a \in Out /\ a \in DOMAIN tag /\ a \in Int
  <2>1. a \in Out
    BY <1>1, <1>2
  <2>2. a \in DOMAIN tag
    BY <2>1, NowTables DEF Out, Loose
  <2> QED
    BY <2>1, <2>2, HeapFacts DEF IInv
<1>4. p # NULL => p # a + TagSize
  BY DEF IInv, OwnInv, TwoBlocks
<1>5. Header(p) \subseteq Out \ {a}
  <2>1. ASSUME p # NULL
        PROVE  p - TagSize # a
    <3>1. p \in Int
      BY <2>1, <1>2, HeapAssumption DEF Ptr, Addr, NULL
    <3> QED
      BY <3>1, <2>1, <1>3, <1>4, SizeAssumption
  <2> QED
    BY <2>1, <1>1, <1>2 DEF Header
<1> QED
  BY <1>1, <1>2, <1>3, <1>5

(* free takes the lock. *)
LEMMA FreeStartKeeps ==
    ASSUME IInv, NEW t \in Threads, FreeStart(t)
    PROVE  IInv' /\ Steady
<1>1. /\ pc[t] = "free" /\ holders = {} /\ holders' = {t}
      /\ pc' = [pc EXCEPT ![t] = "melt"] /\ loc' = loc
      /\ tag' = tag /\ free' = free /\ complete' = complete
      /\ l_initialized' = l_initialized /\ heap_cur' = heap_cur /\ present' = present
      /\ live' = live /\ released' = released /\ halted' = halted
  BY DEF FreeStart, At, Lock!Acquire, heap
<1>2. OthersStay(t) /\ pc'[t] = "melt"
  BY <1>1 DEF IInv, TypeInv, OthersStay
<1>3. TypeInv'
  BY <1>1 DEF IInv, TypeInv, Locked
<1>4. LockInv'
  BY <1>1, LockKept DEF IInv, Locked
<1>5. Mine(t)' = Mine(t) /\ Lent' = Lent
  BY <1>1, <1>2 DEF Mine, Freeing, Lent
<1>6. TwoBlocks(t)' /\ Local(t)'
  BY <1>1, <1>2 DEF IInv, OwnInv, TwoBlocks, Freeing, Local
<1>7. Lent \cap Mine(t) = {}
  BY DEF IInv, OwnInv
<1> QED
  BY <1>1, <1>2, <1>3, <1>4, <1>5, <1>6, <1>7, QuietKeeps

(* The block given back becomes part of the free one on its left, which the call
   then owns. *)
LEMMA MeltLeftKeeps ==
    ASSUME IInv, NEW t \in Threads, MeltLeft(t)
    PROVE  IInv' /\ Steady
<1> DEFINE a == loc[t].tag
           left == Left(t)
           p == loc[t].ptr
<1>1. /\ pc[t] = "melt" /\ left # NULL /\ tag[left].index >= 0 /\ left = tag[a].split_left
      /\ Becomes(Melted(a)) /\ LooksAt(t, "melt", left)
      /\ l_initialized' = l_initialized /\ heap_cur' = heap_cur /\ present' = present
      /\ holders' = holders /\ pc' = pc
      /\ live' = live /\ released' = released /\ halted' = halted
  <2>1. pc[t] = "melt" /\ pc' = pc /\ loc' = [loc EXCEPT ![t].tag = left]
    BY DEF MeltLeft, At
  <2>2. pc' = [pc EXCEPT ![t] = "melt"]
    BY <2>1 DEF IInv, TypeInv
  <2>3. LooksAt(t, "melt", left)
    BY <2>1, <2>2 DEF LooksAt
  <2> QED
    BY <2>1, <2>3 DEF MeltLeft, OnList, Left
<1>2. HeapInv /\ TypeInv /\ Freeing(t)
  BY <1>1 DEF IInv, Freeing
<1>3. /\ a \in Out /\ a \in Mine(t) /\ a \notin Lent /\ Mine(t) = {a} \cup Header(p)
      /\ Header(p) \subseteq Out \ {a} /\ p \in Ptr
  BY <1>2, GivenBack
<1>4. a \in DOMAIN tag
  BY <1>2, GivenBack
<1>5. left \in Ptr
  BY <1>1, <1>2, <1>4, HeapFacts
<1> HIDE DEF a, left, p
<1>6. /\ HeapInv' /\ left \in DOMAIN tag /\ left \notin Out
      /\ Out' = (Out \ {a}) \cup {left}
      /\ \A b \in Out \ {a} : tag'[b].size = tag[b].size
  BY <1>1, <1>2, <1>3, MeltHeap
<1>7. /\ OthersStay(t) /\ pc'[t] = "melt" /\ loc' \in [Threads -> Locals]
      /\ loc'[t].tag = left /\ loc'[t].ptr = p
  BY <1>1, <1>2, <1>5, MovesTag DEF p
<1>8. TypeInv' /\ LockInv' /\ holders = {t}
  BY <1>1, <1>7 DEF IInv, TypeInv, LockInv, Locked
<1>9. Mine(t)' = {left} \cup Header(p) /\ Lent' = Lent
  BY <1>1, <1>7 DEF Mine, Freeing, Lent
<1>10. Lent \subseteq Out /\ Lent \cap Mine(t) = {}
  BY DEF IInv, OwnInv
<1>11. Lent' \cup Mine(t)' = ((Lent \cup Mine(t)) \ {a}) \cup {left}
       /\ Lent' \cap Mine(t)' = {}
  BY <1>3, <1>6, <1>9, <1>10
<1>12. TwoBlocks(t)'
  <2>1. p # NULL => p # left + TagSize
    <3>1. left \in Addr
      BY <1>2, <1>6, HeapFacts
    <3>2. Header(left + TagSize) = {left}
      BY <3>1, HeaderOf
    <3> QED
      BY <3>2, <1>3, <1>6
  <2> QED
    BY <2>1, <1>7 DEF TwoBlocks, Freeing
<1>13. Local(t)'
  BY <1>7 DEF Local
<1> DEFINE gain == {left}
           loss == {a}
<1>14. /\ gain \cap Out = {} /\ loss \subseteq Lent \cup Mine(t)
       /\ Out' = (Out \ loss) \cup gain
       /\ Lent' \cup Mine(t)' = ((Lent \cup Mine(t)) \ loss) \cup gain
       /\ \A b \in Out \ loss : tag'[b].size = tag[b].size
  BY <1>3, <1>6, <1>11
<1> HIDE DEF gain, loss
<1> QED
  BY <1>1, <1>6, <1>7, <1>8, <1>11, <1>12, <1>13, <1>14, StepKeeps

(* There is no free block on the left any more. *)
LEMMA MeltDoneKeeps ==
    ASSUME IInv, NEW t \in Threads, MeltDone(t)
    PROVE  IInv' /\ Steady
<1>1. /\ pc[t] = "melt" /\ ~OnList(Left(t))
      /\ pc' = [pc EXCEPT ![t] = "absorb"] /\ loc' = loc /\ holders' = holders
      /\ tag' = tag /\ free' = free /\ complete' = complete
      /\ l_initialized' = l_initialized /\ heap_cur' = heap_cur /\ present' = present
      /\ live' = live /\ released' = released /\ halted' = halted
  BY DEF MeltDone, At, heap
<1>2. OthersStay(t) /\ pc'[t] = "absorb"
  BY <1>1 DEF IInv, TypeInv, OthersStay
<1>3. TypeInv'
  BY <1>1 DEF IInv, TypeInv, Locked
<1>4. LockInv'
  BY <1>1, LockKept DEF IInv, Locked
<1>5. Mine(t)' = Mine(t) /\ Lent' = Lent
  BY <1>1, <1>2 DEF Mine, Freeing, Lent
<1>6. TwoBlocks(t)'
  BY <1>1, <1>2 DEF IInv, OwnInv, TwoBlocks, Freeing
<1>7. Local(t)'
  BY <1>1, <1>2 DEF Local, OnList, Left
<1>8. Lent \cap Mine(t) = {}
  BY DEF IInv, OwnInv
<1> QED
  BY <1>1, <1>2, <1>3, <1>4, <1>5, <1>6, <1>7, <1>8, QuietKeeps

(* The blocks beside a block are blocks. *)
LEMMA BesideBlocks ==
    ASSUME HeapInv, NEW a \in DOMAIN tag
    PROVE  /\ tag[a].split_left # NULL => tag[a].split_left \in DOMAIN tag
           /\ tag[a].split_right # NULL => tag[a].split_right \in DOMAIN tag
<1>1. Mirrored(Now) /\ Now.tag = tag
  BY NowTables DEF HeapInv, Sound
<1> QED
  BY <1>1 DEF Mirrored

(* The free block on the right becomes part of the one given back. *)
LEMMA AbsorbRightKeeps ==
    ASSUME IInv, NEW t \in Threads, AbsorbRight(t)
    PROVE  IInv' /\ Steady
<1> DEFINE a == loc[t].tag
<1>1. /\ pc[t] = "absorb"
      /\ tag[a].split_right # NULL /\ tag[tag[a].split_right].index >= 0
      /\ Becomes(absorb_right(Now, a))
      /\ l_initialized' = l_initialized /\ heap_cur' = heap_cur /\ present' = present
      /\ holders' = holders /\ pc' = pc /\ loc' = loc
      /\ live' = live /\ released' = released /\ halted' = halted
  BY DEF AbsorbRight, At, OnList, Right
<1>2. HeapInv /\ TypeInv /\ Freeing(t)
  BY <1>1 DEF IInv, Freeing
<1>3. a \in Out /\ a \in DOMAIN tag
  BY <1>2, GivenBack
<1>4. tag[a].split_left # NULL => ~(tag[tag[a].split_left].index >= 0)
  BY <1>1 DEF IInv, LocalInv, Local, OnList, Left
<1>5. /\ HeapInv' /\ Out' = Out
      /\ \A b \in Out : tag'[b].size = tag[b].size
      /\ tag'[a].split_left = tag[a].split_left
  BY <1>1, <1>2, <1>3, AbsorbHeap
<1>6. OthersStay(t) /\ TypeInv' /\ LockInv' /\ holders = {t}
  BY <1>1 DEF IInv, TypeInv, LockInv, Locked, OthersStay
<1>7. Mine(t)' = Mine(t) /\ Lent' = Lent /\ TwoBlocks(t)'
  BY <1>1 DEF IInv, OwnInv, Mine, Freeing, Lent, TwoBlocks
<1>8. Local(t)'
  <2>1. ASSUME tag[a].split_left # NULL
        PROVE  ~(tag'[tag[a].split_left].index >= 0)
    <3>1. tag[a].split_left \in DOMAIN tag
      BY <2>1, <1>2, <1>3, BesideBlocks
    <3>2. tag[a].split_left \in Out
      BY <2>1, <3>1, <1>2, <1>4, HeapFacts
    <3>3. tag'[tag[a].split_left].index = -1
      BY <3>2, <1>5, NowTables DEF Out, Loose
    <3> QED
      BY <3>3
  <2>2. ~OnList(Left(t))'
    BY <2>1, <1>1, <1>5 DEF OnList, Left
  <2> QED
    BY <2>2, <1>1 DEF Local
<1>9. Lent \cap Mine(t) = {}
  BY DEF IInv, OwnInv
<1> DEFINE none == {}
<1>10. /\ none \cap Out = {} /\ none \subseteq Lent \cup Mine(t)
       /\ Out' = (Out \ none) \cup none
       /\ Lent' \cup Mine(t)' = ((Lent \cup Mine(t)) \ none) \cup none
       /\ Lent' \cap Mine(t)' = {}
       /\ \A b \in Out \ none : tag'[b].size = tag[b].size
  BY <1>5, <1>7, <1>9
<1> HIDE DEF none
<1> QED
  BY <1>1, <1>5, <1>6, <1>7, <1>8, <1>10, StepKeeps

(* free returns: the block it gave back is in use no more, and realloc's new
   block goes to the caller. *)
LEMMA EndKeeps ==
    ASSUME IInv, NEW t \in Threads, pc[t] = "absorb", EndFree(t),
           HeapInv', Out' = Out \ {loc[t].tag},
           \A b \in Out' : tag'[b].size = tag[b].size,
           l_initialized' = l_initialized,
           present' \subseteq 0 .. TableEnd \div PageSize - 1,
           released' \subseteq Addr, halted' = halted
    PROVE  IInv' /\ Steady
<1> DEFINE a == loc[t].tag
           p == loc[t].ptr
<1>1. /\ holders = {t} /\ holders' = {}
      /\ pc' = [pc EXCEPT ![t] = "idle"] /\ loc' = [loc EXCEPT ![t] = NoLocals]
      /\ live' = live \cup ({p} \ {NULL})
  BY DEF EndFree, Lock!Release
<1>2. /\ a \in Out /\ a \in Mine(t) /\ a \notin Lent /\ Mine(t) = {a} \cup Header(p)
      /\ Header(p) \subseteq Out \ {a} /\ p \in Ptr
  BY GivenBack DEF Freeing
<1>3. OthersStay(t) /\ pc'[t] = "idle" /\ loc'[t] = NoLocals
  BY <1>1, Moves DEF IInv
<1>4. NoLocals \in Locals /\ NoLocals.ptr = NULL /\ NoLocals.old = NULL
  BY DEF NoLocals, Locals, Op, Ptr
<1>5. TypeInv'
  <2>1. holders' \subseteq Threads /\ live' \subseteq Addr
    BY <1>1, <1>2 DEF IInv, TypeInv, Ptr
  <2> QED
    BY <2>1, <1>1, <1>4 DEF IInv, TypeInv
<1>6. LockInv'
  BY <1>1, LockKept DEF IInv, Locked
<1>7. Mine(t)' = {} /\ Lent' = Lent \cup Header(p)
  BY <1>1, <1>3, <1>4 DEF Mine, Freeing, Header, Lent
<1>8. Lent \subseteq Out /\ Lent \cap Mine(t) = {}
  BY DEF IInv, OwnInv
<1>9. TwoBlocks(t)' /\ Local(t)'
  BY <1>3, <1>4 DEF TwoBlocks, Local
<1> DEFINE gain == {}
           loss == {a}
<1>10. /\ gain \cap Out = {} /\ loss \subseteq Lent \cup Mine(t)
       /\ Out' = (Out \ loss) \cup gain
       /\ Lent' \cup Mine(t)' = ((Lent \cup Mine(t)) \ loss) \cup gain
       /\ Lent' \cap Mine(t)' = {}
       /\ \A b \in Out \ loss : tag'[b].size = tag[b].size
  BY <1>2, <1>7, <1>8
<1> HIDE DEF gain, loss
<1> QED
  BY <1>1, <1>3, <1>5, <1>6, <1>9, <1>10, StepKeeps

(* The block is put on a list and belongs to no call. *)
LEMMA FreePutKeeps ==
    ASSUME IInv, NEW t \in Threads, FreePut(t)
    PROVE  IInv' /\ Steady
<1> DEFINE a == loc[t].tag
<1>1. /\ pc[t] = "absorb" /\ ~OnList(Right(t)) /\ ~Crowded(a)
      /\ Becomes(Put(a)) /\ EndFree(t)
      /\ l_initialized' = l_initialized /\ heap_cur' = heap_cur /\ present' = present
      /\ released' = released /\ halted' = halted
  BY DEF FreePut, At
<1>2. HeapInv /\ TypeInv /\ Freeing(t)
  BY <1>1 DEF IInv, Freeing
<1>3. a \in Out /\ a \in DOMAIN tag
  BY <1>2, GivenBack
<1>4. /\ tag[a].split_left # NULL => ~(tag[tag[a].split_left].index >= 0)
      /\ tag[a].split_right # NULL => ~(tag[tag[a].split_right].index >= 0)
  BY <1>1 DEF IInv, LocalInv, Local, OnList, Left, Right
<1>5. /\ tag[a].split_left # NULL => tag[tag[a].split_left].index = -1
      /\ tag[a].split_right # NULL => tag[tag[a].split_right].index = -1
  BY <1>2, <1>3, <1>4, BesideBlocks, HeapFacts
<1> HIDE DEF a
<1>6. /\ HeapInv' /\ Out' = Out \ {a}
      /\ \A b \in Out' : tag'[b].size = tag[b].size
  BY <1>1, <1>2, <1>3, <1>5, PutHeap
<1>7. /\ present' \subseteq 0 .. TableEnd \div PageSize - 1 /\ released' \subseteq Addr
  BY <1>1, <1>2 DEF TypeInv
<1> QED
  BY <1>1, <1>6, <1>7, EndKeeps DEF a

(* The block goes back to the system and is no block any more. *)
LEMMA FreeReleaseKeeps ==
    ASSUME IInv, NEW t \in Threads, FreeRelease(t)
    PROVE  IInv' /\ Steady
<1> DEFINE a == loc[t].tag
<1>1. /\ pc[t] = "absorb" /\ Crowded(a)
      /\ tag' = [b \in DOMAIN tag \ {a} |-> tag[b]]
      /\ present' = present \ Pages(a, a + FreedPages(a) * PageSize)
      /\ released' = released \cup Extent(a) /\ EndFree(t)
      /\ free' = free /\ complete' = complete
      /\ l_initialized' = l_initialized /\ heap_cur' = heap_cur /\ halted' = halted
  BY DEF FreeRelease, At
<1>2. HeapInv /\ TypeInv /\ Freeing(t)
  BY <1>1 DEF IInv, Freeing
<1>3. a \in Out /\ a \in DOMAIN tag
  BY <1>2, GivenBack
<1> HIDE DEF a
<1>4. /\ HeapInv' /\ Out' = Out \ {a}
      /\ \A b \in Out' : tag'[b].size = tag[b].size
  BY <1>1, <1>2, <1>3, ReleaseHeap
<1>5. present' \subseteq 0 .. TableEnd \div PageSize - 1
  BY <1>1, <1>2 DEF TypeInv
<1>6. released' \subseteq Addr
  <2>1. /\ a \in Int /\ tag[a].real_size \in Nat /\ HeapStart <= a
        /\ a + tag[a].real_size <= heap_cur /\ heap_cur \in Addr
    BY <1>2, <1>3, HeapFacts DEF HeapInv, Sound
  <2>2. \A x \in Extent(a) : x \in Addr
    BY <2>1, HeapAssumption DEF Extent, Addr
  <2> QED
    BY <2>2, <1>1, <1>2 DEF TypeInv
<1> QED
  BY <1>1, <1>4, <1>5, <1>6, EndKeeps DEF a

-----------------------------------------------------------------------------
(* realloc and calloc, outside the lock *)

(* realloc reads the size of a block that no other thread owns. *)
LEMMA ReallocReadKeeps ==
    ASSUME IInv, NEW t \in Threads, ReallocRead(t)
    PROVE  IInv' /\ Steady
<1> DEFINE a == loc[t].old - TagSize
           n == IF tag[a].size > loc[t].size THEN loc[t].size ELSE tag[a].size
           l == [loc[t] EXCEPT !.keep = n]
<1>1. /\ pc[t] = "realloc" /\ pc' = [pc EXCEPT ![t] = "malloc"]
      /\ loc' = [loc EXCEPT ![t] = l]
      /\ tag' = tag /\ free' = free /\ complete' = complete /\ holders' = holders
      /\ l_initialized' = l_initialized /\ heap_cur' = heap_cur /\ present' = present
      /\ live' = live /\ released' = released /\ halted' = halted
  BY DEF ReallocRead, At, heap
<1>2. /\ loc[t] \in Locals /\ loc[t].ptr = NULL /\ loc[t].op = "realloc" /\ loc[t].old # NULL
      /\ HeapInv /\ TypeInv
  BY <1>1 DEF IInv, TypeInv, LocalInv, Local
<1>3. a \in DOMAIN tag
  <2>1. a \in Mine(t)
    BY <1>1, <1>2 DEF Mine, Freeing, Header
  <2>2. a \in Out
    BY <2>1 DEF IInv, OwnInv
  <2> QED
    BY <2>2, NowTables DEF Out, Loose
<1>4. n \in Nat /\ n <= loc[t].size /\ n <= tag[a].size
  <2>1. tag[a].size \in Nat /\ loc[t].size \in Nat
    BY <1>2, <1>3, HeapFacts DEF Locals
  <2> QED
    BY <2>1
<1> HIDE DEF n
<1>5. /\ l \in Locals /\ l.op = "realloc" /\ l.size = loc[t].size /\ l.old = loc[t].old
      /\ l.ptr = NULL /\ l.keep = n
  BY <1>2, <1>4 DEF Locals
<1> HIDE DEF l
<1>6. OthersStay(t) /\ pc'[t] = "malloc" /\ loc'[t] = l
  BY <1>1, <1>2, Moves
<1>7. TypeInv'
  BY <1>1, <1>2, <1>5 DEF TypeInv, Waiting
<1>8. LockInv'
  BY <1>1, LockKept DEF IInv, Locked
<1>9. Mine(t)' = Mine(t) /\ Lent' = Lent
  BY <1>1, <1>2, <1>5, <1>6 DEF Mine, Freeing, Lent
<1>10. TwoBlocks(t)' /\ Local(t)'
  BY <1>1, <1>2, <1>4, <1>5, <1>6 DEF TwoBlocks, Local
<1>11. Lent \cap Mine(t) = {}
  BY DEF IInv, OwnInv
<1> QED
  BY <1>1, <1>6, <1>7, <1>8, <1>9, <1>10, <1>11, QuietKeeps

(* realloc gives the old block back, and keeps the new one. *)
LEMMA CopyKeeps ==
    ASSUME IInv, NEW t \in Threads, Copy(t)
    PROVE  IInv' /\ Steady
<1> DEFINE a == loc[t].old - TagSize
           p == loc[t].ptr
<1>1. /\ pc[t] = "copy" /\ LooksAt(t, "free", a)
      /\ pc' = [pc EXCEPT ![t] = "free"]
      /\ tag' = tag /\ free' = free /\ complete' = complete /\ holders' = holders
      /\ l_initialized' = l_initialized /\ heap_cur' = heap_cur /\ present' = present
      /\ live' = live /\ released' = released /\ halted' = halted
  BY DEF Copy, At, heap, LooksAt
<1>2. loc[t].old # NULL /\ loc[t] \in Locals /\ HeapInv /\ TypeInv
  BY <1>1 DEF IInv, TypeInv, LocalInv, Local
<1>3. Mine(t) = {a} \cup Header(p) /\ Mine(t) \subseteq Out /\ Lent \cap Mine(t) = {}
      /\ (p # NULL => p # loc[t].old)
  BY <1>1, <1>2 DEF IInv, OwnInv, Mine, Freeing, Header, TwoBlocks
<1>4. a \in DOMAIN tag /\ a \in Ptr
  BY <1>2, <1>3, NowTables, HeapFacts DEF Out, Loose
<1>5. p # NULL => p # a + TagSize
  <2>1. loc[t].old \in Int
    BY <1>2, HeapAssumption DEF Locals, Ptr, Addr, NULL
  <2>2. a + TagSize = loc[t].old
    BY <2>1, SizeAssumption
  <2> QED
    BY <2>2, <1>3
<1> HIDE DEF a, p
<1>6. /\ OthersStay(t) /\ pc'[t] = "free" /\ loc' \in [Threads -> Locals]
      /\ loc'[t].tag = a /\ loc'[t].ptr = p
  BY <1>1, <1>2, <1>4, MovesTag DEF p
<1>7. TypeInv'
  BY <1>1, <1>2, <1>6 DEF TypeInv, Waiting
<1>8. LockInv'
  BY <1>1, LockKept DEF IInv, Locked
<1>9. Mine(t)' = Mine(t) /\ Lent' = Lent
  BY <1>1, <1>3, <1>6 DEF Mine, Freeing, Lent
<1>10. TwoBlocks(t)' /\ Local(t)'
  BY <1>5, <1>6 DEF TwoBlocks, Freeing, Local
<1> QED
  BY <1>1, <1>3, <1>6, <1>7, <1>8, <1>9, <1>10, QuietKeeps

(* calloc hands its block to its caller. *)
LEMMA FillKeeps ==
    ASSUME IInv, NEW t \in Threads, Fill(t)
    PROVE  IInv' /\ Steady
<1> DEFINE p == loc[t].ptr
<1>1. /\ pc[t] = "fill" /\ pc' = [pc EXCEPT ![t] = "idle"]
      /\ loc' = [loc EXCEPT ![t] = NoLocals] /\ live' = live \cup ({p} \ {NULL})
      /\ tag' = tag /\ free' = free /\ complete' = complete /\ holders' = holders
      /\ l_initialized' = l_initialized /\ heap_cur' = heap_cur /\ present' = present
      /\ released' = released /\ halted' = halted
  BY DEF Fill, At, heap
<1>2. loc[t].old = NULL /\ loc[t] \in Locals /\ TypeInv
  BY <1>1 DEF IInv, TypeInv, LocalInv, Local
<1>3. Mine(t) = Header(p) /\ Lent \cap Mine(t) = {}
  BY <1>1, <1>2 DEF IInv, OwnInv, Mine, Freeing, Header
<1>4. OthersStay(t) /\ pc'[t] = "idle" /\ loc'[t] = NoLocals
  BY <1>1, <1>2, Moves
<1>5. NoLocals \in Locals /\ NoLocals.ptr = NULL /\ NoLocals.old = NULL
  BY DEF NoLocals, Locals, Op, Ptr
<1>6. TypeInv'
  <2>1. live' \subseteq Addr
    BY <1>1, <1>2 DEF TypeInv, Locals, Ptr
  <2> QED
    BY <2>1, <1>1, <1>2, <1>5 DEF TypeInv
<1>7. LockInv'
  BY <1>1, LockKept DEF IInv, Locked
<1>8. Mine(t)' = {} /\ Lent' = Lent \cup Header(p)
  BY <1>1, <1>4, <1>5 DEF Mine, Freeing, Header, Lent
<1>9. Lent' \cup Mine(t)' = Lent \cup Mine(t) /\ Lent' \cap Mine(t)' = {}
  BY <1>3, <1>8
<1>10. TwoBlocks(t)' /\ Local(t)'
  BY <1>4, <1>5 DEF TwoBlocks, Local
<1> QED
  BY <1>1, <1>4, <1>6, <1>7, <1>9, <1>10, QuietKeeps

-----------------------------------------------------------------------------
(* The invariant *)

(* A page fault stops the system as it is, and a stutter changes nothing. *)
LEMMA IdleKeeps ==
    ASSUME IInv, tag' = tag, free' = free, complete' = complete,
           l_initialized' = l_initialized, heap_cur' = heap_cur, present' = present,
           holders' = holders, pc' = pc, loc' = loc, live' = live, released' = released,
           halted' \in BOOLEAN
    PROVE  IInv' /\ Steady
<1>1. /\ tag' = tag /\ free' = free /\ complete' = complete /\ l_initialized' = l_initialized
      /\ heap_cur' = heap_cur /\ present' = present /\ holders' = holders /\ pc' = pc
      /\ loc' = loc /\ live' = live /\ released' = released
  OBVIOUS
<1>2. Now' = Now
  BY <1>1 DEF Now
<1>3. TypeInv' /\ LockInv'
  BY <1>1 DEF IInv, TypeInv, LockInv
<1>4. HeapInv'
  BY <1>1, <1>2 DEF IInv, HeapInv
<1>5. Out' = Out /\ Lent' = Lent
  BY <1>1, <1>2 DEF Out, Lent
<1>6. \A t \in Threads : Mine(t)' = Mine(t)
  BY <1>1 DEF Mine, Freeing
<1>7. \A t \in Threads : TwoBlocks(t)' <=> TwoBlocks(t)
  BY <1>1 DEF TwoBlocks, Freeing
<1>8. OwnInv'
  BY <1>5, <1>6, <1>7 DEF IInv, OwnInv
<1>9. LocalInv'
  BY <1>1 DEF IInv, LocalInv, Local, OnList, Left
<1>10. Steady
  BY <1>1 DEF Steady
<1> QED
  BY <1>3, <1>4, <1>8, <1>9, <1>10 DEF IInv

(* Every step keeps the invariant. *)
LEMMA INext == IInv /\ [Next]_vars => IInv' /\ Steady
<1> SUFFICES ASSUME IInv, [Next]_vars PROVE IInv' /\ Steady
  OBVIOUS
<1>1. CASE UNCHANGED vars
  <2>1. halted' \in BOOLEAN
    BY <1>1 DEF vars, IInv, TypeInv
  <2> QED
    BY <1>1, <2>1, IdleKeeps DEF vars, heap
<1>2. ASSUME NEW t \in Threads, CallMalloc(t) \/ CallCalloc(t) PROVE IInv' /\ Steady
  BY <1>2, CallMallocKeeps
<1>3. ASSUME NEW t \in Threads, CallFree(t) PROVE IInv' /\ Steady
  BY <1>3, CallFreeKeeps
<1>4. ASSUME NEW t \in Threads, CallRealloc(t) PROVE IInv' /\ Steady
  BY <1>4, CallReallocKeeps
<1>5. ASSUME NEW t \in Threads, Stop(t) PROVE IInv' /\ Steady
  BY <1>5, IdleKeeps DEF Stop, heap
<1>6. ASSUME NEW t \in Threads, Step(t) PROVE IInv' /\ Steady
  <2>1. CASE MallocStart(t)
    BY <2>1, MallocStartKeeps
  <2>2. CASE MallocNext(t)
    BY <2>2, MallocNextKeeps
  <2>3. CASE MallocTake(t)
    BY <2>3, MallocTakeKeeps
  <2>4. CASE MallocGrow(t)
    BY <2>4, MallocGrowKeeps
  <2>5. CASE MallocFail(t)
    BY <2>5, MallocFailKeeps
  <2>6. CASE FreeStart(t)
    BY <2>6, FreeStartKeeps
  <2>7. CASE MeltLeft(t)
    BY <2>7, MeltLeftKeeps
  <2>8. CASE MeltDone(t)
    BY <2>8, MeltDoneKeeps
  <2>9. CASE AbsorbRight(t)
    BY <2>9, AbsorbRightKeeps
  <2>10. CASE FreePut(t)
    BY <2>10, FreePutKeeps
  <2>11. CASE FreeRelease(t)
    BY <2>11, FreeReleaseKeeps
  <2>12. CASE ReallocRead(t)
    BY <2>12, ReallocReadKeeps
  <2>13. CASE Copy(t)
    BY <2>13, CopyKeeps
  <2>14. CASE Fill(t)
    BY <2>14, FillKeeps
  <2> QED
    BY <1>6, <2>1, <2>2, <2>3, <2>4, <2>5, <2>6, <2>7, <2>8, <2>9, <2>10, <2>11, <2>12,
       <2>13, <2>14 DEF Step
<1> QED
  BY <1>1, <1>2, <1>3, <1>4, <1>5, <1>6 DEF Next

(* In every state the heap is sound, the lock has one holder at most, and every
   block on no list belongs to one caller or one call, whatever calls the threads
   make and however their steps interleave. *)
THEOREM Invariant == Spec => []IInv
<1>1. Init => IInv
  BY IInit
<1>2. IInv /\ [Next]_vars => IInv'
  BY INext
<1> QED
  BY <1>1, <1>2, PTL DEF Spec

-----------------------------------------------------------------------------
(* What follows from it *)

(* The variables of liballoc.c, and the history variables, have their types. *)
THEOREM TypeCorrect == Spec => []TypeOK
<1>1. IInv => TypeOK
  <2>1. IInv => heap_cur \in Addr /\ Typed(Now) /\ complete \in [Buckets -> 0 .. MaxComplete]
    BY NowTables DEF IInv, HeapInv, Sound, Counted
  <2> QED
    BY <2>1, NowTables DEF IInv, TypeInv, TypeOK, Typed
<1> QED
  BY <1>1, Invariant, PTL

(* The blocks tile the memory obtained and not given back, whatever splits,
   joins and releases malloc and free have made. *)
THEOREM BlocksTile == Spec => []Tiling
<1>1. ASSUME IInv PROVE Tiling
  <2>1. /\ Tiles(Now, heap_cur, released) /\ Now.tag = tag /\ heap_cur \in Int
        /\ released \subseteq Int
    BY <1>1, NowTables, HeapAssumption DEF IInv, HeapInv, Sound, Addr
  <2>2. \A a \in DOMAIN tag : a \in Int /\ tag[a].real_size \in Nat
    BY <1>1, HeapFacts DEF IInv
  <2>3. \A a \in DOMAIN tag, x \in Int : x \in Extent(a) <=> Within(Now, a, x)
    BY <2>1, <2>2 DEF Extent, Within
  <2>4. \A a \in DOMAIN tag : Extent(a) \subseteq Int
    BY <2>2 DEF Extent
  <2>5. \A a, b \in DOMAIN tag : a # b => Extent(a) \cap Extent(b) = {}
    <3>1. \A a, b \in DOMAIN tag : a < b => Extent(a) \cap Extent(b) = {}
      BY <2>1, <2>2 DEF Tiles, Extent
    <3>2. \A a, b \in DOMAIN tag : a # b => a < b \/ b < a
      BY <2>2
    <3> QED
      BY <3>1, <3>2
  <2>6. (UNION {Extent(a) : a \in DOMAIN tag}) \cup released = HeapStart .. heap_cur - 1
    <3> DEFINE obtained == HeapStart .. heap_cur - 1
               covered  == UNION {Extent(a) : a \in DOMAIN tag}
    <3>1. \A x : x \in covered <=> \E a \in DOMAIN tag : x \in Extent(a)
      OBVIOUS
    <3>2. \A x : x \in obtained <=> x \in Int /\ HeapStart <= x /\ x < heap_cur
      BY <2>1, HeapAssumption
    <3> HIDE DEF obtained, covered
    <3>3. ASSUME NEW x \in Int
          PROVE  x \in covered \/ x \in released <=> x \in obtained
      <4>1. (\E a \in DOMAIN tag : x \in Extent(a)) <=> \E a \in DOMAIN tag : Within(Now, a, x)
        BY <2>3
      <4>2. HeapStart <= x /\ x < heap_cur
              <=> x \in released \/ \E a \in DOMAIN tag : Within(Now, a, x)
        BY <2>1 DEF Tiles
      <4> QED
        BY <3>1, <3>2, <4>1, <4>2
    <3>4. covered \subseteq Int /\ obtained \subseteq Int
      BY <3>1, <3>2, <2>4
    <3>5. covered \cup released = obtained
      BY <3>3, <3>4, <2>1
    <3> QED
      BY <3>5 DEF obtained, covered
  <2>7. \A a \in DOMAIN tag : Extent(a) \cap released = {}
    BY <2>1, <2>3 DEF Tiles
  <2> QED
    BY <2>5, <2>6, <2>7 DEF Tiling
<1> QED
  BY <1>1, Invariant, PTL

(* The links between blocks name their neighbours in memory, and free has melted
   every two free neighbours. *)
THEOREM NeighboursMelted == Spec => []Coalesced
<1>1. ASSUME IInv PROVE Coalesced
  <2>1. Mirrored(Now) /\ Apart(Now) /\ Now.tag = tag
    BY <1>1, NowTables DEF IInv, HeapInv, Sound
  <2> QED
    BY <2>1 DEF Coalesced, Linked, OnList, Mirrored, Apart
<1> QED
  BY <1>1, Invariant, PTL

(* Every list is a chain of the free blocks of its exponent, and no block in use
   is on one: insert_tag and remove_tag never lose or cross a link. *)
THEOREM ListsSound == Spec => []FreeListsSound
<1>1. ASSUME IInv PROVE FreeListsSound
  <2>1. Chains(Now) /\ Acyclic(Now) /\ Now.tag = tag /\ Now.free = free
    BY <1>1, NowTables DEF IInv, HeapInv, Sound
  <2>2. \A S \in SUBSET {a \in DOMAIN tag : tag[a].prev # NULL} :
           S # {} => \E a \in S : tag[a].prev \notin S
    BY <2>1 DEF Acyclic, Behind
  <2>3. \A i \in Buckets : free[i] # NULL =>
           /\ free[i] \in DOMAIN tag
           /\ tag[free[i]].index = i /\ tag[free[i]].prev = NULL
    BY <2>1 DEF Chains
  <2>4. ASSUME NEW a \in DOMAIN tag
        PROVE  LET t == tag[a]
               IN  /\ t.index < 0 => t.next = NULL /\ t.prev = NULL
                   /\ t.index >= 0 => /\ t.index = Bucket(Room(a))
                                      /\ t.prev = NULL => free[t.index] = a
                   /\ t.next # NULL => /\ t.next \in DOMAIN tag
                                       /\ tag[t.next].prev = a /\ tag[t.next].index = t.index
                   /\ t.prev # NULL => t.prev \in DOMAIN tag /\ tag[t.prev].next = a
    BY <2>1 DEF Chains, Room
  <2> QED
    BY <2>2, <2>3, <2>4 DEF FreeListsSound
<1> QED
  BY <1>1, Invariant, PTL

(* l_completePages counts the whole runs on each list. *)
THEOREM CountsExact == Spec => []CompleteCount
<1>1. ASSUME IInv PROVE CompleteCount
  <2>1. Counted(Now) /\ Now.tag = tag /\ Now.complete = complete
    BY <1>1, NowTables DEF IInv, HeapInv
  <2>2. \A i \in Buckets : Runs(Now, i) = {a \in DOMAIN tag : tag[a].index = i /\ Whole(a)}
    BY <2>1 DEF Runs, Unsplit, Whole
  <2> QED
    BY <2>1, <2>2 DEF CompleteCount, Counted
<1> QED
  BY <1>1, Invariant, PTL

(* What realloc read of the old block under its first lock still holds when it
   copies: no call of another thread has changed either block in between. *)
THEOREM CopiesInBounds == Spec => []CopyInBounds
<1>1. ASSUME IInv PROVE CopyInBounds
  BY <1>1 DEF IInv, LocalInv, Local, CopyInBounds
<1> QED
  BY <1>1, Invariant, PTL

-----------------------------------------------------------------------------
(* Blocks in use, and who they belong to. *)

(* The blocks of t's call that are not being given back. *)
Held(t) == (IF Freeing(t) THEN {} ELSE Header(loc[t].old)) \cup Header(loc[t].ptr)

Owned == \A a : a \in InUse <=> a \in Lent \/ \E t \in Threads : a \in Held(t)

(* What a call holds is its own, and it does not hold what it gives back. *)
LEMMA HeldMine ==
    ASSUME IInv, NEW t \in Threads
    PROVE  /\ Held(t) \subseteq Mine(t)
           /\ Freeing(t) => Mine(t) = Held(t) \cup {loc[t].tag} /\ loc[t].tag \notin Held(t)
           /\ ~Freeing(t) => Mine(t) = Held(t)
<1>1. CASE Freeing(t)
  BY <1>1, GivenBack DEF Held
<1>2. CASE ~Freeing(t)
  BY <1>2 DEF Held, Mine
<1> QED
  BY <1>1, <1>2

(* A block is in use when a caller or a call holds it. *)
LEMMA InUseOwned == IInv => Owned
<1> SUFFICES ASSUME IInv PROVE Owned
  OBVIOUS
<1>1. \A a : a \in InUse <=> /\ a \in Out
                            /\ ~\E t \in Threads : Freeing(t) /\ loc[t].tag = a
  BY NowTables DEF InUse, Out, Loose, Freeing
<1>2. ASSUME NEW a \in InUse
      PROVE  a \in Lent \/ \E t \in Threads : a \in Held(t)
  <2>1. SUFFICES ASSUME NEW t \in Threads, a \in Mine(t) PROVE a \in Held(t)
    BY <1>1 DEF IInv, OwnInv
  <2> QED
    BY <1>1, <2>1, HeldMine
<1>3. ASSUME NEW a \in Lent
      PROVE  a \in InUse
  <2>1. a \in Out /\ \A t \in Threads : a \notin Mine(t)
    BY DEF IInv, OwnInv
  <2> QED
    BY <1>1, <2>1, HeldMine
<1>4. ASSUME NEW t \in Threads, NEW a \in Held(t)
      PROVE  a \in InUse
  <2>1. a \in Mine(t) /\ a \in Out
    BY HeldMine DEF IInv, OwnInv
  <2>2. ASSUME NEW u \in Threads, Freeing(u), loc[u].tag = a
        PROVE  FALSE
    <3>1. a \in Mine(u) /\ a \notin Held(u)
      BY <2>2, HeldMine
    <3>2. u = t
      BY <2>1, <3>1 DEF IInv, OwnInv
    <3> QED
      BY <3>1, <3>2
  <2> QED
    BY <1>1, <2>1, <2>2
<1> QED
  BY <1>2, <1>3, <1>4 DEF Owned

(* A pointer is pending in a call when the call holds its block. *)
LEMMA PendingHeld ==
    ASSUME IInv, NEW t \in Threads
    PROVE  /\ \A p \in Pending(t) : p # NULL => p \in Int /\ p - TagSize \in Held(t)
           /\ \A a \in Held(t) : a + TagSize \in Pending(t)
<1>1. /\ loc[t].old \in Ptr /\ loc[t].ptr \in Ptr
      /\ \A p \in Ptr : p \in Int
  BY HeapAssumption DEF IInv, TypeInv, Locals, Ptr, Addr, NULL
<1>2. \A p \in Pending(t) : p # NULL => p \in Int /\ p - TagSize \in Held(t)
  BY <1>1 DEF Pending, Held, Header, Freeing
<1>3. \A p \in Ptr : (p - TagSize) + TagSize = p
  BY <1>1, SizeAssumption
<1>4. \A a \in Held(t) : a + TagSize \in Pending(t)
  BY <1>1, <1>3 DEF Pending, Held, Header, Freeing
<1> QED
  BY <1>2, <1>4

(* Every block in use has one owner, a caller or a call, and room for what was
   asked for: nothing leaks, nothing is handed out twice. *)
THEOREM NothingLeaks == Spec => []NoLeak
<1>1. ASSUME IInv PROVE NoLeak
  <2>1. Owned
    BY <1>1, InUseOwned
  <2>2. \A p \in live : p \in Int /\ p # NULL /\ p - TagSize \in Lent
    BY <1>1, LentBlock DEF Lent
  <2>3. \A a \in Lent : a + TagSize \in live
    <3>1. ASSUME NEW p \in live
          PROVE  (p - TagSize) + TagSize = p
      BY <2>2, SizeAssumption
    <3> QED
      BY <3>1 DEF Lent
  <2>4. \A a \in InUse : a \in DOMAIN tag
    BY DEF InUse
  <2>5. \A a \in InUse : a + TagSize # NULL
    <3>1. \A a \in InUse : a \in Addr
      BY <1>1, <2>4, HeapFacts DEF IInv
    <3> QED
      BY <3>1, HeaderOf
  <2>6. \A p \in Int : (p - TagSize) + TagSize = p
    BY SizeAssumption
  <2>7. ASSUME NEW a \in InUse
        PROVE  a + TagSize \in live \/ \E t \in Threads : a + TagSize \in Pending(t)
    BY <1>1, <2>1, <2>3, PendingHeld DEF Owned
  <2>8. ASSUME NEW p, p \in live \/ (p # NULL /\ \E t \in Threads : p \in Pending(t))
        PROVE  \E a \in InUse : p = a + TagSize
    <3>1. p \in Int /\ p - TagSize \in InUse
      BY <1>1, <2>1, <2>2, <2>8, PendingHeld DEF Owned
    <3> QED
      BY <3>1, <2>6
  <2>9. {a + TagSize : a \in InUse} =
           live \cup ((UNION {Pending(t) : t \in Threads}) \ {NULL})
    <3> DEFINE pending == UNION {Pending(t) : t \in Threads}
    <3>1. \A p : p \in pending <=> \E t \in Threads : p \in Pending(t)
      OBVIOUS
    <3> HIDE DEF pending
    <3>2. {a + TagSize : a \in InUse} = live \cup (pending \ {NULL})
      BY <3>1, <2>5, <2>7, <2>8
    <3> QED
      BY <3>2 DEF pending
  <2>10. ASSUME NEW t \in Threads
         PROVE  live \cap Pending(t) = {}
    <3>1. Lent \cap Held(t) = {}
      BY <1>1, HeldMine DEF IInv, OwnInv
    <3> QED
      BY <1>1, <2>2, <3>1, PendingHeld
  <2>11. ASSUME NEW t \in Threads, NEW u \in Threads, t # u
         PROVE  Pending(t) \cap Pending(u) \subseteq {NULL}
    <3>1. Held(t) \cap Held(u) = {}
      BY <1>1, <2>11, HeldMine DEF IInv, OwnInv
    <3> QED
      BY <1>1, <3>1, PendingHeld
  <2>12. \A a \in InUse : tag[a].size + TagSize <= tag[a].real_size
    BY <1>1, <2>4, HeapFacts DEF IInv
  <2> QED
    BY <2>9, <2>10, <2>11, <2>12 DEF NoLeak
<1> QED
  BY <1>1, Invariant, PTL

-----------------------------------------------------------------------------
(* What a step makes of the blocks in use. *)

Holding(t) == Lent \cup Held(t)

(* Only what t and its caller hold changes. *)
LEMMA InUseMoves ==
    ASSUME IInv, Owned, Owned', NEW t \in Threads, OthersStay(t)
    PROVE  /\ Holding(t)' = Holding(t) => InUse' = InUse
           /\ \A gain : Holding(t)' = Holding(t) \cup gain => InUse' = InUse \cup gain
           /\ \A a \in Holding(t) :
                 Holding(t)' = Holding(t) \ {a} => a \in InUse /\ InUse' = InUse \ {a}
<1> DEFINE Others == UNION {Held(u) : u \in Threads \ {t}}
<1>1. \A a : a \in Others <=> \E u \in Threads \ {t} : a \in Held(u)
  OBVIOUS
<1>2. \A u \in Threads \ {t} : Held(u)' = Held(u)
  BY DEF OthersStay, Held, Freeing
<1> HIDE DEF Others
<1>3. \A a : a \in InUse <=> a \in Holding(t) \/ a \in Others
  BY <1>1 DEF Owned, Holding
<1>4. \A a : a \in InUse' <=> a \in Holding(t)' \/ a \in Others
  BY <1>1, <1>2 DEF Owned, Holding
<1>5. Holding(t) \cap Others = {}
  <2>1. \A u \in Threads \ {t} : Held(u) \subseteq Mine(u)
    BY HeldMine
  <2>2. Held(t) \subseteq Mine(t)
    BY HeldMine
  <2>3. \A u \in Threads \ {t} : Lent \cap Held(u) = {} /\ Held(t) \cap Held(u) = {}
    BY <2>1, <2>2 DEF IInv, OwnInv
  <2> QED
    BY <2>3, <1>1 DEF Holding
<1> DEFINE now   == Holding(t)
           after == Holding(t)'
           used  == InUse'
<1>6. /\ \A a : a \in InUse <=> a \in now \/ a \in Others
      /\ \A a : a \in used <=> a \in after \/ a \in Others
      /\ now \cap Others = {}
  BY <1>3, <1>4, <1>5
<1> HIDE DEF now, after, used
<1>7. /\ after = now => used = InUse
      /\ \A gain : after = now \cup gain => used = InUse \cup gain
  BY <1>6
<1>8. \A a \in now : after = now \ {a} => a \in InUse /\ used = InUse \ {a}
  BY <1>6
<1> QED
  BY <1>7, <1>8 DEF now, after, used

(* The next blocks are those there were; one of them is gone; one is new. *)
Same      == InUse' = InUse
Lost      == \E a \in InUse : InUse' = InUse \ {a}
Gained    == \E a : a \notin InUse /\ InUse' = InUse \cup {a}

(* A step that leaves the pointers of the call and of its caller alone. *)
LEMMA SameHolding ==
    ASSUME NEW t \in Threads, live' = live, Freeing(t)' = Freeing(t),
           loc'[t].ptr = loc[t].ptr, loc'[t].old = loc[t].old
    PROVE  Holding(t)' = Holding(t)
BY DEF Holding, Held, Lent, Header

(* malloc hands out the block of p, or no block. *)
LEMMA HandGains ==
    ASSUME IInv, NEW t \in Threads, pc[t] = "search", NEW p \in Ptr, Hand(t, p)
    PROVE  OthersStay(t) /\ Holding(t)' = Holding(t) \cup Header(p)
<1>1. /\ loc[t] \in Locals /\ loc[t].ptr = NULL
      /\ loc[t].op = "realloc" <=> loc[t].old # NULL
      /\ TypeInv
  BY DEF IInv, TypeInv, LocalInv, Local
<1>2. CASE loc[t].op = "malloc"
  <2>1. /\ pc' = [pc EXCEPT ![t] = "idle"] /\ loc' = [loc EXCEPT ![t] = NoLocals]
        /\ live' = live \cup ({p} \ {NULL})
    BY <1>2 DEF Hand
  <2>2. OthersStay(t) /\ pc'[t] = "idle" /\ loc'[t] = NoLocals
    BY <2>1, <1>1, Moves
  <2>3. Held(t) = {} /\ Held(t)' = {}
    BY <2>2, <1>1, <1>2 DEF Held, Header, Freeing, NoLocals
  <2>4. Lent' = Lent \cup Header(p)
    BY <2>1 DEF Lent, Header
  <2> QED
    BY <2>2, <2>3, <2>4 DEF Holding
<1>3. CASE loc[t].op # "malloc"
  <2> DEFINE to == IF loc[t].op = "calloc" THEN "fill" ELSE "copy"
             k  == [loc[t] EXCEPT !.tag = NULL, !.ptr = p]
  <2>1. pc' = [pc EXCEPT ![t] = to] /\ loc' = [loc EXCEPT ![t] = k] /\ live' = live
    BY <1>3 DEF Hand
  <2>2. k.ptr = p /\ k.old = loc[t].old /\ to \notin {"free", "melt", "absorb"}
    BY <1>1 DEF Locals
  <2> HIDE DEF to, k
  <2>3. OthersStay(t) /\ pc'[t] = to /\ loc'[t] = k
    BY <2>1, <1>1, Moves
  <2>4. Held(t)' = Held(t) \cup Header(p) /\ Lent' = Lent
    BY <2>1, <2>2, <2>3, <1>1 DEF Held, Freeing, Lent, Header
  <2> QED
    BY <2>3, <2>4 DEF Holding
<1> QED
  BY <1>2, <1>3

(* free returns: the new block of a realloc goes to the caller. *)
LEMMA EndSame ==
    ASSUME IInv, NEW t \in Threads, pc[t] = "absorb", EndFree(t)
    PROVE  OthersStay(t) /\ Holding(t)' = Holding(t)
<1>1. /\ pc' = [pc EXCEPT ![t] = "idle"] /\ loc' = [loc EXCEPT ![t] = NoLocals]
      /\ live' = live \cup ({loc[t].ptr} \ {NULL})
  BY DEF EndFree
<1>2. OthersStay(t) /\ pc'[t] = "idle" /\ loc'[t] = NoLocals
  BY <1>1, Moves DEF IInv
<1>3. Held(t) = Header(loc[t].ptr) /\ Held(t)' = {}
  BY <1>2 DEF Held, Header, Freeing, NoLocals
<1>4. Lent' = Lent \cup Header(loc[t].ptr)
  BY <1>1 DEF Lent, Header
<1> QED
  BY <1>2, <1>3, <1>4 DEF Holding

(* Steps within a call, and the steps that start one without giving a block
   back, leave the blocks in use as they are. *)
LEMMA WithinCall ==
    ASSUME IInv, Owned, Owned', NEW t \in Threads,
           \/ CallMalloc(t) \/ CallCalloc(t) \/ CallRealloc(t)
           \/ MallocStart(t) \/ MallocNext(t) \/ MallocFail(t)
           \/ FreeStart(t) \/ MeltLeft(t) \/ MeltDone(t) \/ AbsorbRight(t)
           \/ FreePut(t) \/ FreeRelease(t)
           \/ ReallocRead(t) \/ Fill(t)
    PROVE  Same
<1>1. /\ pc \in [Threads -> {"idle"} \cup Waiting \cup Locked \cup Filling]
      /\ loc \in [Threads -> Locals] /\ TypeInv /\ Local(t)
  BY DEF IInv, TypeInv, LocalInv
<1>2. CASE CallMalloc(t) \/ CallCalloc(t)
  <2>1. PICK n \in Requests, op \in {"malloc", "calloc"} :
           Call(t, "malloc", [NoLocals EXCEPT !.op = op, !.size = n]) /\ live' = live
    BY <1>2 DEF CallMalloc, CallCalloc
  <2>2. OthersStay(t) /\ Holding(t)' = Holding(t)
    BY <2>1, <1>1 DEF Call, OthersStay, Holding, Held, Lent, Header, Freeing, Local, NoLocals
  <2> QED
    BY <2>2, InUseMoves DEF Same
<1>3. CASE CallRealloc(t)
  <2>1. PICK p \in live, n \in Requests \ {0} :
           /\ Call(t, "realloc", [NoLocals EXCEPT !.op = "realloc", !.size = n, !.old = p])
           /\ live' = live \ {p}
    BY <1>3 DEF CallRealloc
  <2>2. OthersStay(t) /\ Held(t) = {} /\ Held(t)' = Header(p)
    BY <2>1, <1>1 DEF Call, OthersStay, Held, Header, Freeing, Local, NoLocals
  <2>3. Lent' = Lent \ {p - TagSize} /\ Header(p) = {p - TagSize} /\ p - TagSize \in Lent
    BY <2>1, <1>1, LentWithout, LentBlock DEF Header, Lent
  <2>4. Holding(t)' = Holding(t)
    BY <2>2, <2>3 DEF Holding
  <2> QED
    BY <2>2, <2>4, InUseMoves DEF Same
<1>4. CASE MallocStart(t) \/ MallocNext(t) \/ FreeStart(t) \/ MeltLeft(t) \/ MeltDone(t)
           \/ AbsorbRight(t) \/ ReallocRead(t)
  <2>1. /\ OthersStay(t) /\ live' = live /\ Freeing(t)' = Freeing(t)
        /\ loc'[t].ptr = loc[t].ptr /\ loc'[t].old = loc[t].old
    <3>1. CASE MallocStart(t)
      BY <3>1, <1>1 DEF MallocStart, At, OthersStay, Freeing, Locals
    <3>2. CASE MallocNext(t)
      BY <3>2, <1>1 DEF MallocNext, At, OthersStay, Freeing, Locals
    <3>3. CASE FreeStart(t)
      BY <3>3, <1>1 DEF FreeStart, At, OthersStay, Freeing
    <3>4. CASE MeltLeft(t)
      BY <3>4, <1>1 DEF MeltLeft, At, OthersStay, Freeing, Locals
    <3>5. CASE MeltDone(t)
      BY <3>5, <1>1 DEF MeltDone, At, OthersStay, Freeing
    <3>6. CASE AbsorbRight(t)
      BY <3>6, <1>1 DEF AbsorbRight, At, OthersStay, Freeing
    <3>7. CASE ReallocRead(t)
      BY <3>7, <1>1 DEF ReallocRead, At, OthersStay, Freeing, Locals
    <3> QED
      BY <1>4, <3>1, <3>2, <3>3, <3>4, <3>5, <3>6, <3>7
  <2>2. Holding(t)' = Holding(t)
    BY <2>1, SameHolding
  <2> QED
    BY <2>1, <2>2, InUseMoves DEF Same
<1>5. CASE MallocFail(t)
  <2>1. pc[t] = "search" /\ Hand(t, NULL) /\ NULL \in Ptr /\ Header(NULL) = {}
    BY <1>5 DEF MallocFail, At, Ptr, Header
  <2>2. OthersStay(t) /\ Holding(t)' = Holding(t)
    BY <2>1, HandGains
  <2> QED
    BY <2>2, InUseMoves DEF Same
<1>6. CASE FreePut(t) \/ FreeRelease(t)
  <2>1. pc[t] = "absorb" /\ EndFree(t)
    BY <1>6 DEF FreePut, FreeRelease, At
  <2> QED
    BY <2>1, EndSame, InUseMoves DEF Same
<1>7. CASE Fill(t)
  <2>1. /\ pc[t] = "fill" /\ pc' = [pc EXCEPT ![t] = "idle"]
        /\ loc' = [loc EXCEPT ![t] = NoLocals]
        /\ live' = live \cup ({loc[t].ptr} \ {NULL})
    BY <1>7 DEF Fill, At
  <2>2. OthersStay(t) /\ pc'[t] = "idle" /\ loc'[t] = NoLocals
    BY <2>1, <1>1, Moves
  <2>3. Held(t) = Header(loc[t].ptr) /\ Held(t)' = {}
    BY <2>1, <2>2, <1>1 DEF Held, Header, Freeing, NoLocals, Local
  <2>4. Lent' = Lent \cup Header(loc[t].ptr)
    BY <2>1 DEF Lent, Header
  <2>5. Holding(t)' = Holding(t)
    BY <2>3, <2>4 DEF Holding
  <2> QED
    BY <2>2, <2>5, InUseMoves DEF Same
<1> QED
  BY <1>2, <1>3, <1>4, <1>5, <1>6, <1>7

(* free(p) gives its block back at once, realloc when it has copied. *)
LEMMA GivesBack ==
    ASSUME IInv, Owned, Owned', NEW t \in Threads, CallFree(t) \/ Copy(t)
    PROVE  Lost
<1>1. TypeInv /\ Local(t) /\ loc[t] \in Locals
  BY DEF IInv, TypeInv, LocalInv
<1>2. CASE CallFree(t)
  <2>1. PICK p \in live : /\ Call(t, "free", [NoLocals EXCEPT !.tag = p - TagSize])
                          /\ live' = live \ {p}
    BY <1>2 DEF CallFree
  <2>2. OthersStay(t) /\ Held(t) = {} /\ Held(t)' = {}
    BY <2>1, <1>1 DEF Call, OthersStay, Held, Header, Freeing, Local, NoLocals, TypeInv
  <2>3. Lent' = Lent \ {p - TagSize} /\ p - TagSize \in Lent
    BY <2>1, <1>1, LentWithout DEF Lent
  <2>4. p - TagSize \in Holding(t) /\ Holding(t)' = Holding(t) \ {p - TagSize}
    BY <2>2, <2>3 DEF Holding
  <2> QED
    BY <2>2, <2>4, InUseMoves DEF Lost
<1>3. CASE Copy(t)
  <2> DEFINE a == loc[t].old - TagSize
             p == loc[t].ptr
  <2>1. /\ pc[t] = "copy" /\ pc' = [pc EXCEPT ![t] = "free"]
        /\ loc' = [loc EXCEPT ![t].tag = a] /\ live' = live
    BY <1>3 DEF Copy, At
  <2>2. OthersStay(t) /\ pc'[t] = "free" /\ loc'[t].ptr = p
    BY <2>1, <1>1 DEF OthersStay, TypeInv, Locals
  <2>3. loc[t].old # NULL /\ loc[t].old \in Int /\ p \in Ptr /\ (p # NULL => p \in Int)
    BY <2>1, <1>1, HeapAssumption DEF Local, Locals, Ptr, Addr, NULL
  <2>4. Held(t) = {a} \cup Header(p) /\ Held(t)' = Header(p) /\ Lent' = Lent
    BY <2>1, <2>2, <2>3 DEF Held, Freeing, Header, Lent
  <2>5. p # NULL => p - TagSize # a
    <3>1. p # NULL => p # loc[t].old
      BY <2>1 DEF IInv, OwnInv, TwoBlocks, Freeing
    <3> QED
      BY <3>1, <2>3, SizeAssumption
  <2>6. a \notin Lent
    BY <2>4, HeldMine DEF IInv, OwnInv
  <2>7. a \in Holding(t) /\ Holding(t)' = Holding(t) \ {a}
    BY <2>4, <2>5, <2>6 DEF Holding, Header
  <2> QED
    BY <2>2, <2>7, InUseMoves DEF Lost
<1> QED
  BY <1>2, <1>3

(* malloc hands out a block that was free, or that did not exist. *)
LEMMA HandsOut ==
    ASSUME IInv, Owned, Owned', NEW t \in Threads, MallocTake(t) \/ MallocGrow(t)
    PROVE  Gained
<1>1. HeapInv /\ Local(t) /\ loc[t] \in Locals
  BY DEF IInv, TypeInv, LocalInv
<1>2. InUse \subseteq Out
  BY NowTables DEF InUse, Out, Loose
<1>3. PICK a \in Addr : pc[t] = "search" /\ Hand(t, a + TagSize) /\ a \notin Out
                        /\ a + TagSize \in Ptr
  <2>1. CASE MallocTake(t)
    <3> DEFINE a == loc[t].tag
    <3>1. /\ pc[t] = "search" /\ Hand(t, a + TagSize) /\ a # NULL
      BY <2>1 DEF MallocTake, At
    <3>2. a \in DOMAIN tag /\ tag[a].index = Bucket(loc[t].size) /\ loc[t].size \in Nat
      BY <3>1, <1>1 DEF Local, Locals
    <3>3. tag[a].index >= 0
      BY <3>2, BucketType, Bucketed
    <3>4. /\ a \in Addr /\ a \notin Out /\ a \in Int
          /\ tag[a].size \in Nat /\ tag[a].real_size \in Nat
          /\ tag[a].size + TagSize <= tag[a].real_size
          /\ a + tag[a].real_size <= heap_cur /\ heap_cur \in Addr
      BY <3>2, <3>3, <1>1, HeapFacts DEF HeapInv, Sound
    <3>5. a + TagSize \in Ptr
      BY <3>4, SizeAssumption, HeapAssumption DEF Addr, Ptr
    <3> QED
      BY <3>1, <3>4, <3>5
  <2>2. CASE MallocGrow(t)
    <3>1. pc[t] = "search" /\ Hand(t, heap_cur + TagSize) /\ ~Exhausted(loc[t].size)
      BY <2>2 DEF MallocGrow, At, Grows
    <3>2. heap_cur \in Addr
      BY <1>1 DEF HeapInv, Sound
    <3>3. heap_cur \notin Out
      <4>1. \A a \in DOMAIN tag : a < heap_cur /\ a \in Int
        BY <1>1, HeapFacts
      <4> QED
        BY <4>1, <3>2, NowTables, HeapAssumption DEF Out, Loose, Addr
    <3>4. heap_cur + TagSize \in Ptr
      <4>1. /\ Bytes(loc[t].size) \in Nat /\ loc[t].size + TagSize <= Bytes(loc[t].size)
        BY <1>1, BytesEnough DEF Locals
      <4> QED
        BY <3>1, <3>2, <4>1, <1>1, SizeAssumption, HeapAssumption
        DEF Exhausted, Addr, Ptr, Locals
    <3> QED
      BY <3>1, <3>2, <3>3, <3>4
  <2> QED
    BY <2>1, <2>2
<1>4. OthersStay(t) /\ Holding(t)' = Holding(t) \cup {a}
  BY <1>3, HandGains, HeaderOf
<1>5. InUse' = InUse \cup {a}
  BY <1>4, InUseMoves
<1> QED
  BY <1>2, <1>3, <1>5 DEF Gained

-----------------------------------------------------------------------------
(* The heap implements the abstract one. *)

(* The payloads of blocks in use lie in the heap and share no address. *)
Payload(a) == a + TagSize .. a + TagSize + tag[a].size - 1

Placed ==
    \A a \in InUse :
        /\ a \in Out /\ a \in Int
        /\ Payload(a) \subseteq HeapStart .. HeapEnd - 1
        /\ \A b \in InUse : a # b => Payload(a) \cap Payload(b) = {}

(* Blocks in use are placed: their payloads are inside their extents. *)
LEMMA InUsePlaced == IInv => Placed
<1> SUFFICES ASSUME IInv PROVE Placed
  OBVIOUS
<1>1. /\ Tiles(Now, heap_cur, released) /\ Now.tag = tag
      /\ heap_cur \in Int /\ heap_cur <= HeapEnd
  BY NowTables, HeapAssumption DEF IInv, HeapInv, Sound, Addr
<1>2. \A a \in InUse :
         /\ a \in DOMAIN tag /\ a \in Out /\ a \in Int /\ HeapStart <= a
         /\ tag[a].size \in Nat /\ tag[a].real_size \in Nat
         /\ tag[a].size + TagSize <= tag[a].real_size
         /\ a + tag[a].real_size <= heap_cur
  <2>1. \A a \in InUse : a \in DOMAIN tag /\ a \in Out
    BY NowTables DEF InUse, Out, Loose
  <2> QED
    BY <2>1, HeapFacts DEF IInv
<1>3. \A a \in InUse : \A x \in Payload(a) :
         x \in Int /\ a <= x /\ x < a + tag[a].real_size
  BY <1>2, SizeAssumption DEF Payload
<1>4. ASSUME NEW a \in InUse
      PROVE  Payload(a) \subseteq HeapStart .. HeapEnd - 1
  BY <1>1, <1>2, <1>3, HeapAssumption
<1>5. ASSUME NEW a \in InUse, NEW b \in InUse, a # b
      PROVE  Payload(a) \cap Payload(b) = {}
  <2>1. a + tag[a].real_size <= b \/ b + tag[b].real_size <= a
    BY <1>1, <1>2, <1>5 DEF Tiles
  <2> QED
    BY <2>1, <1>2, <1>3
<1> QED
  BY <1>2, <1>4, <1>5 DEF Placed

(* The record callers know a block by. *)
Block(a) == [ptr |-> a + TagSize, size |-> tag[a].size]

(* Callers know the blocks in use, and no others. *)
LEMMA BlocksAre ==
    /\ \A x : x \in Blocks <=> \E a \in InUse : x = Block(a)
    /\ \A x : x \in Blocks' <=> \E a \in InUse' : x = Block(a)'
BY DEF Blocks, Block

(* Blocks in use before and after a step are the same to callers. *)
LEMMA BlockKept ==
    ASSUME Placed, Placed', Steady, NEW a \in InUse, a \in InUse'
    PROVE  Block(a)' = Block(a)
BY DEF Placed, Steady, Block

(* A step hands out one block that shares nothing with the others, takes one
   back, or changes no block in use. *)
LEMMA StepImplements ==
    ASSUME Placed, Placed', Steady, Same \/ Lost \/ Gained
    PROVE  [Abstract!Next]_Blocks
<1>1. /\ \A x : x \in Blocks <=> \E a \in InUse : x = Block(a)
      /\ \A x : x \in Blocks' <=> \E a \in InUse' : x = Block(a)'
      /\ \A a \in InUse \cap InUse' : Block(a)' = Block(a)
  BY BlocksAre, BlockKept
<1>2. /\ \A a \in InUse : a \in Int /\ Block(a).ptr = a + TagSize
      /\ \A a \in InUse' : a \in Int /\ Block(a)'.ptr = a + TagSize
  BY DEF Placed, Block
<1>3. CASE Same
  <2>1. Blocks' = Blocks
    BY <1>1, <1>3 DEF Same
  <2> QED
    BY <2>1
<1>4. CASE Lost
  <2>1. PICK a \in InUse : InUse' = InUse \ {a}
    BY <1>4 DEF Lost
  <2>2. Block(a) \in Blocks
    BY <1>1
  <2>3. \A b \in InUse : b # a => Block(b) # Block(a)
    BY <1>2, SizeAssumption
  <2>4. Blocks' = Blocks \ {Block(a)}
    BY <1>1, <2>1, <2>3
  <2> QED
    BY <2>2, <2>4 DEF Abstract!Next, Abstract!Release
<1>5. CASE Gained
  <2>1. PICK a : a \notin InUse /\ InUse' = InUse \cup {a}
    BY <1>5 DEF Gained
  <2> DEFINE new == Block(a)'
  <2>2. new \in Blocks'
    BY <1>1, <2>1
  <2>3. \A b \in InUse : Block(b).ptr # new.ptr /\ Block(b)' = Block(b)
    BY <1>1, <1>2, <2>1, SizeAssumption
  <2>4. new \notin Blocks
    BY <1>1, <2>3
  <2>5. Blocks' = Blocks \cup {new}
    BY <1>1, <2>1, <2>3
  <2>6. \A b \in InUse' : Abstract!Bytes(Block(b)') = Payload(b)'
    BY DEF Abstract!Bytes, Block, Payload
  <2>7. Abstract!Bytes(new) \subseteq HeapStart .. HeapEnd - 1
    BY <2>1, <2>6 DEF Placed
  <2>8. ASSUME NEW b \in Blocks
        PROVE  b.ptr # new.ptr /\ Abstract!Bytes(b) \cap Abstract!Bytes(new) = {}
    <3>1. PICK c \in InUse : b = Block(c)
      BY <1>1
    <3>2. c \in InUse' /\ c # a /\ a \in InUse' /\ b = Block(c)'
      BY <2>1, <2>3, <3>1
    <3>3. Payload(c)' \cap Payload(a)' = {}
      BY <3>2 DEF Placed
    <3>4. Abstract!Bytes(b) = Payload(c)' /\ Abstract!Bytes(new) = Payload(a)'
      BY <2>6, <3>2
    <3> QED
      BY <2>3, <3>1, <3>3, <3>4
  <2> HIDE DEF new
  <2>9. Abstract!Allocate
    BY <2>2, <2>4, <2>5, <2>7, <2>8 DEF Abstract!Allocate
  <2> QED
    BY <2>9 DEF Abstract!Next
<1> QED
  BY <1>3, <1>4, <1>5

(* At first no block is handed out. *)
LEMMA StartsEmpty == Init => Abstract!Init
BY DEF Init, Abstract!Init, Blocks, InUse

(* Every step hands out a block, takes one back, or does neither. *)
LEMMA StepMoves ==
    ASSUME IInv, Owned, Owned', [Next]_vars
    PROVE  Same \/ Lost \/ Gained
<1>1. CASE UNCHANGED vars
  BY <1>1 DEF vars, heap, Same, InUse
<1>2. ASSUME NEW t \in Threads, Stop(t) PROVE Same
  BY <1>2 DEF Stop, heap, Same, InUse
<1>3. ASSUME NEW t \in Threads,
             CallMalloc(t) \/ CallCalloc(t) \/ CallFree(t) \/ CallRealloc(t) \/ Step(t)
      PROVE  Same \/ Lost \/ Gained
  BY <1>3, WithinCall, GivesBack, HandsOut DEF Step
<1> QED
  BY <1>1, <1>2, <1>3 DEF Next

(* The tags, lists and loops of malloc, free, calloc and realloc keep what they
   promise: a block handed out lies in the heap, shares no byte with another, and
   keeps its place and size until it is given back. *)
THEOREM HeapImplements == Spec => ImplementsHeap
<1>1. Init => Abstract!Init
  BY StartsEmpty
<1>2. IInv /\ IInv' /\ Owned /\ Owned' /\ Placed /\ Placed' /\ [Next]_vars
         => [Abstract!Next]_Blocks
  BY INext, StepMoves, StepImplements
<1>3. IInv => Owned /\ Placed
  BY InUseOwned, InUsePlaced
<1> QED
  BY <1>1, <1>2, <1>3, Invariant, PTL DEF Spec, ImplementsHeap, Abstract!Spec

-----------------------------------------------------------------------------
(* malloc's search misses no block. *)

(* A search goes on along the links from the tag it looks at: any set of tags
   that has this tag, and the next of each of its tags, has all that would do. *)
Ahead(t, S) ==
    /\ loc[t].tag # NULL => loc[t].tag \in S
    /\ \A b \in S : tag[b].next # NULL => tag[b].next \in S

Wanted(t) ==
    {a \in DOMAIN tag : tag[a].index = Bucket(loc[t].size) /\ Fits(a, loc[t].size)}

Search(t) ==
    pc[t] = "search" => \A S \in SUBSET DOMAIN tag : Ahead(t, S) => Wanted(t) \subseteq S

SearchInv == \A t \in Threads : Search(t)

(* From the head of a list every tag on it is ahead. *)
LEMMA FromHead ==
    ASSUME IInv, NEW i \in Buckets, NEW S \in SUBSET DOMAIN tag,
           free[i] # NULL => free[i] \in S,
           \A b \in S : tag[b].next # NULL => tag[b].next \in S
    PROVE  \A a \in DOMAIN tag : tag[a].index = i => a \in S
<1> DEFINE rest == {a \in DOMAIN tag : tag[a].index = i /\ a \notin S}
<1>1. Chains(Now) /\ Acyclic(Now) /\ Now.tag = tag /\ Now.free = free
  BY NowTables DEF IInv, HeapInv, Sound
<1>2. i >= 0 /\ \A a \in DOMAIN tag : a # NULL
  BY Bucketed, HeapFacts DEF IInv
<1>3. \A a \in rest : tag[a].prev # NULL
  BY <1>1, <1>2 DEF Chains
<1>4. SUFFICES ASSUME rest # {} PROVE FALSE
  OBVIOUS
<1>5. rest \in SUBSET Behind(Now)
  BY <1>1, <1>3 DEF Behind
<1>6. PICK a \in rest : tag[a].prev \notin rest
  BY <1>1, <1>4, <1>5 DEF Acyclic
<1> DEFINE z == tag[a].prev
<1>7. z \in DOMAIN tag /\ tag[z].next = a /\ tag[z].index = i
  BY <1>1, <1>2, <1>3, <1>6 DEF Chains
<1>8. z \in S
  BY <1>6, <1>7
<1> QED
  BY <1>2, <1>6, <1>7, <1>8

(* While t searches, no other thread touches a tag. *)
LEMMA OthersWait ==
    ASSUME IInv, NEW t \in Threads, pc[t] = "search", NEW u \in Threads \ {t},
           \/ CallMalloc(u) \/ CallCalloc(u) \/ CallFree(u) \/ CallRealloc(u)
           \/ Step(u) \/ Stop(u)
    PROVE  tag' = tag /\ pc'[t] = pc[t] /\ loc'[t] = loc[t]
<1>1. holders = {t} /\ holders # {} /\ pc[u] \notin Locked
  BY DEF IInv, LockInv, Locked
<1>2. CASE CallMalloc(u) \/ CallCalloc(u) \/ CallFree(u) \/ CallRealloc(u)
  BY <1>2 DEF CallMalloc, CallCalloc, CallFree, CallRealloc, Call, heap, IInv, TypeInv
<1>3. CASE Copy(u) \/ Fill(u) \/ Stop(u)
  BY <1>3 DEF Copy, Fill, Stop, heap, IInv, TypeInv
<1>4. CASE MallocStart(u) \/ FreeStart(u) \/ ReallocRead(u)
  BY <1>1, <1>4 DEF MallocStart, FreeStart, ReallocRead, Lock!Acquire
<1>5. CASE MallocNext(u) \/ MallocTake(u) \/ MallocGrow(u) \/ MallocFail(u)
  BY <1>1, <1>5 DEF MallocNext, MallocTake, MallocGrow, MallocFail, At, Locked
<1>6. CASE MeltLeft(u) \/ MeltDone(u) \/ AbsorbRight(u) \/ FreePut(u) \/ FreeRelease(u)
  BY <1>1, <1>6 DEF MeltLeft, MeltDone, AbsorbRight, FreePut, FreeRelease, At, Locked
<1> QED
  BY <1>2, <1>3, <1>4, <1>5, <1>6 DEF Step

(* malloc starts at the head of the list. *)
LEMMA SearchStarts ==
    ASSUME IInv, NEW t \in Threads, MallocStart(t)
    PROVE  Search(t)'
<1> DEFINE i == Bucket(loc[t].size)
           lists == IF l_initialized = 0 THEN [j \in Buckets |-> NULL] ELSE free
<1>1. /\ loc' = [loc EXCEPT ![t].tag = lists[i]] /\ tag' = tag
      /\ loc[t] \in Locals /\ TypeInv
  BY DEF MallocStart, IInv, TypeInv
<1>2. i \in Buckets
  BY <1>1, BucketType DEF Locals
<1>3. loc'[t].tag = lists[i] /\ loc'[t].size = loc[t].size
  BY <1>1 DEF TypeInv, Locals
<1>4. Wanted(t)' = Wanted(t) /\ \A a \in Wanted(t) : a \in DOMAIN tag /\ tag[a].index = i
  BY <1>1, <1>3 DEF Wanted, Fits, Room
<1>5. ASSUME NEW S \in SUBSET DOMAIN tag, Ahead(t, S)'
      PROVE  Wanted(t) \subseteq S
  <2>1. CASE l_initialized = 0
    BY <2>1, <1>4 DEF IInv, HeapInv
  <2>2. CASE l_initialized # 0
    <3>1. /\ free[i] # NULL => free[i] \in S
          /\ \A b \in S : tag[b].next # NULL => tag[b].next \in S
      BY <2>2, <1>1, <1>3, <1>5 DEF Ahead
    <3> HIDE DEF i
    <3> QED
      BY <3>1, <1>2, <1>4, FromHead
  <2> QED
    BY <2>1, <2>2
<1> QED
  BY <1>1, <1>4, <1>5 DEF Search

(* It goes on to the next tag when this one does not fit. *)
LEMMA SearchGoesOn ==
    ASSUME IInv, NEW t \in Threads, Search(t), MallocNext(t)
    PROVE  Search(t)'
<1>1. PICK a : a = loc[t].tag
  OBVIOUS
<1>2. /\ pc[t] = "search" /\ a # NULL /\ ~Fits(a, loc[t].size) /\ tag' = tag
      /\ loc' = [loc EXCEPT ![t].tag = tag[@].next]
      /\ TypeInv /\ a \in DOMAIN tag
  BY <1>1 DEF MallocNext, At, heap, IInv, LocalInv, Local
<1>3. loc'[t].tag = tag[a].next /\ loc'[t].size = loc[t].size
  BY <1>1, <1>2 DEF TypeInv, Locals
<1>4. Wanted(t)' = Wanted(t) /\ a \notin Wanted(t)
  BY <1>2, <1>3 DEF Wanted, Fits, Room
<1>5. ASSUME NEW S \in SUBSET DOMAIN tag, Ahead(t, S)'
      PROVE  Wanted(t) \subseteq S
  <2>1. S \cup {a} \in SUBSET DOMAIN tag
    BY <1>2
  <2>2. Ahead(t, S \cup {a})
    BY <1>1, <1>2, <1>3, <1>5 DEF Ahead
  <2>3. Wanted(t) \subseteq S \cup {a}
    BY <2>1, <2>2, <1>2 DEF Search
  <2> QED
    BY <2>3, <1>4
<1> QED
  BY <1>2, <1>4, <1>5 DEF Search

(* Every step of every thread keeps the searches of all. *)
LEMMA SearchNext == IInv /\ SearchInv /\ [Next]_vars => SearchInv'
<1> SUFFICES ASSUME IInv, SearchInv, [Next]_vars, NEW t \in Threads PROVE Search(t)'
  BY DEF SearchInv
<1>1. Search(t)
  BY DEF SearchInv
<1>2. ASSUME tag' = tag, pc'[t] = pc[t], loc'[t] = loc[t]
      PROVE  Search(t)'
  BY <1>1, <1>2 DEF Search, Ahead, Wanted, Fits, Room
<1>3. CASE UNCHANGED vars
  BY <1>2, <1>3 DEF vars, heap
<1>4. ASSUME NEW u \in Threads,
             \/ CallMalloc(u) \/ CallCalloc(u) \/ CallFree(u) \/ CallRealloc(u)
             \/ Step(u) \/ Stop(u)
      PROVE  Search(t)'
  <2>1. CASE u # t /\ pc[t] = "search"
    BY <1>2, <1>4, <2>1, OthersWait
  <2>2. CASE u = t /\ (MallocStart(t) \/ MallocNext(t))
    BY <1>1, <2>2, SearchStarts, SearchGoesOn
  <2>3. CASE u = t /\ Stop(t)
    BY <1>2, <2>3 DEF Stop, heap
  <2>4. CASE /\ u = t
             /\ \/ CallMalloc(t) \/ CallCalloc(t) \/ CallFree(t) \/ CallRealloc(t)
                \/ MallocTake(t) \/ MallocGrow(t) \/ MallocFail(t)
                \/ FreeStart(t) \/ MeltLeft(t) \/ MeltDone(t) \/ AbsorbRight(t)
                \/ FreePut(t) \/ FreeRelease(t) \/ ReallocRead(t) \/ Copy(t) \/ Fill(t)
    <3>1. pc'[t] # "search"
      <4>1. CASE CallMalloc(t) \/ CallCalloc(t) \/ CallFree(t) \/ CallRealloc(t)
        BY <4>1 DEF CallMalloc, CallCalloc, CallFree, CallRealloc, Call, IInv, TypeInv
      <4>2. CASE MallocTake(t) \/ MallocGrow(t) \/ MallocFail(t)
        BY <4>2 DEF MallocTake, MallocGrow, MallocFail, Hand, IInv, TypeInv
      <4>3. CASE FreeStart(t) \/ MeltLeft(t) \/ MeltDone(t) \/ AbsorbRight(t)
        BY <4>3 DEF FreeStart, MeltLeft, MeltDone, AbsorbRight, At, IInv, TypeInv
      <4>4. CASE FreePut(t) \/ FreeRelease(t)
        BY <4>4 DEF FreePut, FreeRelease, EndFree, IInv, TypeInv
      <4>5. CASE ReallocRead(t) \/ Copy(t) \/ Fill(t)
        BY <4>5 DEF ReallocRead, Copy, Fill, IInv, TypeInv
      <4> QED
        BY <2>4, <4>1, <4>2, <4>3, <4>4, <4>5
    <3> QED
      BY <3>1 DEF Search
  <2>5. CASE u # t /\ pc[t] # "search"
    <3>1. pc'[t] = pc[t]
      BY <1>4, <2>5 DEF CallMalloc, CallCalloc, CallFree, CallRealloc, Call, Stop,
         Step, MallocStart, MallocNext, MallocTake, MallocGrow, MallocFail, Hand,
         FreeStart, MeltLeft, MeltDone, AbsorbRight, FreePut, FreeRelease, EndFree,
         ReallocRead, Copy, Fill, IInv, TypeInv
    <3> QED
      BY <2>5, <3>1 DEF Search
  <2> QED
    BY <1>4, <2>1, <2>2, <2>3, <2>4, <2>5 DEF Step
<1> QED
  BY <1>3, <1>4 DEF Next

(* malloc asks for more pages only when no block of the request's exponent fits:
   the links it follows lead past every one of them. *)
THEOREM SearchesAll == Spec => GrowsOnlyWhenFull
<1>1. Init => SearchInv
  BY DEF Init, SearchInv, Search
<1>2. IInv /\ SearchInv /\ [Next]_vars => SearchInv'
  BY SearchNext
<1>3. IInv /\ SearchInv /\ [Next]_vars =>
         [\A t \in Threads : MallocGrow(t) =>
            \A a \in DOMAIN tag :
               tag[a].index = Bucket(loc[t].size) => ~Fits(a, loc[t].size)]_vars
  <2> SUFFICES ASSUME SearchInv, NEW t \in Threads, MallocGrow(t), NEW a \in DOMAIN tag,
                      tag[a].index = Bucket(loc[t].size), Fits(a, loc[t].size)
               PROVE  FALSE
    OBVIOUS
  <2>1. pc[t] = "search" /\ loc[t].tag = NULL
    BY DEF MallocGrow, At, Grows
  <2>2. Ahead(t, {}) /\ {} \in SUBSET DOMAIN tag
    BY <2>1 DEF Ahead
  <2>3. a \in Wanted(t)
    BY DEF Wanted
  <2> QED
    BY <2>1, <2>2, <2>3 DEF SearchInv, Search
<1> QED
  BY <1>1, <1>2, <1>3, Invariant, PTL DEF Spec, GrowsOnlyWhenFull

-----------------------------------------------------------------------------
(* How many whole runs there are when one goes back. *)

(* Blocks that are whole runs and lie apart are no more than fit. *)
LEMMA RunsFit ==
    ASSUME HeapInv, NEW S, S \subseteq DOMAIN tag, \A a \in S : Unsplit(tag[a]),
           NEW n \in Nat, heap_cur - HeapStart < (n + 1) * RunBytes
    PROVE  IsFiniteSet(S) /\ Cardinality(S) <= n
<1> DEFINE R == RunBytes
           f == [a \in S |-> (a - HeapStart) \div R]
           T == 0 .. n - 1
<1>1. R \in Nat /\ R > 0
  <2>1. PageCount \in Nat /\ PageSize \in Nat /\ PageCount > 0 /\ PageSize > 0
    BY SizeAssumption
  <2>2. PageCount * PageSize > 0 /\ PageCount * PageSize \in Nat
    BY <2>1
  <2> QED
    BY <2>2 DEF RunBytes
<1>2. /\ Sound(Now, heap_cur, released) /\ Now.tag = tag
      /\ heap_cur \in Int /\ HeapStart \in Int /\ IsFiniteSet(Addr)
  BY NowTables, HeapAssumption, FS_Interval DEF HeapInv, Sound, Addr
<1>3. IsFiniteSet(S) /\ Cardinality(S) \in Nat
  <2>1. S \subseteq Addr
    BY HeapFacts
  <2> QED
    BY <2>1, <1>2, FS_Subset, FS_CardinalityType
<1>4. \A a \in S : /\ a \in Int /\ HeapStart <= a /\ tag[a].real_size \in Nat
                   /\ a + tag[a].real_size <= heap_cur
  BY HeapFacts
<1>5. \A a \in S : R <= tag[a].real_size
  <2> SUFFICES ASSUME NEW a \in S PROVE R <= tag[a].real_size
    OBVIOUS
  <2>1. tag[a].split_left = NULL /\ tag[a].split_right = NULL /\ a <= a
    BY <1>4 DEF Unsplit
  <2>2. a + RunBytes <= a + tag[a].real_size
    BY <1>2, <2>1 DEF Sound, Spaced
  <2> QED
    BY <2>2, <1>1, <1>4
<1>6. \A a, b \in S : a < b => a + R <= b
  <2> SUFFICES ASSUME NEW a \in S, NEW b \in S, a < b PROVE a + R <= b
    OBVIOUS
  <2>1. a + tag[a].real_size <= b
    BY <1>2 DEF Sound, Tiles
  <2> QED
    BY <2>1, <1>1, <1>4, <1>5
<1>7. \A a \in S : /\ f[a] \in Int /\ R * f[a] <= a - HeapStart
                   /\ a - HeapStart < R * f[a] + R
  BY <1>1, <1>2, <1>4
<1> HIDE DEF f, R
<1>8. \A a \in S : f[a] \in T
  <2> SUFFICES ASSUME NEW a \in S PROVE f[a] \in T
    OBVIOUS
  <2>1. a - HeapStart < n * R
    <3>1. (n + 1) * R = n * R + R /\ n * R \in Int
      BY <1>1
    <3>2. heap_cur - HeapStart < (n + 1) * R
      BY DEF R
    <3>3. a + R <= heap_cur
      BY <1>1, <1>2, <1>4, <1>5
    <3> QED
      BY <3>1, <3>2, <3>3, <1>1, <1>2, <1>4
  <2>2. R * f[a] < R * n
    <3>1. n * R = R * n /\ R * n \in Int /\ R * f[a] \in Int
      BY <1>1, <1>7
    <3> QED
      BY <3>1, <2>1, <1>2, <1>4, <1>7
  <2>3. f[a] < n
    <3>1. ASSUME n <= f[a] PROVE R * n <= R * f[a]
      BY <3>1, <1>1, <1>7
    <3> QED
      BY <3>1, <2>2, <1>1, <1>7
  <2>4. f[a] >= 0
    <3>1. ASSUME f[a] < 0 PROVE R * f[a] + R <= 0
      <4>1. R * (f[a] + 1) <= 0 /\ R * (f[a] + 1) = R * f[a] + R
        BY <3>1, <1>1, <1>7
      <4> QED
        BY <4>1
    <3> QED
      BY <3>1, <1>1, <1>2, <1>4, <1>7
  <2> QED
    BY <2>3, <2>4, <1>7
<1>9. \A a, b \in S : a < b => f[a] # f[b]
  BY <1>1, <1>2, <1>4, <1>6, <1>7
<1>10. f \in [S -> T]
  <2>1. f = [a \in S |-> f[a]]
    BY DEF f
  <2> QED
    BY <2>1, <1>8
<1>11. IsFiniteSet(T) /\ Cardinality(T) = n
  <2>1. 0 \in Int /\ n - 1 \in Int
    OBVIOUS
  <2>2. /\ IsFiniteSet(0 .. n - 1)
        /\ Cardinality(0 .. n - 1) = IF 0 > n - 1 THEN 0 ELSE (n - 1) - 0 + 1
    BY <2>1, FS_Interval
  <2> QED
    BY <2>2
<1>12. ~(n < Cardinality(S))
  <2> HIDE DEF T
  <2>1. SUFFICES ASSUME Cardinality(T) < Cardinality(S) PROVE FALSE
    BY <1>11
  <2>2. PICK a \in S, b \in S : a # b /\ f[a] = f[b]
    BY <2>1, <1>3, <1>10, <1>11, FS_PigeonHole
  <2> QED
    BY <2>2, <1>4, <1>9
<1> QED
  BY <1>3, <1>12

(* When a run is about to go back, as many as MAXCOMPLETE others are on its list. *)
LEMMA ManyWhenCrowded ==
    ASSUME HeapInv, NEW a \in Out, Crowded(a)
    PROVE  ManyRuns
<1> DEFINE i == Bucket(Room(a))
           S == Runs(Now, i) \cup {a}
<1>1. /\ Now.tag = tag /\ Now.complete = complete /\ Typed(Now) /\ Counted(Now)
      /\ heap_cur \in Int /\ HeapStart \in Int /\ RunBytes \in Nat /\ MaxComplete \in Nat
  BY NowTables, HeapAssumption, SizeAssumption, RunBytesType DEF HeapInv, Sound, Addr
<1>2. a \in DOMAIN tag /\ tag[a].index = -1 /\ Unsplit(tag[a]) /\ complete[i] = MaxComplete
  BY <1>1 DEF Out, Loose, Crowded, Whole, Unsplit
<1>3. i \in Buckets
  <2>1. Room(a) \in Int
    BY <1>2, HeapFacts, SizeAssumption DEF Room
  <2> QED
    BY <2>1, BucketType
<1> HIDE DEF i
<1>4. S \subseteq DOMAIN tag /\ \A b \in S : Unsplit(tag[b])
  BY <1>1, <1>2 DEF Runs
<1>5. Cardinality(S) = MaxComplete + 1
  <2>1. IsFiniteSet(Runs(Now, i)) /\ Cardinality(Runs(Now, i)) = MaxComplete
    BY <1>1, <1>2, <1>3, RunsFinite DEF Counted
  <2>2. a \notin Runs(Now, i)
    BY <1>1, <1>2, <1>3, Bucketed DEF Runs
  <2> QED
    BY <2>1, <2>2, FS_AddElement
<1> HIDE DEF S
<1>6. SUFFICES ASSUME heap_cur - HeapStart < (MaxComplete + 1) * RunBytes PROVE FALSE
  <2>1. (MaxComplete + 1) * RunBytes \in Int
    BY <1>1
  <2> QED
    BY <1>1, <2>1 DEF ManyRuns
<1>7. Cardinality(S) <= MaxComplete
  BY <1>1, <1>4, <1>6, RunsFit
<1> QED
  BY <1>1, <1>5, <1>7

-----------------------------------------------------------------------------
(* Why the system stops: what the steps read and change lies in the memory obtained. *)

Table == 0 .. TableEnd \div PageSize - 1

(* The pages are in the order of the addresses on them. *)
LEMMA PageOrder ==
    ASSUME NEW x \in Nat, NEW y \in Nat, x <= y
    PROVE  Page(x) \in Nat /\ Page(y) \in Nat /\ Page(x) <= Page(y)
<1> DEFINE q == Page(x)
           r == Page(y)
<1>1. PageSize \in Nat /\ PageSize > 0
  BY SizeAssumption
<1>2. /\ q \in Int /\ PageSize * q <= x /\ x < PageSize * q + PageSize
      /\ r \in Int /\ PageSize * r <= y /\ y < PageSize * r + PageSize
  BY <1>1 DEF Page
<1> HIDE DEF q, r
<1>3. q >= 0 /\ r >= 0
  <2>1. ASSUME NEW k \in Int, k < 0 PROVE PageSize * k + PageSize <= 0
    <3>1. PageSize * (k + 1) <= 0 /\ PageSize * (k + 1) = PageSize * k + PageSize
      BY <2>1, <1>1
    <3> QED BY <3>1
  <2> QED
    BY <2>1, <1>1, <1>2
<1>4. q <= r
  <2>1. SUFFICES ASSUME r < q PROVE FALSE
    BY <1>2
  <2>2. PageSize * (r + 1) <= PageSize * q /\ PageSize * (r + 1) = PageSize * r + PageSize
    BY <2>1, <1>1, <1>2
  <2> QED
    BY <2>2, <1>1, <1>2
<1> QED
  BY <1>2, <1>3, <1>4 DEF q, r

(* Bytes that lie below an address of the table are on its pages. *)
LEMMA PagesBelow ==
    ASSUME NEW x \in Nat, NEW y \in Nat, NEW z \in Nat, y <= z, Page(z) \in Table
    PROVE  Pages(x, y) \subseteq Table
<1>1. Page(y) <= Page(z) /\ Page(y) \in Nat /\ Page(z) \in Nat
  BY PageOrder
<1>2. Page(x) \in Nat
  BY PageOrder
<1>3. TableEnd \div PageSize \in Int
  BY SizeAssumption, HeapAssumption
<1> QED
  BY <1>1, <1>2, <1>3 DEF Pages, Table

(* A heap has no tags but those it had and what is cut off the block handed out. *)
LEMMA CarvedTags ==
    ASSUME NEW h, h.tag \in [DOMAIN h.tag -> Tags], NEW a \in DOMAIN h.tag, NEW size
    PROVE  \A b \in DOMAIN Carve(h, a, size).tag :
              \/ b \in DOMAIN h.tag
              \/ /\ b = a + TagSize + size
                 /\ h.tag[a].real_size - size - 2 * TagSize > 0
<1> DEFINE s == HeapOf([h.tag EXCEPT ![a].size = size], h.free, h.complete)
           remainder == h.tag[a].real_size - size - 2 * TagSize
<1>1. s.tag = [h.tag EXCEPT ![a].size = size]
  BY DEF HeapOf
<1>2. DOMAIN s.tag = DOMAIN h.tag /\ s.tag[a].size = size
  BY <1>1 DEF Tags
<1>3. Carve(h, a, size) = IF remainder > 0 /\ getexp(remainder) >= 0 THEN split_tag(s, a) ELSE s
  BY DEF Carve
<1>4. DOMAIN split_tag(s, a).tag = DOMAIN s.tag \cup {a + TagSize + s.tag[a].size}
  BY DEF split_tag, insert_tag, HeapOf
<1> HIDE DEF s
<1> QED
  BY <1>2, <1>3, <1>4

(* Headers between the heap's start and end. *)
Inside(b, end) == b \in Int /\ HeapStart <= b /\ b + TagSize <= end

(* The headers in force are. *)
LEMMA TagsInside ==
    ASSUME HeapInv, NEW b \in DOMAIN tag
    PROVE  Inside(b, heap_cur)
<1>1. /\ b \in Int /\ HeapStart <= b /\ b + tag[b].real_size <= heap_cur
      /\ tag[b].size \in Nat /\ tag[b].real_size \in Nat
      /\ tag[b].size + TagSize <= tag[b].real_size
  BY HeapFacts
<1>2. heap_cur \in Int
  BY HeapAssumption DEF HeapInv, Sound, Addr
<1> QED
  BY <1>1, <1>2, SizeAssumption DEF Inside

(* So are those malloc writes when it takes a block that fits. *)
LEMMA TakenInside ==
    ASSUME HeapInv, NEW a \in DOMAIN tag, NEW size \in Nat, Fits(a, size)
    PROVE  \A b \in Touched(Taken(a, size)) : Inside(b, heap_cur)
<1> DEFINE c == IF Whole(a) THEN [complete EXCEPT ![Bucket(size)] = @ - 1] ELSE complete
           h == HeapOf(tag, free, c)
           m == remove_tag(h, a)
<1>1. h.tag = tag /\ h.free = free
  BY DEF HeapOf
<1>2. Typed(h)
  BY <1>1, NowTables DEF Typed, HeapInv, Sound
<1>3. Taken(a, size) = Carve(m, a, size)
  BY DEF Taken
<1> HIDE DEF c, h
<1>4. Typed(m) /\ Removed(h, m, a)
  BY <1>1, <1>2, RemoveTag
<1> HIDE DEF m
<1>5. m.tag \in [DOMAIN m.tag -> Tags] /\ DOMAIN m.tag = DOMAIN tag
      /\ m.tag[a].real_size = tag[a].real_size
  BY <1>1, <1>4 DEF Typed, Removed, Kept
<1>6. \A b \in DOMAIN Taken(a, size).tag :
         b \in DOMAIN tag \/ (b = a + TagSize + size /\ tag[a].real_size - size - 2 * TagSize > 0)
  BY <1>3, <1>5, CarvedTags
<1>7. /\ a \in Int /\ HeapStart <= a /\ a + tag[a].real_size <= heap_cur
      /\ tag[a].real_size \in Nat /\ heap_cur \in Int
  BY HeapFacts, HeapAssumption DEF HeapInv, Sound, Addr
<1>8. ASSUME tag[a].real_size - size - 2 * TagSize > 0
      PROVE  Inside(a + TagSize + size, heap_cur)
  BY <1>7, <1>8, SizeAssumption, HeapAssumption DEF Inside
<1> QED
  BY <1>6, <1>8, TagsInside DEF Touched

(* Those of a block of fresh pages are in what was obtained for it. *)
LEMMA GrownInside ==
    ASSUME HeapInv, NEW size \in Nat
    PROVE  \A b \in Touched(Grown(size)) : Inside(b, heap_cur + Bytes(size))
<1> DEFINE n == Bytes(size)
           h == HeapOf([b \in DOMAIN tag \cup {heap_cur} |->
                          IF b = heap_cur THEN Fresh(size, n) ELSE tag[b]], free, complete)
<1>1. n \in Nat /\ size + TagSize <= n /\ heap_cur \in Addr /\ heap_cur \in Int
  BY BytesEnough, HeapAssumption DEF HeapInv, Sound, Addr
<1>2. Grown(size) = Carve(h, heap_cur, size)
  BY DEF Grown, Fresh
<1> HIDE DEF n
<1>3. Fresh(size, n) \in Tags
  BY <1>1, SizeAssumption DEF Fresh, Tags, Lists, Ptr
<1>4. tag \in [DOMAIN tag -> Tags]
  BY NowTables DEF HeapInv, Sound, Typed
<1>5. h.tag = [b \in DOMAIN tag \cup {heap_cur} |->
                 IF b = heap_cur THEN Fresh(size, n) ELSE tag[b]]
  BY DEF HeapOf
<1> HIDE DEF h
<1>6. h.tag \in [DOMAIN h.tag -> Tags] /\ DOMAIN h.tag = DOMAIN tag \cup {heap_cur}
      /\ h.tag[heap_cur] = Fresh(size, n)
  BY <1>3, <1>4, <1>5
<1>7. h.tag[heap_cur].real_size = n
  BY <1>6 DEF Fresh
<1>8. \A b \in DOMAIN Grown(size).tag :
         \/ b \in DOMAIN tag \/ b = heap_cur
         \/ b = heap_cur + TagSize + size /\ n - size - 2 * TagSize > 0
  BY <1>2, <1>6, <1>7, CarvedTags
<1>9. ASSUME n - size - 2 * TagSize > 0
      PROVE  Inside(heap_cur + TagSize + size, heap_cur + n)
  BY <1>1, <1>9, SizeAssumption, HeapAssumption DEF Inside, Addr
<1>10. Inside(heap_cur, heap_cur + n)
  BY <1>1, SizeAssumption, HeapAssumption DEF Inside, Addr
<1>11. \A b : Inside(b, heap_cur) => Inside(b, heap_cur + n)
  BY <1>1, SizeAssumption DEF Inside
<1> QED
  BY <1>8, <1>9, <1>10, <1>11, TagsInside DEF Touched, n

(* free writes no new headers. *)
LEMMA FreedInside ==
    ASSUME HeapInv, NEW a
    PROVE  /\ \A b \in Touched(Melted(a)) : Inside(b, heap_cur)
           /\ \A b \in Touched(absorb_right(Now, a)) : Inside(b, heap_cur)
           /\ \A b \in Touched(Put(a)) : Inside(b, heap_cur)
<1>1. Now.tag = tag
  BY NowTables
<1>2. ASSUME NEW h, NEW x, NEW y, NEW i
      PROVE  /\ DOMAIN Join(h, x, y).tag \subseteq DOMAIN h.tag
             /\ DOMAIN remove_tag(h, x).tag = DOMAIN h.tag
             /\ DOMAIN insert_tag(h, x, i).tag = DOMAIN h.tag
  BY DEF Join, remove_tag, insert_tag, HeapOf
<1>3. DOMAIN Melted(a).tag \subseteq DOMAIN tag
  <2> DEFINE left == tag[a].split_left
             h == Join(Now, left, a)
  <2>1. Melted(a) = remove_tag(h, left)
    BY <1>1 DEF Melted, melt_left
  <2>2. DOMAIN h.tag \subseteq DOMAIN tag
    BY <1>1, <1>2
  <2> HIDE DEF h, left
  <2>3. DOMAIN remove_tag(h, left).tag = DOMAIN h.tag
    BY <1>2
  <2> QED
    BY <2>1, <2>2, <2>3
<1>4. DOMAIN absorb_right(Now, a).tag \subseteq DOMAIN tag
  BY <1>1, <1>2 DEF absorb_right
<1>5. DOMAIN Put(a).tag \subseteq DOMAIN tag
  <2> DEFINE c == IF Whole(a) THEN [complete EXCEPT ![Bucket(Room(a))] = @ + 1] ELSE complete
             h == HeapOf(tag, free, c)
             i == Bucket(Room(a))
  <2>1. h.tag = tag /\ Put(a) = insert_tag(h, a, i)
    BY DEF HeapOf, Put
  <2> HIDE DEF h, i
  <2>2. DOMAIN insert_tag(h, a, i).tag = DOMAIN h.tag
    BY <1>2
  <2> QED
    BY <2>1, <2>2
<1> QED
  BY <1>3, <1>4, <1>5, TagsInside DEF Touched

(* The block of a pointer that is the call's own. *)
LEMMA OwnBlock ==
    ASSUME IInv, NEW t \in Threads, NEW p,
           p = loc[t].ptr \/ (p = loc[t].old /\ ~Freeing(t)), p # NULL
    PROVE  p \in Int /\ p - TagSize \in DOMAIN tag
<1>1. p \in Ptr /\ p \in Int
  BY HeapAssumption DEF IInv, TypeInv, Locals, Ptr, Addr, NULL
<1>2. p - TagSize \in Mine(t)
  BY DEF Mine, Header
<1>3. p - TagSize \in Out
  BY <1>2 DEF IInv, OwnInv
<1> QED
  BY <1>1, <1>3, NowTables DEF Out, Loose

(* Every header the next step of a call reads or writes is in the memory obtained,
   the pages it is about to obtain included. *)
LEMMA HeadersInside ==
    ASSUME IInv, NEW t \in Threads
    PROVE  \A b \in Headers(t) :
              Inside(b, IF Grows(t) THEN heap_cur + Bytes(loc[t].size) ELSE heap_cur)
<1> DEFINE a == loc[t].tag
           n == loc[t].size
<1>1. HeapInv /\ n \in Nat /\ a \in Ptr
  BY DEF IInv, TypeInv, Locals
<1>2. CASE pc[t] = "search" /\ a # NULL
  <2>1. a \in DOMAIN tag
    BY <1>2 DEF IInv, LocalInv, Local
  <2>2. Headers(t) = {a} \cup (IF Fits(a, n) THEN Touched(Taken(a, n)) ELSE {})
    BY <1>2 DEF Headers, Grows
  <2>3. ~Grows(t)
    BY <1>2 DEF Grows
  <2>4. \A b \in Headers(t) : Inside(b, heap_cur)
    BY <2>1, <2>2, <1>1, TagsInside, TakenInside
  <2> QED
    BY <2>3, <2>4
<1>3. CASE Grows(t)
  <2>1. pc[t] = "search" /\ a = NULL
    BY <1>3 DEF Grows
  <2>2. Headers(t) = Touched(Grown(n))
    BY <1>3, <2>1 DEF Headers
  <2> QED
    BY <2>2, <1>1, <1>3, GrownInside
<1>4. CASE Freeing(t)
  <2>1. a \in DOMAIN tag
    BY <1>4, GivenBack
  <2>2. /\ Left(t) # NULL => Left(t) \in DOMAIN tag
        /\ Right(t) # NULL => Right(t) \in DOMAIN tag
    BY <1>1, <2>1, BesideBlocks DEF Left, Right
  <2>3. ~Grows(t)
    BY <1>4 DEF Grows, Freeing
  <2>4. CASE pc[t] = "free"
    <3>1. Headers(t) = {a}
      BY <2>3, <2>4 DEF Headers
    <3> QED
      BY <3>1, <2>1, <2>3, <1>1, TagsInside
  <2>5. CASE pc[t] = "melt"
    <3>1. Headers(t) = ({Left(t)} \ {NULL}) \cup
                       (IF OnList(Left(t)) THEN Touched(Melted(a)) ELSE {})
      BY <2>3, <2>5 DEF Headers
    <3> QED
      BY <3>1, <2>2, <2>3, <1>1, TagsInside, FreedInside
  <2>6. CASE pc[t] = "absorb"
    <3>1. Headers(t) = ({Right(t)} \ {NULL}) \cup
                       (IF OnList(Right(t)) THEN Touched(absorb_right(Now, a))
                        ELSE IF Crowded(a) THEN {} ELSE Touched(Put(a)))
      BY <2>3, <2>6 DEF Headers
    <3> QED
      BY <3>1, <2>2, <2>3, <1>1, TagsInside, FreedInside
  <2> QED
    BY <1>4, <2>4, <2>5, <2>6 DEF Freeing
<1>5. CASE pc[t] = "realloc"
  <2>1. loc[t].old # NULL /\ ~Freeing(t) /\ ~Grows(t)
    BY <1>5 DEF IInv, LocalInv, Local, Freeing, Grows
  <2>2. loc[t].old - TagSize \in DOMAIN tag
    BY <2>1, OwnBlock
  <2>3. Headers(t) = {loc[t].old - TagSize}
    BY <2>1, <1>5 DEF Headers
  <2> QED
    BY <2>1, <2>2, <2>3, <1>1, TagsInside
<1>6. CASE ~(pc[t] = "search" /\ a # NULL) /\ ~Grows(t) /\ ~Freeing(t) /\ pc[t] # "realloc"
  <2>1. Headers(t) = {}
    BY <1>6 DEF Headers, Freeing
  <2> QED
    BY <2>1
<1> QED
  BY <1>2, <1>3, <1>4, <1>5, <1>6

(* As long as no run of pages went back, all of the first table is mapped; the memory
   obtained is in that table; and runs go back only from a heap of many. *)
Mapped ==
    /\ released = {} => present = Table
    /\ released # {} => ManyRuns
    /\ heap_cur > HeapStart => Page(heap_cur) \in Table

(* A tag in force lies on pages that are present, with the bytes behind it up to
   what was asked for. *)
LEMMA BlockUsable ==
    ASSUME IInv, Mapped, released = {}, NEW a \in DOMAIN tag, NEW n \in Nat,
           n <= tag[a].size
    PROVE  Usable(a + TagSize, n) /\ Usable(NULL, n)
<1>1. /\ a \in Int /\ HeapStart <= a /\ a + tag[a].real_size <= heap_cur /\ a < heap_cur
      /\ tag[a].size \in Nat /\ tag[a].real_size \in Nat
      /\ tag[a].size + TagSize <= tag[a].real_size
      /\ heap_cur \in Int /\ HeapStart \in Nat /\ TagSize \in Nat
  BY HeapFacts, HeapAssumption, SizeAssumption DEF IInv, HeapInv, Sound, Addr
<1>2. Page(heap_cur) \in Table /\ present = Table
  BY <1>1 DEF Mapped
<1>3. ASSUME n > 0
      PROVE  Pages(a + TagSize, a + TagSize + n - 1) \subseteq Table
  <2> DEFINE x == a + TagSize
             y == a + TagSize + n - 1
  <2>1. x \in Nat /\ y \in Nat /\ heap_cur \in Nat /\ y <= heap_cur
    BY <1>1, <1>3
  <2> HIDE DEF x, y
  <2> QED
    BY <2>1, <1>2, PagesBelow DEF x, y
<1>4. ASSUME n > 0
      PROVE  Pages(NULL, NULL + n - 1) \subseteq Table
  <2> DEFINE y == NULL + n - 1
  <2>1. NULL \in Nat /\ y \in Nat /\ heap_cur \in Nat /\ y <= heap_cur
    BY <1>1, <1>4 DEF NULL
  <2> HIDE DEF y
  <2> QED
    BY <2>1, <1>2, PagesBelow DEF y
<1> QED
  BY <1>2, <1>3, <1>4 DEF Usable

(* malloc's new pages are in the table when the last of them is. *)
LEMMA EndMapped ==
    ASSUME IInv, NEW n \in Nat, InTable(NewPages(n))
    PROVE  Page(heap_cur + Bytes(n)) \in Table
<1>1. heap_cur \in Nat /\ Bytes(n) \in Nat /\ heap_cur <= heap_cur + Bytes(n)
      /\ heap_cur + Bytes(n) \in Nat
  BY BytesEnough, HeapAssumption DEF IInv, HeapInv, Sound, Addr
<1>2. Page(heap_cur) <= Page(heap_cur + Bytes(n)) /\ Page(heap_cur) \in Nat
      /\ Page(heap_cur + Bytes(n)) \in Nat
  BY <1>1, PageOrder
<1> QED
  BY <1>2 DEF InTable, NewPages, Pages, Table

(* The heap begins on the first table. *)
LEMMA StartMapped ==
    /\ Page(HeapStart) \in Table
    /\ \A x \in Nat : Page(x) \in Table => x < TableEnd
<1> DEFINE q == TableEnd \div PageSize
<1>1. /\ PageSize \in Nat /\ PageSize > 0 /\ HeapStart \in Nat /\ TableEnd \in Nat
      /\ HeapStart < TableEnd /\ TableEnd % PageSize = 0
  BY SizeAssumption, HeapAssumption, LayoutAssumption
<1>2. q \in Int /\ TableEnd = PageSize * q
  BY <1>1
<1> HIDE DEF q
<1>3. ASSUME NEW x \in Nat
      PROVE  /\ Page(x) \in Nat /\ PageSize * Page(x) <= x
             /\ x < PageSize * Page(x) + PageSize
  <2>1. Page(x) \in Nat
    BY PageOrder
  <2> QED
    BY <1>1, <2>1 DEF Page
<1>4. Page(HeapStart) \in 0 .. q - 1
  <2> DEFINE k == Page(HeapStart)
  <2>1. k \in Nat /\ PageSize * k <= HeapStart
    BY <1>1, <1>3
  <2> HIDE DEF k
  <2>2. k < q
    <3>1. SUFFICES ASSUME q <= k PROVE FALSE
      BY <1>2, <2>1
    <3>2. PageSize * q <= PageSize * k
      BY <3>1, <1>1, <1>2, <2>1
    <3> QED
      BY <3>2, <2>1, <1>1, <1>2
  <2> QED
    BY <2>1, <2>2, <1>2 DEF k
<1>5. ASSUME NEW x \in Nat, Page(x) \in 0 .. q - 1
      PROVE  x < TableEnd
  <2> DEFINE k == Page(x)
  <2>1. k \in Nat /\ k + 1 <= q /\ x < PageSize * k + PageSize
    BY <1>2, <1>3, <1>5
  <2> HIDE DEF k
  <2>2. PageSize * (k + 1) <= PageSize * q /\ PageSize * (k + 1) = PageSize * k + PageSize
    BY <2>1, <1>1, <1>2
  <2> QED
    BY <2>1, <2>2, <1>1, <1>2
<1> QED
  BY <1>4, <1>5 DEF Table, q

(* The next step of a call finds all it needs and harms nobody, but for the calls that
   go past the table, or write to what they did not get as far as the kernel. *)
LEMMA AllGo ==
    ASSUME IInv, Mapped, released = {}, NEW t \in Threads, ~Overgrows(t),
           ~(loc[t].ptr = NULL /\ Overwrites(t))
    PROVE  Goes(t)
<1> DEFINE n == loc[t].size
           pages == IF Grows(t) THEN present \cup NewPages(n) ELSE present
<1>1. n \in Nat /\ loc[t].keep \in Nat /\ HeapInv
  BY DEF IInv, TypeInv, Locals
<1>2. Grows(t) => InTable(NewPages(n))
  BY DEF Overgrows
<1>3. heap_cur \in Nat /\ HeapStart \in Nat /\ TagSize \in Nat \ {0} /\ present = Table
  BY HeapAssumption, SizeAssumption DEF IInv, HeapInv, Sound, Addr, Mapped
<1>4. ASSUME NEW b \in Headers(t)
      PROVE  Pages(b, b + TagSize - 1) \subseteq pages
  <2> DEFINE end == IF Grows(t) THEN heap_cur + Bytes(n) ELSE heap_cur
             y == b + TagSize - 1
  <2>1. Inside(b, end)
    BY HeadersInside
  <2>2. end \in Nat
    BY <1>1, <1>3, BytesEnough
  <2>3. Page(end) \in Table
    <3>1. CASE Grows(t)
      BY <3>1, <1>1, <1>2, EndMapped
    <3>2. CASE ~Grows(t)
      BY <3>2, <2>1, <1>3 DEF Inside, Mapped
    <3> QED
      BY <3>1, <3>2
  <2>4. b \in Nat /\ y \in Nat /\ y <= end
    BY <2>1, <2>2, <1>3 DEF Inside
  <2> HIDE DEF end, y
  <2>5. Pages(b, y) \subseteq Table
    BY <2>2, <2>3, <2>4, PagesBelow
  <2> QED
    BY <2>5, <1>3 DEF y
<1>5. ASSUME pc[t] = "copy"
      PROVE  Usable(loc[t].old, loc[t].keep) /\ Usable(loc[t].ptr, loc[t].keep)
  <2> DEFINE a == loc[t].old - TagSize
             b == loc[t].ptr - TagSize
  <2>1. /\ loc[t].old # NULL
        /\ loc[t].keep <= tag[a].size
        /\ loc[t].keep <= n
        /\ loc[t].ptr # NULL => tag[b].size = n
    BY <1>5 DEF IInv, LocalInv, Local
  <2>2. ~Freeing(t)
    BY <1>5 DEF Freeing
  <2>3. loc[t].old \in Int /\ a \in DOMAIN tag
    BY <2>1, <2>2, OwnBlock
  <2>4. a + TagSize = loc[t].old
    BY <2>3, <1>3
  <2>5. loc[t].keep <= tag[a].size
    BY <2>1
  <2>6. Usable(loc[t].old, loc[t].keep) /\ Usable(NULL, loc[t].keep)
    <3> HIDE DEF a
    <3>1. Usable(a + TagSize, loc[t].keep) /\ Usable(NULL, loc[t].keep)
      BY <2>3, <2>5, <1>1, BlockUsable
    <3> QED
      BY <3>1, <2>4
  <2>7. CASE loc[t].ptr # NULL
    <3>1. loc[t].ptr \in Int /\ b \in DOMAIN tag
      BY <2>7, OwnBlock
    <3>2. b + TagSize = loc[t].ptr
      BY <3>1, <1>3
    <3>3. loc[t].keep <= tag[b].size
      BY <2>1, <2>7
    <3> HIDE DEF b
    <3>4. Usable(b + TagSize, loc[t].keep)
      BY <3>1, <3>3, <1>1, BlockUsable
    <3> QED
      BY <3>2, <3>4, <2>6
  <2> QED
    BY <2>6, <2>7
<1>6. ASSUME pc[t] = "fill"
      PROVE  Usable(loc[t].ptr, n)
  <2> DEFINE b == loc[t].ptr - TagSize
  <2>1. CASE loc[t].ptr = NULL
    <3>1. ~OverKernel(NULL, n)
      BY <2>1, <1>6 DEF Overwrites
    <3> DEFINE y == NULL + n - 1
    <3>2. n > 0 => y \in Nat /\ NULL \in Nat /\ y <= HeapStart
      BY <3>1, <1>1, <1>3, SizeAssumption, HeapAssumption, LayoutAssumption
      DEF OverKernel, NULL
    <3> HIDE DEF y
    <3>3. n > 0 => Pages(NULL, y) \subseteq Table
      BY <3>2, <1>3, StartMapped, PagesBelow
    <3> QED
      BY <3>3, <2>1, <1>3 DEF Usable, y
  <2>2. CASE loc[t].ptr # NULL
    <3>1. tag[b].size = n
      BY <2>2, <1>6 DEF IInv, LocalInv, Local
    <3>2. loc[t].ptr \in Int /\ b \in DOMAIN tag
      BY <2>2, OwnBlock
    <3>3. b + TagSize = loc[t].ptr
      BY <3>2, <1>3
    <3>4. n <= tag[b].size
      BY <3>1, <1>1
    <3> HIDE DEF b
    <3>5. Usable(b + TagSize, n)
      BY <3>2, <3>4, <1>1, BlockUsable
    <3> QED
      BY <3>3, <3>5
  <2> QED
    BY <2>1, <2>2
<1>7. Accessible(t)
  BY <1>2, <1>4, <1>5, <1>6 DEF Accessible
<1>8. ~Overwrites(t)
  <2>1. CASE loc[t].ptr = NULL
    BY <2>1
  <2>2. CASE loc[t].ptr # NULL
    <3> DEFINE b == loc[t].ptr - TagSize
    <3>1. loc[t].ptr \in Int /\ b \in DOMAIN tag
      BY <2>2, OwnBlock
    <3>2. HeapStart <= b
      BY <3>1, <1>1, HeapFacts
    <3>3. ~(loc[t].ptr < HeapStart)
      BY <3>1, <3>2, <1>3
    <3> QED
      BY <3>3 DEF Overwrites, OverKernel
  <2> QED
    BY <2>1, <2>2
<1> QED
  BY <1>7, <1>8 DEF Goes

(* Only malloc's growth and free's release change what is mapped. *)
LEMMA MappedNext == IInv /\ Mapped /\ [Next]_vars => Mapped'
<1> SUFFICES ASSUME IInv, Mapped, [Next]_vars PROVE Mapped'
  OBVIOUS
<1>1. ASSUME UNCHANGED <<released, present, heap_cur>>
      PROVE  Mapped'
  BY <1>1 DEF Mapped, Table, Page, ManyRuns
<1>2. CASE UNCHANGED vars
  BY <1>1, <1>2 DEF vars
<1>3. ASSUME NEW t \in Threads, MallocGrow(t)
      PROVE  Mapped'
  <2>1. /\ Grows(t) /\ Accessible(t)
        /\ present' = present \cup NewPages(loc[t].size)
        /\ heap_cur' = heap_cur + Bytes(loc[t].size) /\ released' = released
    BY <1>3 DEF MallocGrow, At, Goes
  <2>2. InTable(NewPages(loc[t].size)) /\ loc[t].size \in Nat
    BY <2>1 DEF Accessible, IInv, TypeInv, Locals
  <2>3. Page(heap_cur') \in Table
    BY <2>1, <2>2, EndMapped
  <2>4. released = {} => present' = Table
    BY <2>1, <2>2 DEF Mapped, InTable, Table
  <2>5. ManyRuns => ManyRuns'
    <3>1. heap_cur \in Int /\ HeapStart \in Int /\ Bytes(loc[t].size) \in Nat
      <4>1. heap_cur \in Addr
        BY DEF IInv, HeapInv, Sound
      <4>2. heap_cur \in Int /\ HeapStart \in Int
        BY <4>1, HeapAssumption DEF Addr
      <4>3. Bytes(loc[t].size) \in Nat
        BY <2>2, BytesEnough
      <4> QED
        BY <4>2, <4>3
    <3>2. (MaxComplete + 1) * RunBytes \in Int
      BY RunBytesType, SizeAssumption
    <3> QED
      BY <2>1, <3>1, <3>2 DEF ManyRuns
  <2> QED
    BY <2>1, <2>3, <2>4, <2>5 DEF Mapped, Table, Page
<1>4. ASSUME NEW t \in Threads, FreeRelease(t)
      PROVE  Mapped'
  <2> DEFINE a == loc[t].tag
  <2>1. /\ released' = released \cup Extent(a) /\ heap_cur' = heap_cur
        /\ pc[t] = "absorb" /\ Crowded(a)
    BY <1>4 DEF FreeRelease, At
  <2>2. a \in DOMAIN tag /\ a \in Out
    BY <2>1, GivenBack DEF Freeing
  <2>3. a \in Extent(a)
    BY <2>2, HeapFacts, SizeAssumption DEF IInv, Extent
  <2>4. ManyRuns
    BY <2>1, <2>2, ManyWhenCrowded DEF IInv
  <2> QED
    BY <2>1, <2>3, <2>4 DEF Mapped, Table, Page, ManyRuns
<1>5. ASSUME NEW t \in Threads,
             \/ CallMalloc(t) \/ CallCalloc(t) \/ CallFree(t) \/ CallRealloc(t)
             \/ Stop(t)
      PROVE  Mapped'
  BY <1>1, <1>5 DEF CallMalloc, CallCalloc, CallFree, CallRealloc, Call, Stop
<1>6. ASSUME NEW t \in Threads, Step(t), ~MallocGrow(t), ~FreeRelease(t)
      PROVE  Mapped'
  BY <1>1, <1>6 DEF Step, MallocStart, MallocNext, MallocTake, MallocFail,
     FreeStart, MeltLeft, MeltDone, AbsorbRight, FreePut, ReallocRead, Copy, Fill
<1> QED
  BY <1>2, <1>3, <1>4, <1>5, <1>6 DEF Next

(* A call's step leaves the system going, and is taken only while it is. *)
LEMMA OthersGoOn ==
    ASSUME NEW t \in Threads,
           \/ CallMalloc(t) \/ CallCalloc(t) \/ CallFree(t) \/ CallRealloc(t)
           \/ Step(t)
    PROVE  ~halted /\ halted' = halted
<1>1. CASE CallMalloc(t) \/ CallCalloc(t) \/ CallFree(t) \/ CallRealloc(t)
  BY <1>1 DEF CallMalloc, CallCalloc, CallFree, CallRealloc, Call
<1>2. CASE Step(t)
  BY <1>2 DEF Step, MallocStart, MallocNext, MallocTake, MallocGrow, MallocFail,
     FreeStart, MeltLeft, MeltDone, AbsorbRight, FreePut, FreeRelease,
     ReallocRead, Copy, Fill, At
<1> QED
  BY <1>1, <1>2

(* The system stops for one of the three reasons, and then stays where it is. *)
LEMMA StopsNext ==
    IInv /\ Mapped /\ StopsExplained /\ [Next]_vars => StopsExplained'
<1> SUFFICES ASSUME IInv, Mapped, StopsExplained, [Next]_vars PROVE StopsExplained'
  OBVIOUS
<1>1. ASSUME UNCHANGED <<heap, heap_cur, present, pc, loc, released>>
      PROVE  /\ released' = released /\ (ManyRuns' <=> ManyRuns)
             /\ \A t \in Threads : /\ Overgrows(t)' <=> Overgrows(t)
                                   /\ Overwrites(t)' <=> Overwrites(t)
                                   /\ loc[t]' = loc[t]
  BY <1>1 DEF Overgrows, Overwrites, OverKernel, Grows, Exhausted, InTable, NewPages, Usable,
     Pages, Page, Bytes, ManyRuns
<1>2. CASE UNCHANGED vars
  BY <1>1, <1>2 DEF vars, heap, StopsExplained
<1>3. ASSUME NEW t \in Threads, Stop(t)
      PROVE  StopsExplained'
  <2>1. ~Goes(t) /\ UNCHANGED <<heap, heap_cur, present, pc, loc, released>>
    BY <1>3 DEF Stop
  <2>2. \/ released # {} /\ ManyRuns
        \/ Overgrows(t) \/ (loc[t].ptr = NULL /\ Overwrites(t))
    BY <2>1, AllGo DEF Mapped
  <2> QED
    BY <1>1, <2>1, <2>2 DEF StopsExplained
<1>4. ASSUME NEW t \in Threads,
             \/ CallMalloc(t) \/ CallCalloc(t) \/ CallFree(t) \/ CallRealloc(t)
             \/ Step(t)
      PROVE  StopsExplained'
  BY <1>4, OthersGoOn DEF StopsExplained
<1> QED
  BY <1>2, <1>3, <1>4 DEF Next

(* Where the heap's code stops the system, a run of pages has gone back from a heap of
   more than MAXCOMPLETE, or malloc is asking for pages past page table 0, or realloc or
   calloc goes on with the NULL malloc has given it and writes as far as the kernel.
   Every header that is read or written and every byte that is copied or cleared is
   otherwise on a page that is present, and in the block it should be in. *)
THEOREM StopsAreExplained == Spec => []StopsExplained
<1>1. Init => Mapped /\ StopsExplained
  BY HeapAssumption DEF Init, Mapped, Table, StopsExplained
<1> QED
  BY <1>1, Invariant, MappedNext, StopsNext, PTL DEF Spec

-----------------------------------------------------------------------------
(* What malloc refuses. *)

(* malloc asks for the least run of pages, or for less than a page too much. *)
LEMMA BytesBound ==
    ASSUME NEW size \in Nat
    PROVE  Bytes(size) = RunBytes \/ Bytes(size) < size + TagSize + PageSize
<1> DEFINE s == size + TagSize
           q == s \div PageSize
           r == s % PageSize
           g == q + (IF r # 0 THEN 1 ELSE 0)
<1>1. s \in Nat /\ PageSize \in Nat \ {0} /\ PageCount \in Nat
  BY SizeAssumption
<1>2. q \in Nat /\ r \in 0 .. PageSize - 1 /\ s = PageSize * q + r
  BY <1>1
<1>3. Bytes(size) = (IF g < PageCount THEN PageCount ELSE g) * PageSize
  BY DEF Bytes, PagesFor
<1> HIDE DEF q, r, s
<1>4. g * PageSize < s + PageSize
  <2>1. CASE r = 0
    BY <2>1, <1>1, <1>2
  <2>2. CASE r # 0
    <3>1. g * PageSize = q * PageSize + PageSize
      BY <2>2, <1>1, <1>2
    <3>2. r > 0
      BY <2>2, <1>2
    <3> QED
      BY <3>1, <3>2, <1>1, <1>2
  <2> QED
    BY <2>1, <2>2
<1> HIDE DEF g
<1> QED
  BY <1>3, <1>4 DEF s, RunBytes

(* It gets as far as the end of page table 0 at most, and HEAP_SIZE more than that table
   maps from heap_start on: what it refuses is longer than what lies below the kernel. *)
LEMMA RefusedIsLong ==
    ASSUME IInv, Mapped, NEW n \in Nat, Exhausted(n)
    PROVE  n > KernelStart
<1>1. /\ heap_cur \in Nat /\ HeapStart \in Nat /\ HeapStart <= heap_cur
      /\ TableEnd \in Nat /\ KernelStart \in Nat
      /\ TagSize \in Nat /\ PageSize \in Nat
  BY SizeAssumption, HeapAssumption, LayoutAssumption DEF IInv, HeapInv, Sound, Addr
<1>2. heap_cur < TableEnd
  <2>1. CASE heap_cur = HeapStart
    BY <2>1, LayoutAssumption
  <2>2. CASE heap_cur # HeapStart
    BY <2>2, <1>1, StartMapped DEF Mapped
  <2> QED
    BY <2>1, <2>2
<1>3. heap_cur + Bytes(n) >= HeapStart + TableEnd
  BY LayoutAssumption DEF Exhausted
<1>4. Bytes(n) \in Nat /\ Bytes(n) > HeapStart
  BY <1>1, <1>2, <1>3, BytesEnough
<1>5. Bytes(n) # RunBytes
  BY <1>1, <1>4, RunBytesType, LayoutAssumption DEF RunBytes
<1>6. Bytes(n) < n + TagSize + PageSize
  BY <1>5, BytesBound
<1>7. KernelStart + PageSize + TagSize <= HeapStart
  BY LayoutAssumption
<1> QED
  BY <1>1, <1>4, <1>6, <1>7

(* A calloc that goes on without memory has asked for that much. *)
Refused == \A t \in Threads : pc[t] = "fill" /\ loc[t].ptr = NULL => loc[t].size > KernelStart

LEMMA RefusedNext == IInv /\ Mapped /\ Refused /\ [Next]_vars => Refused'
<1> SUFFICES ASSUME IInv, Mapped, Refused, [Next]_vars PROVE Refused'
  OBVIOUS
<1>1. pc \in [Threads -> {"idle"} \cup Waiting \cup Locked \cup Filling]
      /\ loc \in [Threads -> Locals]
  BY DEF IInv, TypeInv
<1>2. ASSUME pc' = pc, loc' = loc
      PROVE  Refused'
  BY <1>2 DEF Refused
<1>3. ASSUME NEW t \in Threads, NEW l, NEW to, to # "fill",
             pc' = [pc EXCEPT ![t] = to], loc' = [loc EXCEPT ![t] = l]
      PROVE  Refused'
  BY <1>1, <1>3 DEF Refused
<1>4. ASSUME NEW t \in Threads, NEW p, p \in Ptr, Hand(t, p),
             p = NULL => loc[t].size > KernelStart
      PROVE  Refused'
  <2> SUFFICES ASSUME NEW u \in Threads, pc'[u] = "fill", loc'[u].ptr = NULL
               PROVE  loc'[u].size > KernelStart
    BY DEF Refused
  <2>1. CASE u # t
    BY <2>1, <1>1, <1>4 DEF Hand, Refused
  <2>2. CASE u = t
    <3>1. loc[t].op # "malloc" /\ loc' = [loc EXCEPT ![t].tag = NULL, ![t].ptr = p]
      BY <2>2, <1>1, <1>4 DEF Hand
    <3>2. loc'[t].ptr = p /\ loc'[t].size = loc[t].size
      BY <3>1, <1>1 DEF Locals
    <3> QED
      BY <2>2, <3>2, <1>4
  <2> QED
    BY <2>1, <2>2
<1>5. CASE UNCHANGED vars
  BY <1>2, <1>5 DEF vars
<1>6. ASSUME NEW t \in Threads,
             CallMalloc(t) \/ CallCalloc(t) \/ CallFree(t) \/ CallRealloc(t)
      PROVE  Refused'
  <2>1. \E to \in {"malloc", "free", "realloc"} : \E l : Call(t, to, l)
    BY <1>6 DEF CallMalloc, CallCalloc, CallFree, CallRealloc
  <2>2. PICK to \in {"malloc", "free", "realloc"} : \E l : Call(t, to, l)
    BY <2>1
  <2>3. PICK l : Call(t, to, l)
    BY <2>2
  <2>4. pc' = [pc EXCEPT ![t] = to] /\ loc' = [loc EXCEPT ![t] = l] /\ to # "fill"
    BY <2>3 DEF Call
  <2> QED
    BY <2>4, <1>3
<1>7. ASSUME NEW t \in Threads, MallocTake(t)
      PROVE  Refused'
  <2> DEFINE a == loc[t].tag
  <2>1. pc[t] = "search" /\ a # NULL /\ Hand(t, a + TagSize)
    BY <1>7 DEF MallocTake, At
  <2>2. a \in DOMAIN tag /\ HeapInv
    BY <2>1 DEF IInv, LocalInv, Local
  <2>3. /\ a \in Int /\ HeapStart <= a /\ a + TagSize <= heap_cur /\ heap_cur \in Addr
        /\ HeapStart \in Nat \ {0} /\ TagSize \in Nat /\ HeapEnd \in Nat
    BY <2>2, TagsInside, HeapAssumption, SizeAssumption DEF Inside, HeapInv, Sound
  <2> HIDE DEF a
  <2>4. a + TagSize \in Ptr /\ a + TagSize # NULL
    BY <2>3 DEF Ptr, Addr, NULL
  <2> QED
    BY <2>1, <2>4, <1>4
<1>8. ASSUME NEW t \in Threads, MallocGrow(t)
      PROVE  Refused'
  <2> SUFFICES ASSUME NEW u \in Threads, pc'[u] = "fill", loc'[u].ptr = NULL
               PROVE  loc'[u].size > KernelStart
    BY DEF Refused
  <2>1. Hand(t, heap_cur + TagSize)
    BY <1>8 DEF MallocGrow
  <2>2. heap_cur + TagSize # NULL
    BY HeapAssumption, SizeAssumption DEF NULL, IInv, HeapInv, Sound, Addr
  <2>3. CASE u # t
    BY <2>1, <2>3, <1>1 DEF Hand, Refused
  <2>4. CASE u = t
    BY <2>1, <2>2, <2>4, <1>1 DEF Hand, Locals
  <2> QED
    BY <2>3, <2>4
<1>9. ASSUME NEW t \in Threads, MallocFail(t)
      PROVE  Refused'
  <2>1. Hand(t, NULL) /\ Exhausted(loc[t].size) /\ loc[t].size \in Nat /\ NULL \in Ptr
    BY <1>1, <1>9 DEF MallocFail, Locals, Ptr
  <2> QED
    BY <2>1, <1>4, RefusedIsLong
<1>10. ASSUME NEW t \in Threads,
              \/ MallocStart(t) \/ MallocNext(t) \/ FreeStart(t) \/ MeltLeft(t)
              \/ MeltDone(t) \/ AbsorbRight(t) \/ FreePut(t) \/ FreeRelease(t)
              \/ ReallocRead(t) \/ Copy(t) \/ Fill(t) \/ Stop(t)
       PROVE  Refused'
  <2> SUFFICES ASSUME NEW u \in Threads, pc'[u] = "fill", loc'[u].ptr = NULL
               PROVE  pc[u] = "fill" /\ loc'[u] = loc[u]
    BY DEF Refused
  <2>1. CASE \/ MallocStart(t) \/ MallocNext(t) \/ FreeStart(t) \/ MeltLeft(t)
             \/ MeltDone(t) \/ AbsorbRight(t)
    BY <2>1, <1>1 DEF MallocStart, MallocNext, FreeStart, MeltLeft, MeltDone, AbsorbRight, At
  <2>2. CASE FreePut(t) \/ FreeRelease(t)
    BY <2>2, <1>1 DEF FreePut, FreeRelease, EndFree
  <2>3. CASE ReallocRead(t) \/ Copy(t) \/ Fill(t) \/ Stop(t)
    BY <2>3, <1>1 DEF ReallocRead, Copy, Fill, Stop
  <2> QED
    BY <1>10, <2>1, <2>2, <2>3
<1> QED
  BY <1>5, <1>6, <1>7, <1>8, <1>9, <1>10 DEF Next, Step

(* No caller sees calloc fail: without memory it goes on to clear as much as was asked
   for from address 0 on, and malloc refuses nothing that ends below the kernel. *)
THEOREM RefusedCallocsOverwrite == Spec => []CallocNeverFails
<1>1. Init => Mapped /\ Refused
  BY HeapAssumption DEF Init, Mapped, Table, Refused
<1>2. IInv /\ Refused => CallocNeverFails
  <2> SUFFICES ASSUME IInv, Refused, NEW t \in Threads, pc[t] = "fill", loc[t].ptr = NULL
               PROVE  Overwrites(t)
    BY DEF CallocNeverFails
  <2>1. loc[t].size \in Nat /\ loc[t].size > KernelStart
    BY DEF Refused, IInv, TypeInv, Locals
  <2>2. OverKernel(NULL, loc[t].size)
    BY <2>1, HeapAssumption, LayoutAssumption DEF OverKernel, NULL
  <2> QED
    BY <2>2 DEF Overwrites
<1> QED
  BY <1>1, <1>2, Invariant, MappedNext, RefusedNext, PTL DEF Spec
=============================================================================
