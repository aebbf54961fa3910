------------------------------ MODULE VmmProofs -----------------------------
(***************************************************************************)
(* Proofs about the memory managers, for every page size, bitmap, kernel   *)
(* and field that meet the assumptions of Pmm and Vmm.                     *)
(*                                                                         *)
(* The argument is about numbers: with placementaddr off a page boundary,  *)
(* the bit kfree_page_frame reckons for a frame is the one the frame was   *)
(* handed out for (FrameIndex), and for the field of a page table entry it *)
(* is none of the bitmap (FieldIndex).  The inductive invariant IInv says  *)
(* that placementaddr is so placed while frames come and go.               *)
(***************************************************************************)
EXTENDS Vmm, TLAPS

(***************************************************************************)
(* Division                                                                *)
(***************************************************************************)

(* A positive multiple of d is at least d. *)
LEMMA MultipleBound ==
  ASSUME NEW a \in Int, NEW d \in Nat \ {0}, a >= 1
  PROVE  a * d >= d
OBVIOUS

(* What the quotient and the remainder of the frame arithmetic are. *)
LEMMA DivMod ==
  ASSUME NEW x \in Int, NEW d \in Nat \ {0}
  PROVE  /\ x = d * (x \div d) + (x % d)
         /\ x \div d \in Int
         /\ x % d \in 0 .. d - 1
OBVIOUS

(* Quotient and remainder are the only numbers of their kind. *)
LEMMA DivUnique ==
  ASSUME NEW d \in Nat \ {0}, NEW q \in Int, NEW r \in 0 .. d - 1
  PROVE  (d * q + r) \div d = q /\ (d * q + r) % d = r
<1> DEFINE x == d * q + r
           k == x \div d
           m == x % d
<1>1. x \in Int
  OBVIOUS
<1>2. x = d * k + m /\ k \in Int /\ m \in 0 .. d - 1
  BY <1>1, DivMod
<1> HIDE DEF k, m
<1>3. d * (k - q) = r - m
  BY <1>2
<1>4. ~(k - q >= 1)
  BY <1>2, <1>3, MultipleBound, d * (k - q) = (k - q) * d
<1>5. ~(q - k >= 1)
  BY <1>2, <1>3, MultipleBound, d * (k - q) = -((q - k) * d)
<1>6. k = q
  BY <1>2, <1>4, <1>5
<1>7. m = r
  BY <1>2, <1>3, <1>6
<1> QED
  BY <1>6, <1>7 DEF k, m

(* A number of at least n * d has a quotient of at least n. *)
LEMMA DivBound ==
  ASSUME NEW d \in Nat \ {0}, NEW n \in Nat, NEW x \in Int, x >= n * d
  PROVE  x \div d >= n
<1> DEFINE k == x \div d
<1>1. x = d * k + (x % d) /\ k \in Int /\ x % d \in 0 .. d - 1
  BY DivMod
<1> HIDE DEF k
<1>2. SUFFICES ASSUME k < n PROVE FALSE
  BY <1>1 DEF k
<1>3. (n - k) * d >= d
  BY <1>1, <1>2, MultipleBound
<1>4. n * d = d * k + (n - k) * d
  BY <1>1
<1> QED
  BY <1>1, <1>3, <1>4

(* The quotient of a natural number is one. *)
LEMMA DivNat ==
  ASSUME NEW d \in Nat \ {0}, NEW x \in Nat
  PROVE  x \div d \in Nat
<1>1. 0 \in Nat /\ x \in Int /\ x >= 0 * d
  OBVIOUS
<1>2. x \div d >= 0
  BY <1>1, DivBound
<1> QED
  BY <1>2, DivMod

(* Down goes back to the start of the page, BLOCK_ALIGN on to the next page. *)
LEMMA Alignment ==
  ASSUME NEW a \in Nat
  PROVE  /\ Down(a) \in Nat /\ BLOCK_ALIGN(a) \in Nat
         /\ Down(a) <= a /\ a < BLOCK_ALIGN(a) /\ BLOCK_ALIGN(a) <= a + PageSize
         /\ Down(a) = PageSize * (a \div PageSize)
         /\ Down(a) % PageSize = 0 /\ BLOCK_ALIGN(a) % PageSize = 0
<1> DEFINE q == a \div PageSize
           r == a % PageSize
<1>1. a = PageSize * q + r /\ q \in Int /\ r \in 0 .. PageSize - 1 /\ PageSize \in Nat \ {0}
  BY DivMod, PmmAssumption
<1>2. Down(a) = PageSize * q
  BY <1>1 DEF Down
<1>3. q >= 0
  BY <1>1, DivNat
<1>4. Down(a) \in Nat
  BY <1>1, <1>2, <1>3
<1>5. Down(a) % PageSize = 0
  <2>1. (PageSize * q + 0) % PageSize = 0
    BY <1>1, DivUnique, 0 \in 0 .. PageSize - 1
  <2> QED
    BY <2>1, <1>1, <1>2
<1>6. BLOCK_ALIGN(a) % PageSize = 0
  <2>1. (PageSize * (q + 1) + 0) % PageSize = 0
    BY <1>1, DivUnique, 0 \in 0 .. PageSize - 1, q + 1 \in Int
  <2>2. BLOCK_ALIGN(a) = PageSize * (q + 1) + 0
    BY <1>1, <1>2 DEF BLOCK_ALIGN
  <2> QED
    BY <2>1, <2>2
<1> QED
  BY <1>1, <1>2, <1>4, <1>5, <1>6 DEF BLOCK_ALIGN, Down

(***************************************************************************)
(* Frames and bits                                                         *)
(***************************************************************************)

(* placementaddr as paging_init leaves it: in a page, past the start of the kernel,
   with the frames of the bitmap within the address space. *)
Positioned ==
    /\ placementaddr \in Nat
    /\ placementaddr % PageSize # 0
    /\ FieldSize <= placementaddr
    /\ placementaddr + (BitmapBits + 1) * PageSize <= AddrSize

(* The bits the frames in s were handed out for. *)
Bits(s) == {i \in Indices : FrameOf(i) \in s}

(* kfree_page_frame clears the bit kalloc_page_frame set, and a frame is an address
   the 32 bits hold. *)
LEMMA FrameIndex ==
  ASSUME Positioned, NEW i \in Indices
  PROVE  /\ FrameOf(i) \in 0 .. AddrSize - 1
         /\ IndexOf(FrameOf(i)) = i
<1> DEFINE P == placementaddr
           q == P \div PageSize
           r == P % PageSize
<1>1. PageSize \in Nat \ {0} /\ AddrSize \in Nat /\ BitmapBits \in Nat \ {0}
  BY PmmAssumption
<1>2. P \in Nat /\ P = PageSize * q + r /\ q \in Int /\ r \in 0 .. PageSize - 1 /\ r # 0
  BY <1>1, DivMod DEF Positioned
<1>3. i \in 0 .. BitmapBits - 1 /\ i * PageSize \in Nat
  BY <1>1 DEF Indices
<1>4. P + i * PageSize = PageSize * (q + i) + r
  BY <1>1, <1>2, <1>3
<1>5. FrameOf(i) = P - r + i * PageSize + PageSize
  <2>1. (P + i * PageSize) % PageSize = r
    BY <1>1, <1>2, <1>3, <1>4, DivUnique, q + i \in Int
  <2> QED
    BY <2>1, <1>1, <1>2, <1>3 DEF FrameOf, BLOCK_ALIGN, Down
<1>6. (i + 1) * PageSize <= BitmapBits * PageSize
  <2>1. CASE i + 1 = BitmapBits
    BY <2>1, <1>1, <1>3
  <2>2. CASE i + 1 < BitmapBits
    <3>1. (BitmapBits - (i + 1)) * PageSize >= PageSize
      BY <2>2, <1>1, <1>3, MultipleBound
    <3> QED
      BY <3>1, <1>1, <1>3
  <2> QED
    BY <2>1, <2>2, <1>1, <1>3
<1>7. (i + 1) * PageSize = i * PageSize + PageSize
      /\ (BitmapBits + 1) * PageSize = BitmapBits * PageSize + PageSize
  BY <1>1, <1>3
<1>8. FrameOf(i) \in 0 .. AddrSize - 1
  BY <1>1, <1>2, <1>3, <1>5, <1>6, <1>7 DEF Positioned
<1> HIDE DEF P, q, r
<1>9. FrameOf(i) - P = PageSize * i + (PageSize - r)
  BY <1>1, <1>2, <1>3, <1>5, i * PageSize = PageSize * i
<1>10. FrameOf(i) - P \in 0 .. AddrSize - 1
  BY <1>1, <1>2, <1>3, <1>8, <1>9
<1>11. (FrameOf(i) - P) % AddrSize = FrameOf(i) - P
  <2> DEFINE y == FrameOf(i) - P
  <2>1. y \in 0 .. AddrSize - 1 /\ AddrSize \in Nat \ {0}
    BY <1>1, <1>10
  <2> HIDE DEF y
  <2>2. (AddrSize * 0 + y) % AddrSize = y
    BY <2>1, DivUnique
  <2>3. AddrSize * 0 + y = y
    BY <2>1
  <2> QED
    BY <2>2, <2>3 DEF y
<1>12. (FrameOf(i) - P) \div PageSize = i
  <2>1. PageSize - r \in 0 .. PageSize - 1 /\ i \in Int
    BY <1>1, <1>2, <1>3
  <2>2. (PageSize * i + (PageSize - r)) \div PageSize = i
    BY <2>1, <1>1, DivUnique
  <2> QED
    BY <2>2, <1>9
<1> QED
  BY <1>8, <1>11, <1>12 DEF IndexOf, P

(* What free_page hands to kfree_page_frame is the address of no frame of the
   bitmap: reckoned from placementaddr, it wraps. *)
LEMMA FieldIndex ==
  ASSUME Positioned, NEW f \in 0 .. FieldSize - 1
  PROVE  IndexOf(f) \notin Indices
<1> DEFINE x == AddrSize + f - placementaddr
<1>1. PageSize \in Nat \ {0} /\ AddrSize \in Nat /\ BitmapBits \in Nat \ {0}
      /\ FieldSize \in Nat
  BY PmmAssumption, VmmAssumption
<1>2. placementaddr \in Nat /\ f < placementaddr
  BY <1>1 DEF Positioned
<1>3. (BitmapBits + 1) * PageSize = BitmapBits * PageSize + PageSize
      /\ BitmapBits * PageSize \in Nat
  BY <1>1
<1>4. x >= BitmapBits * PageSize /\ x \in 0 .. AddrSize - 1
  BY <1>1, <1>2, <1>3 DEF Positioned
<1>5. f - placementaddr = AddrSize * (-1) + x
  BY <1>1, <1>2
<1> HIDE DEF x
<1>6. (f - placementaddr) % AddrSize = x
  <2>1. AddrSize \in Nat \ {0}
    BY <1>1, <1>4
  <2>2. (AddrSize * (-1) + x) % AddrSize = x
    BY <2>1, <1>4, DivUnique, -1 \in Int
  <2> QED
    BY <2>2, <1>5
<1>7. x \div PageSize >= BitmapBits
  BY <1>1, <1>4, DivBound
<1> QED
  BY <1>1, <1>6, <1>7 DEF IndexOf, Indices

(* Handing out the frame of a clear bit sets that bit and no other. *)
LEMMA BitsOfMore ==
  ASSUME Positioned, NEW i \in Indices, NEW s
  PROVE  Bits(s \cup {FrameOf(i)}) = Bits(s) \cup {i}
BY FrameIndex DEF Bits

(* Taking a frame back clears its bit and no other. *)
LEMMA BitsOfLess ==
  ASSUME Positioned, NEW i \in Indices, NEW s
  PROVE  Bits(s \ {FrameOf(i)}) = Bits(s) \ {i}
BY FrameIndex DEF Bits

(***************************************************************************)
(* Placing                                                                 *)
(***************************************************************************)

(* dumballoc moves to a page boundary, less than a page on. *)
LEMMA Placing ==
  ASSUME NEW a \in Nat
  PROVE  /\ dumballoc(a) \in Nat /\ dumballoc(a) % PageSize = 0
         /\ a <= dumballoc(a) /\ dumballoc(a) <= a + PageSize
<1>1. PageSize \in Nat \ {0}
  BY PmmAssumption
<1>2. CASE a % PageSize = 0
  BY <1>1, <1>2 DEF dumballoc
<1>3. CASE a % PageSize # 0
  <2>1. dumballoc(a) = BLOCK_ALIGN(a)
    BY <1>3 DEF dumballoc
  <2> QED
    BY <1>1, <2>1, Alignment
<1> QED
  BY <1>2, <1>3

(* Where pmm_init may leave placementaddr. *)
Starts == {BLOCK_ALIGN(KernelEnd), BLOCK_ALIGN(KernelEnd) + 1}

(* After paging_init placementaddr is where the frame arithmetic needs it: the
   frame array ends within a page. *)
LEMMA PagingPositions ==
  ASSUME NEW a \in Starts
  PROVE  LET dir    == dumballoc(a)
             table  == dumballoc(dir + DirSize)
             frames == dumballoc(table + TableSize)
             end    == frames + FramesSize
         IN  /\ dir \in Nat /\ table \in Nat /\ frames \in Nat /\ end \in Nat
             /\ end % PageSize # 0
             /\ FieldSize <= end
             /\ end + (BitmapBits + 1) * PageSize <= AddrSize
<1> DEFINE dir    == dumballoc(a)
           table  == dumballoc(dir + DirSize)
           frames == dumballoc(table + TableSize)
           end    == frames + FramesSize
<1>1. /\ PageSize \in Nat \ {0} /\ BitmapBits \in Nat \ {0} /\ AddrSize \in Nat
      /\ KernelEnd \in Nat /\ FieldSize \in Nat /\ FieldSize <= KernelEnd
      /\ DirSize \in Nat /\ TableSize \in Nat /\ FramesSize \in Nat
  BY PmmAssumption, VmmAssumption
<1>2. a \in Nat /\ KernelEnd <= a /\ a <= KernelEnd + PageSize + 1
  <2>1. /\ BLOCK_ALIGN(KernelEnd) \in Nat /\ KernelEnd < BLOCK_ALIGN(KernelEnd)
        /\ BLOCK_ALIGN(KernelEnd) <= KernelEnd + PageSize
    BY <1>1, Alignment
  <2> QED
    BY <1>1, <2>1 DEF Starts
<1>3. dir \in Nat /\ a <= dir /\ dir <= a + PageSize
  BY <1>2, Placing
<1> HIDE DEF dir
<1>4. table \in Nat /\ dir + DirSize <= table /\ table <= dir + DirSize + PageSize
  BY <1>1, <1>3, Placing, dir + DirSize \in Nat
<1> HIDE DEF table
<1>5. /\ frames \in Nat /\ frames % PageSize = 0
      /\ table + TableSize <= frames /\ frames <= table + TableSize + PageSize
  BY <1>1, <1>4, Placing, table + TableSize \in Nat
<1> HIDE DEF frames
<1>6. end % PageSize # 0
  <2> DEFINE k == frames \div PageSize
             m == FramesSize \div PageSize
             r == FramesSize % PageSize
  <2>1. frames = PageSize * k + 0 /\ k \in Int
    BY <1>1, <1>5, DivMod
  <2>2. FramesSize = PageSize * m + r /\ m \in Int /\ r \in 0 .. PageSize - 1
    BY <1>1, DivMod
  <2>3. r # 0
    BY UnalignedAssumption
  <2> HIDE DEF k, m, r
  <2>4. end = PageSize * (k + m) + r
    BY <1>1, <2>1, <2>2
  <2>5. (PageSize * (k + m) + r) % PageSize = r
    BY <1>1, <2>1, <2>2, DivUnique, k + m \in Int
  <2> QED
    BY <2>3, <2>4, <2>5
<1>7. /\ (BitmapBits + 6) * PageSize = BitmapBits * PageSize + 6 * PageSize
      /\ (BitmapBits + 1) * PageSize = BitmapBits * PageSize + PageSize
      /\ BitmapBits * PageSize \in Nat
  BY <1>1
<1>8. end + (BitmapBits + 1) * PageSize <= AddrSize
  BY <1>1, <1>2, <1>3, <1>4, <1>5, <1>7, VmmAssumption
<1>9. end \in Nat /\ FieldSize <= end
  BY <1>1, <1>2, <1>3, <1>4, <1>5
<1> QED
  BY <1>3, <1>4, <1>5, <1>6, <1>8, <1>9 DEF dir, table, frames

(***************************************************************************)
(* The inductive invariant                                                 *)
(***************************************************************************)

(* Before paging_init nothing is out, and pmm_init has reserved its bits. *)
BootInv ==
    /\ phase \in {"reset", "pmm"} => held = {} /\ given = {}
    /\ phase = "pmm" => placementaddr \in Starts /\ bitmap = Reserved

(* Afterwards placementaddr stays where it is, no frame is both a caller's and a
   page's, and the bitmap says which are out. *)
FrameInv ==
    phase \in {"running", "overrun"} =>
        /\ Positioned
        /\ held \cap given = {}
        /\ bitmap = Reserved \cup Bits(Out)
        /\ \A f \in Out : \E i \in Indices \ Reserved : f = FrameOf(i)

IInv == TypeOK /\ BootInv /\ FrameInv

LEMMA BitsTruthfulFromIInv == IInv => BitsTruthful
BY DEF IInv, FrameInv, BitsTruthful, Bits

LEMMA InitIInv == Init => IInv
<1> SUFFICES ASSUME Init PROVE IInv
  OBVIOUS
<1>1. Entries \in Nat \ {0} /\ FieldSize \in Nat \ {0}
  BY VmmAssumption
<1>2. [present |-> 0, frame |-> 0] \in Entry
  BY <1>1 DEF Entry
<1>3. TypeOK
  BY <1>1, <1>2 DEF Init, PmmStart, TypeOK, NULL, Idle
<1>4. BootInv /\ FrameInv
  BY DEF Init, PmmStart, BootInv, FrameInv
<1> QED
  BY <1>3, <1>4 DEF IInv

(* What is reckoned from placementaddr stays as it is while placementaddr does. *)
LEMMA FramesStay ==
  ASSUME placementaddr' = placementaddr
  PROVE  /\ Positioned => Positioned'
         /\ \A i : FrameOf(i)' = FrameOf(i)
BY DEF Positioned, FrameOf, BLOCK_ALIGN, Down

(* The facts the steps share: the slot a region call is at, what a field keeps. *)
LEMMA Slots ==
  ASSUME TypeOK
  PROVE  /\ Slot \in Numbers
         /\ pages[Slot] \in Entry
         /\ \A x \in Int : Field(x) \in 0 .. FieldSize - 1
<1>1. Entries \in Nat \ {0} /\ FieldSize \in Nat \ {0} /\ PageSize \in Nat \ {0}
  BY VmmAssumption, PmmAssumption
<1>2. region.next \in Nat
  BY DEF TypeOK
<1>3. region.next \div PageSize \in Int
  BY <1>1, <1>2, DivMod
<1>4. Slot \in Numbers
  BY <1>1, <1>3, DivMod DEF Slot, PAGETBL_INDEX, Numbers
<1>5. \A x \in Int : Field(x) \in 0 .. FieldSize - 1
  BY <1>1, DivMod DEF Field
<1> QED
  BY <1>4, <1>5 DEF TypeOK

(* A frame's address is a number, whatever placementaddr is. *)
LEMMA FrameType ==
  ASSUME TypeOK, NEW i \in Indices
  PROVE  FrameOf(i) \in Nat
<1>1. placementaddr + i * PageSize \in Nat
  BY PmmAssumption DEF TypeOK, Indices
<1> QED
  BY <1>1, Alignment DEF FrameOf

(* Every step keeps the types. *)
LEMMA TypeStep ==
  ASSUME TypeOK, BootInv, [Next]_vars
  PROVE  TypeOK'
<1> USE DEF TypeOK
<1>1. /\ Entries \in Nat \ {0} /\ FieldSize \in Nat \ {0} /\ PageSize \in Nat \ {0}
      /\ KernelEnd \in Nat /\ DirSize \in Nat /\ TableSize \in Nat /\ FramesSize \in Nat
      /\ Ranges \subseteq Nat \X Nat
  BY VmmAssumption, PmmAssumption
<1>2. CASE UNCHANGED vars
  BY <1>2 DEF vars, pmmVars, dirVars
<1>3. CASE PmmInit
  <2>1. BLOCK_ALIGN(KernelEnd) \in Nat
    BY <1>1, Alignment
  <2>2. bitmap' \subseteq Indices /\ placementaddr' \in Nat
    BY <1>3, <2>1 DEF PmmInit, pmm_init, Marked
  <2> QED
    BY <1>3, <2>2 DEF PmmInit, pmm_init, dirVars
<1>4. CASE paging_init
  <2> DEFINE dir    == dumballoc(placementaddr)
             table  == dumballoc(dir + DirSize)
             frames == dumballoc(table + TableSize)
  <2>1. dir \in Nat /\ table \in Nat /\ frames \in Nat
    <3>1. placementaddr \in Starts
      BY <1>4 DEF paging_init, BootInv
    <3> QED
      BY <3>1, PagingPositions
  <2>2. /\ placementaddr' = frames + FramesSize
        /\ placed' = {<<dir, DirSize>>, <<table, TableSize>>, <<frames, FramesSize>>}
        /\ kernel_dir' = dir
        /\ tables' = [tables EXCEPT ![0] = table]
        /\ physical' = [physical EXCEPT ![0] =
                           [present |-> 1, frame |-> table \div PageSize]]
        /\ cr3' = dir + DirSize \div 2
    BY <1>4 DEF paging_init
  <2>3. pages' = [p \in Numbers |-> [present |-> 1, frame |-> Field(p)]]
    BY <1>4 DEF paging_init
  <2>4. /\ heap_start' = placementaddr' /\ phase' = "running"
        /\ UNCHANGED <<bitmap, held, count, region, given>>
    BY <1>4 DEF paging_init
  <2> HIDE DEF dir, table, frames
  <2>5. table \div PageSize \in Nat /\ DirSize \div 2 \in Nat
    BY <1>1, <2>1, DivNat, 2 \in Nat \ {0}
  <2>6. pages' \in [Numbers -> Entry]
    <3>1. \A p \in Numbers : Field(p) \in 0 .. FieldSize - 1
      <4>1. \A p \in Numbers : p \in Int
        BY <1>1 DEF Numbers
      <4>2. \A x \in Int : Field(x) \in 0 .. FieldSize - 1
        BY Slots
      <4> QED
        BY <4>1, <4>2
    <3> QED
      BY <2>3, <3>1 DEF Entry
  <2>7. physical' \in [Numbers -> [present : {0, 1}, frame : Nat]]
    BY <2>2, <2>5
  <2> QED
    BY <1>1, <2>1, <2>2, <2>4, <2>5, <2>6, <2>7
<1>5. CASE Kalloc
  <2>1. PICK i \in Indices : kalloc_page_frame(i)
    BY <1>5 DEF Kalloc
  <2>2. FrameOf(i) \in Nat
    BY FrameType
  <2>3. bitmap' \subseteq Indices /\ held' \subseteq Nat /\ count' \in Int
    <3>1. bitmap' = bitmap \cup {i} /\ held' = held \cup {FrameOf(i)} /\ count' = count + 1
      BY <2>1 DEF kalloc_page_frame, SETBIT
    <3>2. bitmap' \subseteq Indices
      BY <3>1
    <3>3. held' \subseteq Nat
      BY <2>2, <3>1
    <3>4. count' \in Int
      BY <3>1
    <3> QED
      BY <3>2, <3>3, <3>4
  <2> QED
    BY <1>5, <2>1, <2>3 DEF Kalloc, kalloc_page_frame, dirVars
<1>6. CASE Kfree
  BY <1>6 DEF Kfree, kfree_page_frame, CLEARBIT, dirVars
<1>7. CASE Overrun
  BY <1>7 DEF Overrun, pmmVars, dirVars
<1>8. ASSUME NEW op \in {"allocate", "free"}, RegionCall(op)
      PROVE  TypeOK'
  <2>1. PICK r \in Ranges :
           region' = [op |-> op, from |-> heap_start + r[1],
                      next |-> Down(heap_start + r[1]), to |-> Down(heap_start + r[2])]
    BY <1>8 DEF RegionCall
  <2>2. heap_start + r[1] \in Nat /\ heap_start + r[2] \in Nat
    BY <1>1
  <2>3. Down(heap_start + r[1]) \in Nat /\ Down(heap_start + r[2]) \in Nat
    BY <2>2, Alignment
  <2> QED
    BY <1>8, <2>1, <2>2, <2>3 DEF RegionCall, pmmVars, dirVars
<1>9. ASSUME Advance
      PROVE  region' \in [op : {"none", "allocate", "free"}, from : Nat, next : Nat, to : Nat]
  BY <1>1, <1>9 DEF Advance
<1>10. CASE AllocatePresent
  BY <1>9, <1>10 DEF AllocatePresent, pmmVars, dirVars
<1>11. CASE AllocateFrame
  <2>1. PICK i \in Indices :
           /\ SETBIT(i)
           /\ pages' = [pages EXCEPT ![Slot] =
                            [present |-> 1, frame |-> Field(FrameOf(i))]]
           /\ given' = given \cup {FrameOf(i)} /\ count' = count + 1
    BY <1>11 DEF AllocateFrame
  <2>2. FrameOf(i) \in Nat
    BY FrameType
  <2>3. [present |-> 1, frame |-> Field(FrameOf(i))] \in Entry
    BY <2>2, Slots DEF Entry
  <2>4. bitmap' \subseteq Indices /\ given' \subseteq Nat /\ count' \in Int
    <3>1. bitmap' = bitmap \cup {i} /\ given' = given \cup {FrameOf(i)} /\ count' = count + 1
      BY <2>1 DEF SETBIT
    <3>2. bitmap' \subseteq Indices
      BY <3>1
    <3>3. given' \subseteq Nat
      BY <2>2, <3>1
    <3>4. count' \in Int
      BY <3>1
    <3> QED
      BY <3>2, <3>3, <3>4
  <2>5. pages' \in [Numbers -> Entry]
    BY <2>1, <2>3
  <2> QED
    BY <1>9, <1>11, <2>4, <2>5 DEF AllocateFrame, dirVars
<1>12. CASE AllocateTable
  <2>1. dumballoc(placementaddr) \in Nat
    BY Placing
  <2> QED
    BY <1>1, <1>12, <2>1 DEF AllocateTable, dirVars
<1>13. CASE FreeNothing
  BY <1>9, <1>13 DEF FreeNothing, pmmVars, dirVars
<1>14. CASE FreeFrame
  <2>1. pages' \in [Numbers -> Entry]
    BY <1>14, Slots DEF FreeFrame, Entry
  <2> QED
    BY <1>9, <1>14, <2>1 DEF FreeFrame, CLEARBIT, dirVars
<1>15. CASE RegionDone
  BY <1>15 DEF RegionDone, Idle, pmmVars, dirVars
<1> QED
  BY <1>2, <1>3, <1>4, <1>5, <1>6, <1>7, <1>8, <1>10, <1>11, <1>12, <1>13, <1>14, <1>15
     DEF Next, allocate_region, free_region

(* A frame handed out anew keeps the bitmap truthful, whoever gets it. *)
LEMMA TakeFrame ==
  ASSUME IInv, phase = "running", NEW i, FirstClear(i)
  PROVE  /\ FrameOf(i) \notin Out
         /\ FrameOf(i) \in 0 .. AddrSize - 1
         /\ i \in Indices \ Reserved
         /\ bitmap \cup {i} = Reserved \cup Bits(Out \cup {FrameOf(i)})
<1>1. Positioned /\ bitmap = Reserved \cup Bits(Out)
  BY DEF IInv, FrameInv
<1>2. i \in Indices /\ i \notin bitmap
  BY DEF FirstClear
<1>3. FrameOf(i) \notin Out
  BY <1>1, <1>2 DEF Bits
<1>4. bitmap \cup {i} = Reserved \cup Bits(Out \cup {FrameOf(i)})
  BY <1>1, <1>2, BitsOfMore
<1> QED
  BY <1>1, <1>2, <1>3, <1>4, FrameIndex

(* So does a frame a caller gives back. *)
LEMMA GiveFrame ==
  ASSUME IInv, phase = "running", NEW f \in held
  PROVE  /\ f \in 0 .. AddrSize - 1
         /\ bitmap \ {IndexOf(f)} = Reserved \cup Bits(Out \ {f})
         /\ (held \ {f}) \cup given = Out \ {f}
<1>1. /\ Positioned /\ held \cap given = {} /\ bitmap = Reserved \cup Bits(Out)
      /\ f \in Out
  BY DEF IInv, FrameInv, Out
<1>2. PICK i \in Indices \ Reserved : f = FrameOf(i)
  BY <1>1 DEF IInv, FrameInv
<1>3. IndexOf(f) = i /\ f \in 0 .. AddrSize - 1
  BY <1>1, <1>2, FrameIndex
<1>4. Bits(Out \ {f}) = Bits(Out) \ {i}
  BY <1>1, <1>2, BitsOfLess
<1>5. (held \ {f}) \cup given = Out \ {f}
  BY <1>1 DEF Out
<1> QED
  BY <1>1, <1>2, <1>3, <1>4, <1>5

(* Every step keeps the bitmap truthful. *)
LEMMA FrameStep ==
  ASSUME IInv, [Next]_vars
  PROVE  BootInv' /\ FrameInv'
<1>1. ASSUME UNCHANGED <<pmmVars, given>>, phase' = phase
      PROVE  BootInv' /\ FrameInv'
  <2>1. UNCHANGED <<bitmap, placementaddr, held, given>>
    BY <1>1 DEF pmmVars
  <2> QED
    BY <1>1, <2>1, FramesStay DEF IInv, BootInv, FrameInv, Bits, Out
<1>2. CASE UNCHANGED vars
  BY <1>1, <1>2 DEF vars
<1>3. CASE PmmInit
  <2>1. held' = {} /\ given' = {} /\ phase' = "pmm"
    BY <1>3 DEF PmmInit, pmm_init, IInv, BootInv
  <2>2. placementaddr' \in Starts /\ bitmap' = Reserved
    <3>1. BLOCK_ALIGN(KernelEnd) \in Nat
      BY Alignment, PmmAssumption
    <3>2. \A i \in Indices : i \in Int
      BY PmmAssumption DEF Indices
    <3> QED
      BY <1>3, <3>1, <3>2 DEF PmmInit, pmm_init, Marked, Reserved, Starts
  <2> QED
    BY <2>1, <2>2 DEF BootInv, FrameInv
<1>4. CASE paging_init
  <2>1. placementaddr \in Starts /\ bitmap = Reserved /\ held = {} /\ given = {}
    BY <1>4 DEF paging_init, IInv, BootInv
  <2>2. UNCHANGED <<bitmap, held, given>> /\ phase' = "running"
    BY <1>4 DEF paging_init
  <2>3. Positioned'
    BY <1>4, <2>1, PagingPositions DEF paging_init, Positioned
  <2> QED
    BY <2>1, <2>2, <2>3 DEF BootInv, FrameInv, Bits, Out
<1>5. CASE Kalloc
  <2>1. PICK i \in Indices : kalloc_page_frame(i)
    BY <1>5 DEF Kalloc
  <2>2. /\ phase = "running" /\ phase' = "running" /\ given' = given
        /\ placementaddr' = placementaddr /\ FirstClear(i)
        /\ bitmap' = bitmap \cup {i} /\ held' = held \cup {FrameOf(i)}
    BY <1>5, <2>1 DEF Kalloc, kalloc_page_frame, SETBIT
  <2> QED
    BY <2>2, TakeFrame, FramesStay DEF IInv, BootInv, FrameInv, Bits, Out
<1>6. CASE Kfree
  <2>1. PICK f \in held : kfree_page_frame(f)
    BY <1>6 DEF Kfree
  <2>2. /\ phase = "running" /\ phase' = "running" /\ given' = given
        /\ placementaddr' = placementaddr
        /\ bitmap' = bitmap \ {IndexOf(f)} /\ held' = held \ {f}
    BY <1>6, <2>1 DEF Kfree, kfree_page_frame, CLEARBIT
  <2> QED
    BY <2>2, GiveFrame, FramesStay DEF IInv, BootInv, FrameInv, Bits, Out
<1>7. CASE Overrun
  <2>1. UNCHANGED <<bitmap, placementaddr, held, given>> /\ phase = "running"
    BY <1>7 DEF Overrun, pmmVars
  <2>2. phase' = "overrun"
    BY <1>7 DEF Overrun
  <2> QED
    BY <2>1, <2>2, FramesStay DEF IInv, BootInv, FrameInv, Bits, Out
<1>8. CASE allocate_region \/ free_region \/ AllocatePresent \/ FreeNothing \/ RegionDone
  BY <1>1, <1>8 DEF allocate_region, free_region, RegionCall, AllocatePresent,
                    FreeNothing, RegionDone
<1>9. CASE AllocateFrame
  <2>1. PICK i \in Indices :
           /\ FirstClear(i) /\ bitmap' = bitmap \cup {i}
           /\ given' = given \cup {FrameOf(i)}
    BY <1>9 DEF AllocateFrame, SETBIT
  <2>2. /\ phase = "running" /\ phase' = "running" /\ held' = held
        /\ placementaddr' = placementaddr
    BY <1>9 DEF AllocateFrame, At
  <2> QED
    BY <2>1, <2>2, TakeFrame, FramesStay DEF IInv, BootInv, FrameInv, Bits, Out
<1>10. CASE AllocateTable
  BY <1>10 DEF AllocateTable, BootInv, FrameInv
<1>11. CASE FreeFrame
  <2>1. /\ phase = "running" /\ phase' = "running"
        /\ UNCHANGED <<placementaddr, held, given>>
        /\ bitmap' = bitmap \ {IndexOf(pages[Slot].frame)}
    BY <1>11 DEF FreeFrame, CLEARBIT, At
  <2>2. IndexOf(pages[Slot].frame) \notin Indices
    BY <2>1, Slots, FieldIndex DEF IInv, FrameInv, Entry
  <2>3. bitmap' = bitmap
    BY <2>1, <2>2 DEF IInv, TypeOK
  <2> QED
    BY <2>1, <2>3, FramesStay DEF IInv, BootInv, FrameInv, Bits, Out
<1> QED
  BY <1>2, <1>3, <1>4, <1>5, <1>6, <1>7, <1>8, <1>9, <1>10, <1>11 DEF Next

(***************************************************************************)
(* Theorems                                                                *)
(***************************************************************************)

(* IInv holds from pmm_init on, through every sequence of calls. *)
LEMMA Inductive == Spec => []IInv
<1>1. IInv /\ [Next]_vars => IInv'
  BY TypeStep, FrameStep DEF IInv
<1> QED
  BY InitIInv, <1>1, PTL DEF Spec

(* The state of pmm.c and vmm.c keeps its types whatever is called. *)
THEOREM TypeCorrect == Spec => []TypeOK
<1>1. IInv => TypeOK
  BY DEF IInv
<1> QED
  BY Inductive, <1>1, PTL

(* A bit of the bitmap is set exactly when pmm_init reserved it or its frame is out:
   kfree_page_frame undoes what kalloc_page_frame did, for every size of page,
   bitmap and kernel, because paging_init leaves placementaddr within a page. *)
THEOREM BitmapTruthful == Spec => []BitsTruthful
BY Inductive, BitsTruthfulFromIInv, PTL

(* kalloc_page_frame_at refuses every address within the bitmap: those bits are
   pmm_init's, and no sequence of calls clears one. *)
THEOREM NoFrameAtGranted == Spec => []NoFrameAt
<1>1. IInv => NoFrameAt
  <2> SUFFICES ASSUME IInv, phase = "running", NEW a \in Indices,
                      BLOCK_ALIGN(a) \in Indices
               PROVE  kalloc_page_frame_at(a) = 0
    BY DEF NoFrameAt
  <2>1. a \in Nat /\ KernelEnd \in Nat /\ BitmapBits <= KernelEnd /\ BitmapBits \in Nat
    BY PmmAssumption, VmmAssumption DEF Indices
  <2>2. BLOCK_ALIGN(a) % PageSize = 0
    BY <2>1, Alignment
  <2>3. KernelEnd < BLOCK_ALIGN(KernelEnd) /\ BLOCK_ALIGN(KernelEnd) \in Nat
    BY <2>1, Alignment
  <2>4. BLOCK_ALIGN(a) < BLOCK_ALIGN(KernelEnd)
    BY <2>1, <2>3 DEF Indices
  <2>5. BLOCK_ALIGN(a) \in bitmap
    BY <2>2, <2>4 DEF IInv, FrameInv, Reserved
  <2> QED
    BY <2>5 DEF kalloc_page_frame_at
<1> QED
  BY Inductive, <1>1, PTL

(* A step hands out a frame that is not out, takes one back, or does neither. *)
LEMMA PoolStep ==
  ASSUME IInv, [Next]_vars
  PROVE  [Pool!Next]_(Pool!vars)
<1>1. ASSUME UNCHANGED <<held, given, count>>
      PROVE  [Pool!Next]_(Pool!vars)
  BY <1>1 DEF Pool!vars, Out
<1>2. CASE Kalloc
  <2>1. PICK i \in Indices : kalloc_page_frame(i)
    BY <1>2 DEF Kalloc
  <2>2. /\ phase = "running" /\ given' = given /\ FirstClear(i)
        /\ held' = held \cup {FrameOf(i)} /\ count' = count + 1
    BY <1>2, <2>1 DEF Kalloc, kalloc_page_frame
  <2>3. Pool!Take(FrameOf(i)) /\ FrameOf(i) \in 0 .. AddrSize - 1
    BY <2>2, TakeFrame DEF Pool!Take, Out
  <2> QED
    BY <2>3 DEF Pool!Next
<1>3. CASE Kfree
  <2>1. PICK f \in held : kfree_page_frame(f)
    BY <1>3 DEF Kfree
  <2>2. /\ phase = "running" /\ given' = given
        /\ held' = held \ {f} /\ count' = count - 1
    BY <1>3, <2>1 DEF Kfree, kfree_page_frame
  <2>3. Pool!Give(f) /\ f \in 0 .. AddrSize - 1
    BY <2>2, GiveFrame DEF Pool!Give, Out
  <2> QED
    BY <2>3 DEF Pool!Next
<1>4. CASE AllocateFrame
  <2>1. PICK i \in Indices :
           FirstClear(i) /\ given' = given \cup {FrameOf(i)} /\ count' = count + 1
    BY <1>4 DEF AllocateFrame
  <2>2. phase = "running" /\ held' = held
    BY <1>4 DEF AllocateFrame, At
  <2>3. Pool!Take(FrameOf(i)) /\ FrameOf(i) \in 0 .. AddrSize - 1
    BY <2>1, <2>2, TakeFrame DEF Pool!Take, Out
  <2> QED
    BY <2>3 DEF Pool!Next
<1>5. CASE \/ UNCHANGED vars \/ PmmInit \/ paging_init \/ Overrun
           \/ allocate_region \/ free_region \/ AllocatePresent \/ AllocateTable
           \/ FreeNothing \/ FreeFrame \/ RegionDone
  BY <1>1, <1>5 DEF vars, pmmVars, PmmInit, pmm_init, paging_init, Overrun,
                    allocate_region, free_region, RegionCall, AllocatePresent,
                    AllocateTable, FreeNothing, FreeFrame, RegionDone
<1> QED
  BY <1>2, <1>3, <1>4, <1>5 DEF Next

(* pmm.c and vmm.c together implement FramePool: no frame, of a caller or of a page,
   is handed out while it is out. *)
THEOREM ManagersImplementPool == Spec => ImplementsPool
<1>1. Init => Pool!Init
  BY DEF Init, PmmStart, Pool!Init, Out
<1> QED
  BY Inductive, <1>1, PoolStep, PTL DEF Spec, ImplementsPool, Pool!Spec

(***************************************************************************)
(* The directory                                                           *)
(***************************************************************************)

(* Nothing is in the directory before paging_init. *)
DirectoryInv ==
    /\ phase \in {"reset", "pmm"} =>
          \A d \in Numbers : tables[d] = NULL /\ physical[d] = [present |-> 0, frame |-> 0]
    /\ DirectoryAgrees

(* Of two numbers on page boundaries the sum is on one. *)
LEMMA AlignedSum ==
  ASSUME NEW a \in Nat, NEW b \in Nat, a % PageSize = 0, b % PageSize = 0
  PROVE  (a + b) % PageSize = 0
<1> DEFINE q == a \div PageSize
           k == b \div PageSize
<1>1. PageSize \in Nat \ {0}
  BY PmmAssumption
<1>2. a = PageSize * q + 0 /\ q \in Int /\ b = PageSize * k + 0 /\ k \in Int
  BY <1>1, DivMod
<1> HIDE DEF q, k
<1>3. a + b = PageSize * (q + k) + 0
  BY <1>1, <1>2
<1>4. (PageSize * (q + k) + 0) % PageSize = 0
  BY <1>1, <1>2, DivUnique, q + k \in Int, 0 \in 0 .. PageSize - 1
<1> QED
  BY <1>3, <1>4

(* paging_init enters the table's address in both halves. *)
LEMMA DirectoryPlaced ==
  ASSUME IInv, DirectoryInv, paging_init
  PROVE  DirectoryInv'
<1> DEFINE dir   == dumballoc(placementaddr)
           table == dumballoc(dir + DirSize)
<1>1. /\ phase' = "running" /\ cr3' = dir + DirSize \div 2
      /\ tables' = [tables EXCEPT ![0] = table]
      /\ physical' = [physical EXCEPT ![0] =
                         [present |-> 1, frame |-> table \div PageSize]]
      /\ phase = "pmm"
  BY DEF paging_init
<1>2. /\ PageSize \in Nat \ {0} /\ DirSize \in Nat /\ KernelEnd \in Nat
      /\ Entries \in Nat \ {0}
  BY PmmAssumption, VmmAssumption
<1>3. placementaddr \in Nat /\ 0 < placementaddr
  <2>1. placementaddr \in Starts
    BY <1>1 DEF IInv, BootInv
  <2>2. BLOCK_ALIGN(KernelEnd) \in Nat /\ KernelEnd < BLOCK_ALIGN(KernelEnd)
    BY <1>2, Alignment
  <2> QED
    BY <1>2, <2>1, <2>2 DEF Starts
<1>4. dir \in Nat /\ dir % PageSize = 0 /\ 0 < dir
  BY <1>2, <1>3, Placing
<1> HIDE DEF dir
<1>5. table \in Nat /\ table % PageSize = 0 /\ 0 < table
  BY <1>2, <1>4, Placing, dir + DirSize \in Nat
<1> HIDE DEF table
<1>6. cr3' % PageSize = 0
  BY <1>1, <1>2, <1>4, AlignedSum, TablesAssumption, DivNat, 2 \in Nat \ {0}
<1>7. table = (table \div PageSize) * PageSize
  <2>1. table = PageSize * (table \div PageSize) + (table % PageSize) /\ table \div PageSize \in Int
    BY <1>2, <1>5, DivMod
  <2> QED
    BY <1>2, <1>5, <2>1
<1>8. /\ tables \in [Numbers -> Nat] /\ DOMAIN physical = Numbers
      /\ \A d \in Numbers : tables[d] = NULL /\ physical[d] = [present |-> 0, frame |-> 0]
      /\ 0 \in Numbers
  BY <1>1, <1>2 DEF IInv, TypeOK, DirectoryInv, Numbers
<1>9. ASSUME NEW d \in Numbers
      PROVE  /\ (tables'[d] # NULL) <=> (physical'[d].present = 1)
             /\ tables'[d] = physical'[d].frame * PageSize
  <2>1. CASE d = 0
    BY <1>1, <1>5, <1>7, <1>8, <2>1 DEF NULL
  <2>2. CASE d # 0
    BY <1>1, <1>2, <1>8, <2>2 DEF NULL
  <2> QED
    BY <2>1, <2>2
<1> QED
  BY <1>1, <1>6, <1>9 DEF DirectoryInv, DirectoryAgrees

(* No other step touches it. *)
LEMMA DirectoryStep ==
  ASSUME IInv, DirectoryInv, [Next]_vars
  PROVE  DirectoryInv'
<1>1. CASE paging_init
  BY <1>1, DirectoryPlaced
<1>2. ASSUME UNCHANGED dirVars, phase' \in {"reset", "pmm"} => phase \in {"reset", "pmm"},
             phase \in {"reset", "pmm"} => phase' \in {"reset", "pmm"}
      PROVE  DirectoryInv'
  BY <1>2 DEF dirVars, DirectoryInv, DirectoryAgrees
<1>3. CASE PmmInit
  BY <1>2, <1>3 DEF PmmInit
<1>4. CASE Kalloc \/ Kfree \/ Overrun
  BY <1>2, <1>4 DEF Kalloc, Kfree, Overrun
<1>5. CASE allocate_region \/ free_region \/ RegionDone \/ FreeNothing \/ AllocatePresent
  BY <1>2, <1>5 DEF allocate_region, free_region, RegionCall, RegionDone, FreeNothing,
     AllocatePresent
<1>6. CASE AllocateFrame \/ AllocateTable \/ FreeFrame
  BY <1>2, <1>6 DEF AllocateFrame, AllocateTable, FreeFrame, At
<1>7. CASE UNCHANGED vars
  BY <1>2, <1>7 DEF vars
<1> QED
  BY <1>1, <1>3, <1>4, <1>5, <1>6, <1>7 DEF Next

(* The two halves of the directory name the same tables from paging_init on: tables
   are on page boundaries, and cr3 is, since the first half fills whole pages. *)
THEOREM DirectoryHalvesAgree == Spec => []DirectoryAgrees
<1>1. Init => DirectoryInv
  BY DEF Init, DirectoryInv, DirectoryAgrees
<1>2. IInv /\ IInv' /\ DirectoryInv /\ [Next]_vars => DirectoryInv'
  BY DirectoryStep
<1>3. DirectoryInv => DirectoryAgrees
  BY DEF DirectoryInv
<1> QED
  BY Inductive, <1>1, <1>2, <1>3, PTL DEF Spec

(***************************************************************************)
(* What is placed                                                          *)
(***************************************************************************)

(* Frames are above placementaddr and all that dumballoc has placed below it, until
   a table is placed among the frames: on that of bit 0, which pmm_init reserves. *)
PlacedInv ==
    /\ phase \in {"reset", "pmm"} => placed = {}
    /\ \A s, u \in placed : s # u => Span(s) \cap Span(u) = {}
    /\ phase \in {"running", "overrun"} => \A s \in placed : s[1] + s[2] <= placementaddr
    /\ phase = "fault" => \A s \in placed, f \in Out : Span(s) \cap Frame(f) = {}

(* BLOCK_ALIGN takes the remainder off and a page on. *)
LEMMA AlignedBy ==
  ASSUME NEW x, NEW m, x % PageSize = m
  PROVE  BLOCK_ALIGN(x) = x - m + PageSize
BY DEF BLOCK_ALIGN, Down

(* A frame lies its number of pages past the first. *)
LEMMA FrameExact ==
  ASSUME placementaddr \in Nat, NEW i \in Indices
  PROVE  FrameOf(i) = BLOCK_ALIGN(placementaddr) + i * PageSize
<1> DEFINE q == placementaddr \div PageSize
           r == placementaddr % PageSize
<1>1. PageSize \in Nat \ {0} /\ i \in Nat
  BY PmmAssumption DEF Indices
<1>2. placementaddr = PageSize * q + r /\ q \in Int /\ r \in 0 .. PageSize - 1
  BY <1>1, DivMod
<1>3. placementaddr + i * PageSize = PageSize * (q + i) + r /\ q + i \in Int
  BY <1>1, <1>2
<1>4. (PageSize * (q + i) + r) % PageSize = r
  BY <1>1, <1>2, <1>3, DivUnique
<1>5. (placementaddr + i * PageSize) % PageSize = r
  BY <1>3, <1>4
<1> DEFINE z == i * PageSize
<1>6. z \in Nat
  BY <1>1
<1>7. FrameOf(i) = ((placementaddr + z) - r) + PageSize
  <2>1. FrameOf(i) = BLOCK_ALIGN(placementaddr + z) /\ (placementaddr + z) % PageSize = r
    BY <1>5 DEF FrameOf
  <2> HIDE DEF z, r
  <2> QED
    BY <2>1, AlignedBy
<1>8. BLOCK_ALIGN(placementaddr) = placementaddr - r + PageSize
  BY DEF BLOCK_ALIGN, Down
<1> HIDE DEF q, r, z
<1>9. FrameOf(i) = BLOCK_ALIGN(placementaddr) + z
  BY <1>1, <1>2, <1>6, <1>7, <1>8
<1> QED
  BY <1>9 DEF z

(* A frame that is out is past the first, which is above placementaddr. *)
LEMMA FrameAbove ==
  ASSUME IInv, phase \in {"running", "overrun"}, NEW f \in Out
  PROVE  /\ BLOCK_ALIGN(placementaddr) \in Nat /\ placementaddr < BLOCK_ALIGN(placementaddr)
         /\ f \in Nat /\ BLOCK_ALIGN(placementaddr) + PageSize <= f
<1>1. PICK i \in Indices \ Reserved : f = FrameOf(i)
  BY DEF IInv, FrameInv
<1>2. PageSize \in Nat \ {0} /\ KernelEnd \in Nat /\ placementaddr \in Nat /\ i \in Nat
  BY PmmAssumption DEF IInv, TypeOK, Indices
<1>3. BLOCK_ALIGN(placementaddr) \in Nat /\ placementaddr < BLOCK_ALIGN(placementaddr)
  BY <1>2, Alignment
<1>4. i # 0
  <2>1. BLOCK_ALIGN(KernelEnd) \in Nat /\ KernelEnd < BLOCK_ALIGN(KernelEnd)
    BY <1>2, Alignment
  <2>2. 0 % PageSize = 0
    BY <1>2
  <2> QED
    BY <1>1, <1>2, <2>1, <2>2 DEF Reserved
<1>5. i * PageSize >= PageSize
  BY <1>2, <1>4, MultipleBound
<1>6. f = BLOCK_ALIGN(placementaddr) + i * PageSize
  BY <1>1, <1>2, FrameExact
<1>7. i * PageSize \in Nat
  BY <1>2
<1> QED
  BY <1>2, <1>3, <1>5, <1>6, <1>7

(* What ends before another begins is apart from it. *)
LEMMA Before ==
  ASSUME NEW s, NEW u, s[1] \in Nat, s[2] \in Nat, u[1] \in Nat, u[2] \in Nat,
         s[1] + s[2] <= u[1]
  PROVE  Span(s) \cap Span(u) = {} /\ Span(u) \cap Span(s) = {}
BY DEF Span

(* The invariant keeps what is placed and the frames that are out apart. *)
LEMMA ApartFromInv == ASSUME IInv, PlacedInv PROVE PlacedApart
<1>1. ASSUME NEW s \in placed, NEW f \in Out PROVE Span(s) \cap Frame(f) = {}
  <2>1. phase \notin {"reset", "pmm"}
    BY <1>1 DEF PlacedInv
  <2>2. CASE phase = "fault"
    BY <1>1, <2>2 DEF PlacedInv
  <2>3. CASE phase \in {"running", "overrun"}
    <3>1. s[1] + s[2] <= placementaddr /\ s[1] \in Nat /\ s[2] \in Nat
      BY <1>1, <2>3 DEF PlacedInv, IInv, TypeOK
    <3>2. f \in Nat /\ placementaddr < f /\ placementaddr \in Nat /\ PageSize \in Nat
      BY <1>1, <2>3, FrameAbove, PmmAssumption DEF IInv, TypeOK
    <3> QED
      BY <3>1, <3>2 DEF Span, Frame
  <2> QED
    BY <2>1, <2>2, <2>3 DEF IInv, TypeOK
<1> QED
  BY <1>1 DEF PlacedApart, PlacedInv

(* paging_init places three things, one after the other. *)
LEMMA ThreePlaced ==
  ASSUME IInv, PlacedInv, paging_init
  PROVE  PlacedInv'
<1> DEFINE dir    == dumballoc(placementaddr)
           table  == dumballoc(dir + DirSize)
           frames == dumballoc(table + TableSize)
<1>1. /\ placementaddr' = frames + FramesSize /\ phase' = "running"
      /\ placed' = {<<dir, DirSize>>, <<table, TableSize>>, <<frames, FramesSize>>}
  BY DEF paging_init
<1>2. DirSize \in Nat /\ TableSize \in Nat /\ FramesSize \in Nat /\ placementaddr \in Nat
  BY VmmAssumption DEF IInv, TypeOK
<1>3. dir \in Nat
  BY <1>2, Placing
<1> HIDE DEF dir
<1>4. table \in Nat /\ dir + DirSize <= table
  BY <1>2, <1>3, Placing, dir + DirSize \in Nat
<1> HIDE DEF table
<1>5. frames \in Nat /\ table + TableSize <= frames
  BY <1>2, <1>4, Placing, table + TableSize \in Nat
<1> HIDE DEF frames
<1> DEFINE A == <<dir, DirSize>>
           B == <<table, TableSize>>
           C == <<frames, FramesSize>>
<1>6. /\ A[1] = dir /\ A[2] = DirSize /\ B[1] = table /\ B[2] = TableSize
      /\ C[1] = frames /\ C[2] = FramesSize
  OBVIOUS
<1>7. placed' = {A, B, C}
  BY <1>1
<1> HIDE DEF A, B, C
<1>8. /\ Span(A) \cap Span(B) = {} /\ Span(B) \cap Span(A) = {}
      /\ Span(A) \cap Span(C) = {} /\ Span(C) \cap Span(A) = {}
      /\ Span(B) \cap Span(C) = {} /\ Span(C) \cap Span(B) = {}
  <2>1. dir + DirSize <= frames
    BY <1>2, <1>3, <1>4, <1>5
  <2> QED
    BY <1>2, <1>3, <1>4, <1>5, <1>6, <2>1, Before
<1>9. \A s \in placed' : s[1] + s[2] <= placementaddr'
  BY <1>1, <1>2, <1>3, <1>4, <1>5, <1>6, <1>7
<1>10. \A s, u \in placed' : s # u => Span(s) \cap Span(u) = {}
  BY <1>7, <1>8
<1>11. phase' = "running"
  BY <1>1
<1> QED
  BY <1>9, <1>10, <1>11 DEF PlacedInv, Span

(* A new table is placed past all the others, and on a frame nobody can have. *)
LEMMA TablePlaced ==
  ASSUME IInv, PlacedInv, AllocateTable
  PROVE  PlacedInv'
<1> DEFINE t == <<dumballoc(placementaddr), TableSize>>
<1>1. /\ phase = "running" /\ phase' = "fault" /\ placed' = placed \cup {t}
      /\ held' = held /\ given' = given
  BY DEF AllocateTable, At
<1>2. dumballoc(placementaddr) = BLOCK_ALIGN(placementaddr)
  BY <1>1 DEF IInv, FrameInv, Positioned, dumballoc
<1>3. /\ TableSize \in Nat /\ PageSize \in Nat \ {0} /\ TableSize <= PageSize
      /\ placementaddr \in Nat
  BY VmmAssumption, PmmAssumption, TablesAssumption DEF IInv, TypeOK
<1>4. BLOCK_ALIGN(placementaddr) \in Nat /\ placementaddr < BLOCK_ALIGN(placementaddr)
  BY <1>3, Alignment
<1>5. t[1] = BLOCK_ALIGN(placementaddr) /\ t[2] = TableSize
  BY <1>2
<1> HIDE DEF t
<1>6. ASSUME NEW s \in placed
      PROVE  Span(s) \cap Span(t) = {} /\ Span(t) \cap Span(s) = {}
  <2>1. s[1] \in Nat /\ s[2] \in Nat /\ s[1] + s[2] <= placementaddr
    BY <1>1, <1>6 DEF PlacedInv, IInv, TypeOK
  <2> QED
    BY <1>3, <1>4, <1>5, <2>1, Before
<1>7. ASSUME NEW f \in Out PROVE Span(t) \cap Frame(f) = {}
  <2>1. f \in Nat /\ BLOCK_ALIGN(placementaddr) + PageSize <= f
    BY <1>1, <1>7, FrameAbove
  <2> QED
    BY <1>3, <1>4, <1>5, <2>1 DEF Span, Frame
<1>8. Out' = Out
  BY <1>1 DEF Out
<1>9. \A s \in placed, f \in Out : Span(s) \cap Frame(f) = {}
  BY ApartFromInv DEF PlacedApart
<1> QED
  BY <1>1, <1>6, <1>7, <1>8, <1>9 DEF PlacedInv

(* No other step places anything or moves placementaddr. *)
LEMMA PlacedStep ==
  ASSUME IInv, PlacedInv, [Next]_vars
  PROVE  PlacedInv'
<1>1. CASE paging_init
  BY <1>1, ThreePlaced
<1>2. CASE AllocateTable
  BY <1>2, TablePlaced
<1>3. CASE PmmInit
  BY <1>3 DEF PmmInit, PlacedInv
<1>4. ASSUME UNCHANGED <<placed, placementaddr>>, phase = "running",
             phase' \in {"running", "overrun"}
      PROVE  PlacedInv'
  BY <1>4 DEF PlacedInv
<1>5. CASE Kalloc \/ Kfree \/ Overrun
  BY <1>4, <1>5 DEF Kalloc, Kfree, Overrun, kalloc_page_frame, kfree_page_frame, pmmVars
<1>6. CASE allocate_region \/ free_region \/ RegionDone \/ FreeNothing \/ AllocatePresent
  BY <1>4, <1>6 DEF allocate_region, free_region, RegionCall, RegionDone, FreeNothing,
     AllocatePresent, At, pmmVars
<1>7. CASE AllocateFrame \/ FreeFrame
  BY <1>4, <1>7 DEF AllocateFrame, FreeFrame, At
<1>8. CASE UNCHANGED vars
  BY <1>8 DEF vars, pmmVars, PlacedInv, Out
<1> QED
  BY <1>1, <1>2, <1>3, <1>5, <1>6, <1>7, <1>8 DEF Next

(* Nothing placed overlaps anything else placed or a frame that is out, not even a
   table placed when frames are already out. *)
THEOREM NothingOverlaps == Spec => []PlacedApart
<1>1. Init => PlacedInv
  BY DEF Init, PlacedInv
<1>2. IInv /\ IInv' /\ PlacedInv /\ [Next]_vars => PlacedInv'
  BY PlacedStep
<1>3. IInv /\ PlacedInv => PlacedApart
  BY ApartFromInv
<1> QED
  BY Inductive, <1>1, <1>2, <1>3, PTL DEF Spec

(***************************************************************************)
(* Ranges                                                                  *)
(***************************************************************************)

(* What a region call has to do, from its first address on. *)
Wanted(v) == IF region.op = "allocate" THEN HasPage(v) ELSE ~HasPage(v)

(* A region call goes from page to page, and has done what it has passed. *)
RegionInv ==
    region # Idle =>
        /\ phase \notin {"reset", "pmm"}
        /\ region.op \in {"allocate", "free"}
        /\ region.next % PageSize = 0
        /\ \A v \in region.from .. region.next - 1 : Wanted(v)

(* The addresses of a page have the same entries of directory and table. *)
LEMMA SamePage ==
  ASSUME NEW a \in Nat, a % PageSize = 0, NEW v \in a .. a + PageSize - 1
  PROVE  PAGEDIR_INDEX(v) = PAGEDIR_INDEX(a) /\ PAGETBL_INDEX(v) = PAGETBL_INDEX(a)
<1> DEFINE k == a \div PageSize
           m == k \div Entries
           n == k % Entries
           o == v - a
<1>1. PageSize \in Nat \ {0} /\ Entries \in Nat \ {0}
  BY PmmAssumption, VmmAssumption
<1>2. a = PageSize * k + 0 /\ k \in Int
  BY <1>1, DivMod
<1>3. k = Entries * m + n /\ m \in Int /\ n \in 0 .. Entries - 1
  BY <1>1, <1>2, DivMod
<1>4. v = a + o /\ o \in 0 .. PageSize - 1
  BY <1>1
<1>5. v = PageSize * k + o
  BY <1>1, <1>2, <1>4
<1> HIDE DEF m, n, o
<1>6. v \div PageSize = k
  <2> HIDE DEF k
  <2>1. (PageSize * k + o) \div PageSize = k
    BY <1>1, <1>2, <1>4, DivUnique
  <2> QED
    BY <1>5, <2>1
<1> HIDE DEF k
<1> DEFINE d == Entries * PageSize
           x == PageSize * n
<1>7. x \in Nat /\ x + PageSize <= d /\ d \in Nat \ {0}
  <2>1. n \in Nat /\ Entries - n >= 1
    BY <1>1, <1>3
  <2>2. (Entries - n) * PageSize >= PageSize
    BY <1>1, <2>1, MultipleBound
  <2>3. (Entries - n) * PageSize = Entries * PageSize - PageSize * n
    BY <1>1, <2>1
  <2>4. PageSize * n \in Nat /\ Entries * PageSize \in Nat \ {0}
    BY <1>1, <2>1
  <2> QED
    BY <1>1, <2>2, <2>3, <2>4
<1>8. PageSize * k = d * m + x
  BY <1>1, <1>3
<1> HIDE DEF d, x
<1>9. v = d * m + (x + o) /\ a = d * m + x
  BY <1>1, <1>2, <1>3, <1>4, <1>5, <1>7, <1>8
<1>10. x + o \in 0 .. d - 1 /\ x \in 0 .. d - 1
  BY <1>1, <1>4, <1>7
<1>11. (d * m + (x + o)) \div d = m /\ (d * m + x) \div d = m
  BY <1>3, <1>7, <1>10, DivUnique
<1>12. v \div d = a \div d
  BY <1>9, <1>11
<1> QED
  BY <1>6, <1>12 DEF PAGEDIR_INDEX, PAGETBL_INDEX, d, k

(* So they have a page all or none. *)
LEMMA SameAnswer ==
  ASSUME NEW a \in Nat, a % PageSize = 0, NEW v \in a .. a + PageSize - 1
  PROVE  HasPage(v) <=> HasPage(a)
BY SamePage DEF HasPage

(* An address has an entry. *)
LEMMA HasEntry == ASSUME NEW v \in Nat PROVE PAGETBL_INDEX(v) \in Numbers
<1>1. Entries \in Nat \ {0} /\ PageSize \in Nat \ {0}
  BY VmmAssumption, PmmAssumption
<1>2. v \div PageSize \in Int
  BY <1>1, DivMod
<1> QED
  BY <1>1, <1>2, DivMod DEF PAGETBL_INDEX, Numbers

(* A step over a page that is as it should be then, and that spoils none of those
   before it, keeps the invariant. *)
LEMMA PagePassed ==
  ASSUME IInv, RegionInv, region # Idle, Advance, phase' = phase,
         \A v \in Nat : Wanted(v) => Wanted(v)',
         NEW n, n = region.next, Wanted(n)'
  PROVE  RegionInv'
<1>1. /\ region' = [region EXCEPT !.next = region.next + PageSize]
      /\ region.next \in Nat /\ region.from \in Nat /\ PageSize \in Nat \ {0}
      /\ region.next % PageSize = 0 /\ region.op \in {"allocate", "free"}
  BY PmmAssumption DEF Advance, RegionInv, IInv, TypeOK
<1>2. /\ region'.next = region.next + PageSize /\ region'.from = region.from
      /\ region'.op = region.op
  BY <1>1 DEF IInv, TypeOK
<1>3. (region.next + PageSize) % PageSize = 0
  <2>1. PageSize % PageSize = 0
    <3>1. (PageSize * 1 + 0) % PageSize = 0
      BY <1>1, DivUnique, 0 \in 0 .. PageSize - 1, 1 \in Int
    <3> QED
      BY <1>1, <3>1
  <2> QED
    BY <1>1, <2>1, AlignedSum
<1>4. ASSUME NEW v \in region.from .. (region.next + PageSize) - 1 PROVE Wanted(v)'
  <2>1. v \in Nat
    BY <1>1
  <2>2. CASE v < region.next
    BY <1>1, <2>1, <2>2 DEF RegionInv
  <2>3. CASE v >= region.next
    <3>1. v \in region.next .. region.next + PageSize - 1
      BY <1>1, <2>1, <2>3
    <3>2. PAGEDIR_INDEX(v) = PAGEDIR_INDEX(n) /\ PAGETBL_INDEX(v) = PAGETBL_INDEX(n)
      BY <1>1, <3>1, SamePage
    <3> QED
      BY <3>2 DEF Wanted, HasPage
  <2> QED
    BY <1>1, <2>1, <2>2, <2>3
<1>5. \A v \in region'.from .. region'.next - 1 : Wanted(v)'
  BY <1>2, <1>4
<1> QED
  BY <1>1, <1>2, <1>3, <1>5 DEF RegionInv

(* What is as it should be stays so when a page is entered for allocate_region, or
   taken out for free_region, and the page itself is then as it should be. *)
LEMMA PageSteps ==
  ASSUME IInv, NEW bit \in {0, 1}, NEW entry \in Entry, entry.present = bit,
         region.op = (IF bit = 1 THEN "allocate" ELSE "free"),
         tables' = tables, region'.op = region.op,
         pages' = [pages EXCEPT ![Slot] = entry],
         NEW n, n = region.next, HasTable
  PROVE  (\A v \in Nat : Wanted(v) => Wanted(v)') /\ Wanted(n)'
<1>1. /\ pages \in [Numbers -> Entry] /\ Slot \in Numbers /\ n \in Nat
      /\ Slot = PAGETBL_INDEX(n) /\ tables[PAGEDIR_INDEX(n)] # NULL
  BY Slots DEF IInv, TypeOK, Slot, HasTable
<1>2. ASSUME NEW v \in Nat
      PROVE  pages'[PAGETBL_INDEX(v)].present =
                IF PAGETBL_INDEX(v) = Slot THEN bit ELSE pages[PAGETBL_INDEX(v)].present
  <2>1. PAGETBL_INDEX(v) \in Numbers
    BY HasEntry
  <2> QED
    BY <1>1, <2>1
<1>3. ASSUME NEW v \in Nat, Wanted(v) PROVE Wanted(v)'
  BY <1>2, <1>3 DEF Wanted, HasPage
<1>4. Wanted(n)'
  BY <1>1, <1>2 DEF Wanted, HasPage
<1> QED
  BY <1>3, <1>4

(* Every step keeps the invariant. *)
LEMMA RegionStep ==
  ASSUME IInv, RegionInv, [Next]_vars
  PROVE  RegionInv'
<1>1. ASSUME UNCHANGED <<tables, pages, region>>,
             region = Idle \/ phase' \notin {"reset", "pmm"}
      PROVE  RegionInv'
  BY <1>1 DEF RegionInv, Wanted, HasPage
<1>2. CASE PmmInit \/ paging_init
  BY <1>2 DEF PmmInit, paging_init, RegionInv
<1>3. CASE Kalloc \/ Kfree \/ Overrun
  BY <1>1, <1>3 DEF Kalloc, Kfree, Overrun, dirVars
<1>4. ASSUME NEW op \in {"allocate", "free"}, RegionCall(op) PROVE RegionInv'
  <2>1. PICK r \in Ranges :
           region' = [op |-> op, from |-> heap_start + r[1],
                      next |-> Down(heap_start + r[1]), to |-> Down(heap_start + r[2])]
    BY <1>4 DEF RegionCall
  <2>2. heap_start + r[1] \in Nat
    BY VmmAssumption DEF IInv, TypeOK
  <2>3. /\ Down(heap_start + r[1]) % PageSize = 0 /\ Down(heap_start + r[1]) \in Nat
        /\ Down(heap_start + r[1]) <= heap_start + r[1]
    BY <2>2, Alignment
  <2>4. region'.from .. region'.next - 1 = {}
    BY <2>1, <2>2, <2>3
  <2>5. phase' = "running" /\ region'.op = op /\ region'.next % PageSize = 0
    BY <1>4, <2>1, <2>3 DEF RegionCall
  <2> QED
    BY <2>4, <2>5 DEF RegionInv
<1>5. ASSUME NEW op \in {"allocate", "free"}, At(op)
      PROVE  region # Idle /\ region.op = op /\ phase = "running" /\ region.next \in Nat
  BY <1>5 DEF At, Idle, IInv, TypeOK
<1>6. ASSUME Advance PROVE region'.op = region.op
  BY <1>6 DEF Advance, IInv, TypeOK
<1>7. CASE AllocatePresent \/ FreeNothing
  <2>1. /\ UNCHANGED <<tables, pages, phase>> /\ Advance /\ region # Idle
        /\ region'.op = region.op
    BY <1>5, <1>6, <1>7 DEF AllocatePresent, FreeNothing, dirVars
  <2>2. \A v \in Nat : Wanted(v) => Wanted(v)'
    BY <2>1 DEF Wanted, HasPage
  <2>3. PICK n : n = region.next
    OBVIOUS
  <2>4. Wanted(n)'
    <3>1. CASE AllocatePresent
      BY <1>5, <2>1, <2>3, <3>1 DEF AllocatePresent, Wanted, HasPage, HasTable, Slot
    <3>2. CASE FreeNothing
      BY <1>5, <2>1, <2>3, <3>2 DEF FreeNothing, Wanted, HasPage, HasTable, Slot
    <3> QED
      BY <1>7, <3>1, <3>2
  <2> QED
    BY <2>1, <2>2, <2>3, <2>4, PagePassed
<1>8. CASE AllocateFrame
  <2>1. PICK i \in Indices :
           pages' = [pages EXCEPT ![Slot] = [present |-> 1, frame |-> Field(FrameOf(i))]]
    BY <1>8 DEF AllocateFrame
  <2> DEFINE entry == [present |-> 1, frame |-> Field(FrameOf(i))]
  <2>2. entry \in Entry /\ entry.present = 1
    BY FrameType, Slots DEF Entry, IInv
  <2>3. /\ At("allocate") /\ HasTable /\ Advance /\ phase' = phase /\ tables' = tables
    BY <1>8 DEF AllocateFrame, dirVars
  <2>4. region # Idle /\ region.op = "allocate" /\ region'.op = region.op
    BY <1>5, <1>6, <2>3
  <2>5. PICK n : n = region.next
    OBVIOUS
  <2> HIDE DEF entry
  <2>6. (\A v \in Nat : Wanted(v) => Wanted(v)') /\ Wanted(n)'
    BY <2>1, <2>2, <2>3, <2>4, <2>5, PageSteps, 1 \in {0, 1} DEF entry
  <2> QED
    BY <2>3, <2>4, <2>5, <2>6, PagePassed
<1>9. CASE FreeFrame
  <2> DEFINE entry == [pages[Slot] EXCEPT !.present = 0]
  <2>1. /\ At("free") /\ HasTable /\ Advance /\ phase' = phase /\ tables' = tables
        /\ pages' = [pages EXCEPT ![Slot].present = 0]
    BY <1>9 DEF FreeFrame, dirVars
  <2>2. entry \in Entry /\ entry.present = 0 /\ pages' = [pages EXCEPT ![Slot] = entry]
    BY <2>1, Slots DEF Entry, IInv
  <2>3. region # Idle /\ region.op = "free" /\ region'.op = region.op
    BY <1>5, <1>6, <2>1
  <2>4. PICK n : n = region.next
    OBVIOUS
  <2> HIDE DEF entry
  <2> DEFINE bit == 0
  <2>5. bit \in {0, 1} /\ entry.present = bit
        /\ region.op = (IF bit = 1 THEN "allocate" ELSE "free")
    BY <2>2, <2>3
  <2> HIDE DEF bit
  <2>6. (\A v \in Nat : Wanted(v) => Wanted(v)') /\ Wanted(n)'
    BY <2>1, <2>2, <2>3, <2>4, <2>5, PageSteps
  <2> QED
    BY <2>1, <2>3, <2>4, <2>6, PagePassed
<1>10. CASE AllocateTable
  BY <1>1, <1>10 DEF AllocateTable, dirVars
<1>11. CASE RegionDone
  BY <1>11 DEF RegionDone, RegionInv
<1>12. CASE UNCHANGED vars
  BY <1>1, <1>12 DEF vars, dirVars, RegionInv
<1> QED
  BY <1>2, <1>3, <1>4, <1>7, <1>8, <1>9, <1>10, <1>11, <1>12
     DEF Next, allocate_region, free_region

(* A region call that completes has mapped, or unmapped, every page of its range,
   the one its last address is on included, whatever was mapped before. *)
THEOREM RangesWhole == Spec => RegionWhole
<1>1. Init => RegionInv
  BY DEF Init, RegionInv
<1>2. IInv /\ IInv' /\ RegionInv /\ [Next]_vars => RegionInv'
  BY RegionStep
<1>3. ASSUME IInv, RegionInv
      PROVE  [RegionDone =>
                \A v \in region.from .. region.to :
                   IF region.op = "allocate" THEN HasPage(v) ELSE ~HasPage(v)]_vars
  <2> SUFFICES ASSUME RegionDone, NEW v \in region.from .. region.to
               PROVE  Wanted(v)
    BY DEF Wanted
  <2>1. region # Idle /\ ~More
    BY DEF RegionDone
  <2>2. region.from \in Nat /\ region.to \in Nat /\ region.next \in Nat
    BY <1>3 DEF IInv, TypeOK
  <2>3. v \in region.from .. region.next - 1
    BY <2>1, <2>2 DEF More
  <2> QED
    BY <1>3, <2>1, <2>3 DEF RegionInv
<1> QED
  BY Inductive, <1>1, <1>2, <1>3, PTL DEF Spec, RegionWhole
=============================================================================
