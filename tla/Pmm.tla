-------------------------------- MODULE Pmm ---------------------------------
(***************************************************************************)
(* The physical memory manager, pmm.c: a bitmap of page frames that lie    *)
(* past placementaddr, the end of what has been placed after the kernel.   *)
(*                                                                         *)
(* The frame of bit i is reckoned from placementaddr both when it is       *)
(* handed out and when it is taken back, so the two agree only while       *)
(* placementaddr does not move and is not on a page boundary.              *)
(***************************************************************************)
EXTENDS Integers

CONSTANTS
    PageSize,       \* PAGE_SIZE, BLOCK_SIZE
    BitmapBits,     \* BITMAP_SIZE * BLOCKS_PER_BUCKET: the bits in use
    KernelEnd,      \* the address bitmap + BITMAP_SIZE + PAGE_SIZE
    AddrSize        \* 2^32: addresses wrap

ASSUME PmmAssumption ==
    /\ PageSize \in Nat \ {0} /\ BitmapBits \in Nat \ {0}
    /\ KernelEnd \in Nat /\ AddrSize \in Nat

VARIABLES
    bitmap,         \* the bits that are set
    placementaddr,
    held,           \* the frames callers of kalloc_page_frame hold
    count           \* history: times a frame was handed out, less given back

Indices == 0 .. BitmapBits - 1

Down(addr) == addr - (addr % PageSize)
BLOCK_ALIGN(addr) == Down(addr) + PageSize

PmmStart == bitmap = {} /\ placementaddr = 0 /\ held = {} /\ count = 0

-----------------------------------------------------------------------------
(* Mutant: the loop starts a page later. *)
MarkedFromOne(end) == {i \in Indices : i % PageSize = 0 /\ PageSize <= i /\ i < end}

(* The loop sets the bits numbered by the byte addresses of the kernel's pages.
   Those past the bitmap are bits of the variables that follow it, and the first
   of them may be bit 0 of placementaddr itself: that is the linker's choice. *)
Marked(end) == {i \in Indices : i % PageSize = 0 /\ i < end}

pmm_init ==
    \E end \in {BLOCK_ALIGN(KernelEnd)}
               \cup {a + 1 : a \in {BLOCK_ALIGN(KernelEnd)} \ Indices} :
        /\ bitmap' = Marked(end)
        /\ placementaddr' = end
        /\ UNCHANGED <<held, count>>

(* The frame of bit i, and the bit kfree_page_frame clears for an address.
   Mutants: frames begin at placementaddr's own page; bits are reckoned from
   that page. *)
FrameOfDown(i) == Down(placementaddr + i * PageSize)
FrameOf(i)     == BLOCK_ALIGN(placementaddr + i * PageSize)

IndexFromPage(addr) == ((addr - Down(placementaddr)) % AddrSize) \div PageSize
IndexOf(addr) == ((addr - placementaddr) % AddrSize) \div PageSize

(* The bit kalloc_page_frame finds. *)
FirstClear(i) == i \in Indices \ bitmap /\ \A j \in Indices \ bitmap : i <= j

SETBIT(i)   == bitmap' = bitmap \cup {i}
CLEARBIT(i) == bitmap' = bitmap \ {i}     \* past the array, it is no bit of it

(* A caller takes a frame for itself, and gives it back. *)
kalloc_page_frame(i) ==
    /\ FirstClear(i)
    /\ SETBIT(i)
    /\ held' = held \cup {FrameOf(i)} /\ count' = count + 1
    /\ UNCHANGED placementaddr

kfree_page_frame(f) ==
    /\ f \in held
    /\ CLEARBIT(IndexOf(f))
    /\ held' = held \ {f} /\ count' = count - 1
    /\ UNCHANGED placementaddr

(* What kalloc_page_frame_at returns: it takes the address for the number of a bit.
   Mutant: the address is not aligned first. *)
FrameAtRaw(addr) == IF addr \in bitmap THEN 0 ELSE addr

kalloc_page_frame_at(addr) ==
    IF BLOCK_ALIGN(addr) \in bitmap THEN 0 ELSE BLOCK_ALIGN(addr)
=============================================================================
