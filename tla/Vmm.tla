-------------------------------- MODULE Vmm ---------------------------------
(***************************************************************************)
(* Paging, vmm.c, over the physical memory manager: paging_init builds the *)
(* page directory and its first table, and allocate_region and free_region *)
(* map and unmap the pages of a range one by one.                          *)
(*                                                                         *)
(* A page table entry has room for the number of a frame.  paging_init     *)
(* writes page numbers there; allocate_page writes the address of the      *)
(* frame, of which the field keeps the low bits; free_page takes the field *)
(* for an address again.                                                   *)
(*                                                                         *)
(* Only the first table ever exists: allocate_page clears 1024 times the   *)
(* size of a new one, as much as a table maps, and so runs into pages      *)
(* nothing maps.                                                           *)
(***************************************************************************)
EXTENDS Pmm

CONSTANTS
    DirSize, TableSize,     \* sizeof(page_directory), sizeof(page_table)
    FramesSize,             \* nframes * sizeof(*frames)
    Entries,                \* entries of a page table, and of the directory
    FieldSize,              \* 2^20: what fits in a frame field
    Ranges                  \* the ranges callers ask for, from heap_start

NULL == 0

(* The kernel is loaded at FieldSize (1 MB), past the byte addresses that number the
   bits of the bitmap, and addresses do not wrap within the frames it covers. *)
ASSUME VmmAssumption ==
    /\ DirSize \in Nat /\ TableSize \in Nat \ {0} /\ FramesSize \in Nat
    /\ Entries \in Nat \ {0}
    /\ FieldSize \in Nat \ {0} /\ FieldSize <= KernelEnd
    /\ BitmapBits <= KernelEnd
    /\ Ranges \subseteq Nat \X Nat
    /\ KernelEnd + DirSize + TableSize + FramesSize + (BitmapBits + 6) * PageSize
          <= AddrSize

(* nframes entries do not fill whole pages, which leaves placementaddr off a page
   boundary for good.  The frame arithmetic of pmm.c depends on it. *)
ASSUME UnalignedAssumption == FramesSize % PageSize # 0

(* A page table is not longer than a page, and the pointers that are the first half
   of a directory fill whole pages. *)
ASSUME TablesAssumption ==
    /\ TableSize <= PageSize
    /\ (DirSize \div 2) % PageSize = 0

VARIABLES
    phase,          \* "reset", "pmm", "running", or how the system stopped
    placed,         \* the <<address, size>> dumballoc has handed out
    kernel_dir, cr3,
    tables,         \* kernel_dir->tables
    physical,       \* kernel_dir->tables_physical
    pages,          \* the first page table
    heap_start,
    region,         \* the region call in progress
    given           \* history: the frames allocate_page obtained

pmmVars == <<bitmap, placementaddr, held, count>>
dirVars == <<kernel_dir, cr3, tables, physical, heap_start>>
vars == <<pmmVars, phase, placed, dirVars, pages, region, given>>

Numbers == 0 .. Entries - 1

(* What a frame field keeps of a value.  Mutant: all of it. *)
FieldAll(x) == x
Field(x) == x % FieldSize

Entry == [present : {0, 1}, frame : 0 .. FieldSize - 1]
Idle == [op |-> "none", from |-> 0, next |-> 0, to |-> 0]

PAGEDIR_INDEX(vaddr) == vaddr \div (Entries * PageSize)
PAGETBL_INDEX(vaddr) == (vaddr \div PageSize) % Entries

Init ==
    /\ PmmStart
    /\ phase = "reset"
    /\ placed = {}
    /\ kernel_dir = NULL /\ cr3 = NULL /\ heap_start = 0
    /\ tables = [d \in Numbers |-> NULL]
    /\ physical = [d \in Numbers |-> [present |-> 0, frame |-> 0]]
    /\ pages = [p \in Numbers |-> [present |-> 0, frame |-> 0]]
    /\ region = Idle
    /\ given = {}

-----------------------------------------------------------------------------
(* Placing *)

(* Where dumballoc puts the next thing when placementaddr is at.  Mutant: the
   address is used as it is. *)
dumballoc_unaligned(at) == at
dumballoc(at) == IF at % PageSize = 0 THEN at ELSE BLOCK_ALIGN(at)

PmmInit ==
    /\ phase = "reset"
    /\ pmm_init
    /\ phase' = "pmm"
    /\ UNCHANGED <<placed, dirVars, pages, region, given>>

(* The loop that fills the first table runs to placementaddr, far past its last
   entry: all of it is present. *)
paging_init ==
    LET dir    == dumballoc(placementaddr)
        table  == dumballoc(dir + DirSize)
        frames == dumballoc(table + TableSize)
    IN  /\ phase = "pmm"
        /\ placementaddr' = frames + FramesSize
        /\ placed' = {<<dir, DirSize>>, <<table, TableSize>>, <<frames, FramesSize>>}
        /\ kernel_dir' = dir
        /\ tables' = [tables EXCEPT ![0] = table]
        /\ physical' = [physical EXCEPT ![0] =
                           [present |-> 1, frame |-> table \div PageSize]]
        /\ pages' = [p \in Numbers |-> [present |-> 1, frame |-> Field(p)]]
        /\ cr3' = dir + DirSize \div 2           \* &dir->tables_physical
        /\ heap_start' = placementaddr'
        /\ phase' = "running"
        /\ UNCHANGED <<bitmap, held, count, region, given>>

-----------------------------------------------------------------------------
(* The page a region call is at *)

(* while (start <= end): the last page is included.  Mutant: it is not. *)
MoreExclusive == region.next < region.to
More == region.next <= region.to

At(op)   == phase = "running" /\ region.op = op /\ More
HasTable == tables[PAGEDIR_INDEX(region.next)] # NULL
Slot     == PAGETBL_INDEX(region.next)
Advance  == region' = [region EXCEPT !.next = @ + PageSize]

-----------------------------------------------------------------------------
(* Frames for their own sake, as in test_memory *)

Kalloc == /\ phase = "running" /\ region = Idle
          /\ \E i \in Indices : kalloc_page_frame(i)
          /\ UNCHANGED <<phase, placed, dirVars, pages, region, given>>

Kfree == /\ phase = "running" /\ region = Idle
         /\ \E f \in held : kfree_page_frame(f)
         /\ UNCHANGED <<phase, placed, dirVars, pages, region, given>>

(* With no bit clear the scan goes on past the bitmap.  What it finds and sets
   there is not modelled any further. *)
Overrun == /\ phase = "running"
           /\ Indices \subseteq bitmap
           /\ \/ region = Idle
              \/ At("allocate") /\ HasTable /\ pages[Slot].present = 0
           /\ phase' = "overrun"
           /\ UNCHANGED <<pmmVars, placed, dirVars, pages, region, given>>

-----------------------------------------------------------------------------
(* allocate_region and free_region *)

RegionCall(op) ==
    /\ phase = "running" /\ region = Idle
    /\ \E r \in Ranges :
          region' = [op |-> op, from |-> heap_start + r[1],
                     next |-> Down(heap_start + r[1]), to |-> Down(heap_start + r[2])]
    /\ UNCHANGED <<pmmVars, phase, placed, dirVars, pages, given>>

allocate_region == RegionCall("allocate")
free_region     == RegionCall("free")

AllocatePresent ==
    /\ At("allocate") /\ HasTable /\ pages[Slot].present = 1
    /\ Advance
    /\ UNCHANGED <<pmmVars, phase, placed, dirVars, pages, given>>

AllocateFrame ==
    /\ At("allocate") /\ HasTable /\ pages[Slot].present = 0
    /\ \E i \in Indices :
          /\ FirstClear(i)
          /\ SETBIT(i)
          /\ pages' = [pages EXCEPT ![Slot] =
                          [present |-> 1, frame |-> Field(FrameOf(i))]]
          /\ given' = given \cup {FrameOf(i)} /\ count' = count + 1
    /\ Advance
    /\ UNCHANGED <<placementaddr, held, phase, placed, dirVars>>

(* The table is placed, and clearing it faults. *)
AllocateTable ==
    /\ At("allocate") /\ ~HasTable
    /\ placed' = placed \cup {<<dumballoc(placementaddr), TableSize>>}
    /\ placementaddr' = dumballoc(placementaddr) + TableSize
    /\ phase' = "fault"
    /\ UNCHANGED <<bitmap, held, count, dirVars, pages, region, given>>

FreeNothing ==
    /\ At("free")
    /\ ~HasTable \/ pages[Slot].present = 0
    /\ Advance
    /\ UNCHANGED <<pmmVars, phase, placed, dirVars, pages, given>>

FreeFrame ==
    /\ At("free") /\ HasTable /\ pages[Slot].present = 1
    /\ CLEARBIT(IndexOf(pages[Slot].frame))
    /\ pages' = [pages EXCEPT ![Slot].present = 0]
    /\ Advance
    /\ UNCHANGED <<placementaddr, held, count, phase, placed, dirVars, given>>

RegionDone ==
    /\ phase = "running" /\ region # Idle /\ ~More
    /\ region' = Idle
    /\ UNCHANGED <<pmmVars, phase, placed, dirVars, pages, given>>

Next ==
    \/ PmmInit \/ paging_init
    \/ Kalloc \/ Kfree \/ Overrun
    \/ allocate_region \/ AllocatePresent \/ AllocateFrame \/ AllocateTable
    \/ free_region \/ FreeNothing \/ FreeFrame
    \/ RegionDone

Spec == Init /\ [][Next]_vars

-----------------------------------------------------------------------------
(* What virt_phys returns, and where the processor finds an address. *)

virt_phys(vaddr) ==
    LET entry == pages[PAGETBL_INDEX(vaddr)]
    IN  IF tables[PAGEDIR_INDEX(vaddr)] = NULL \/ entry.present = 0 THEN NULL
        ELSE entry.frame \div PageSize + (vaddr % PageSize)

HasPage(vaddr) ==
    /\ tables[PAGEDIR_INDEX(vaddr)] # NULL
    /\ pages[PAGETBL_INDEX(vaddr)].present = 1

Translation(vaddr) ==
    pages[PAGETBL_INDEX(vaddr)].frame * PageSize + (vaddr % PageSize)

-----------------------------------------------------------------------------
(* Properties *)

Out == held \cup given

(* The type invariant of the state vmm.c and pmm.c keep. *)
TypeOK ==
    /\ bitmap \subseteq Indices
    /\ placementaddr \in Nat
    /\ held \subseteq Nat /\ count \in Int /\ given \subseteq Nat
    /\ phase \in {"reset", "pmm", "running", "fault", "overrun"}
    /\ placed \subseteq Nat \X Nat
    /\ kernel_dir \in Nat /\ cr3 \in Nat /\ heap_start \in Nat
    /\ tables \in [Numbers -> Nat]
    /\ physical \in [Numbers -> [present : {0, 1}, frame : Nat]]
    /\ pages \in [Numbers -> Entry]
    /\ region \in [op : {"none", "allocate", "free"}, from : Nat, next : Nat, to : Nat]

(* A bit is set exactly when pmm_init reserved it or its frame is out: however
   callers take and free frames and pages are mapped and unmapped between them,
   kfree_page_frame finds the bit kalloc_page_frame set. *)
Reserved == {i \in Indices : i % PageSize = 0 /\ i < BLOCK_ALIGN(KernelEnd)}

BitsTruthful ==
    phase \in {"running", "overrun"} =>
        /\ bitmap = Reserved \cup {i \in Indices : FrameOf(i) \in Out}
        /\ Out \subseteq {FrameOf(i) : i \in Indices \ Reserved}

(* pmm.c and vmm.c together hand out no frame twice, whether to a caller or to a
   page: they implement FramePool.  The frames of pages never go back, since
   free_page hands kfree_page_frame something else than their address. *)
Pool == INSTANCE FramePool WITH out <- Out, Frames <- 0 .. AddrSize - 1
ImplementsPool == Pool!Spec

(* What dumballoc places is in one piece: two things never overlap, and no frame
   overlaps one, not even a table placed when frames are already out. *)
Span(s) == s[1] .. s[1] + s[2] - 1
Frame(f) == f .. f + PageSize - 1

PlacedApart ==
    /\ \A s, u \in placed : s # u => Span(s) \cap Span(u) = {}
    /\ \A s \in placed, f \in Out : Span(s) \cap Frame(f) = {}

(* The two halves of the directory name the same tables: the processor walks to
   the table vmm.c writes, and cr3 loses no bits. *)
DirectoryAgrees ==
    phase # "reset" /\ phase # "pmm" =>
        /\ cr3 % PageSize = 0
        /\ \A d \in Numbers :
              /\ (tables[d] # NULL) <=> (physical[d].present = 1)
              /\ tables[d] = physical[d].frame * PageSize

(* A region call that completes has mapped, or unmapped, every page from the one
   its first address is on to the one its last address is on. *)
RegionWhole ==
    [][RegionDone =>
         \A v \in region.from .. region.to :
            IF region.op = "allocate"
            THEN HasPage(v)
            ELSE ~HasPage(v)]_vars

(* kalloc_page_frame_at, which takes byte addresses for bit numbers, grants no
   address within the bitmap: pmm_init has set those bits, and none is cleared. *)
NoFrameAt ==
    phase = "running" =>
        \A a \in Indices : BLOCK_ALIGN(a) \in Indices => kalloc_page_frame_at(a) = 0

(* "Convert a virtual address to a physical address" (vmm.c:60): virt_phys returns
   where the processor finds the byte. *)
VirtPhysTranslates ==
    phase = "running" =>
        \A v \in 0 .. Entries * PageSize - 1 :
            virt_phys(v) # NULL => virt_phys(v) = Translation(v)
=============================================================================
