# A TLA+ model of the riseos kernel

Source paths are relative to the repository; the kernel is under `src/kernel`, the C
library under `src/libc`. File names without a directory are those of
`src/kernel/kernel`, `src/kernel/include/kernel` and `src/kernel/arch/i386`.

## 1. The system and its parts

riseos is a small 32-bit kernel for i386. `_start` (boot.S) sets up a stack and calls
`kernel_main` (kernel.c), which installs descriptor tables and interrupt handlers,
starts the timer and enables interrupts. The memory managers are called from the same
function; at this commit the two calls (kernel.c:81-82) and their tests are commented
out or unused, and the model takes them as the kernel's callers do when they are in.

| part | state it keeps | operations | modelled in |
|---|---|---|---|
| spin lock (spinlock.h) | the lock word, one per lock | `spin_lock`, `spin_trylock`, `spin_unlock`, on `xchg_32` and `cpu_relax` | `Mutex`, `SpinLock` |
| heap backend (rise.c) | `heap_cur`, the lock | `liballoc_lock/unlock`, `liballoc_alloc/free` | `Mutex`, `Liballoc` |
| heap (liballoc.c) | boundary tags in heap memory, `l_freePages`, `l_completePages`, `l_initialized` | `malloc`, `calloc`, `realloc`, `free` and their helpers | `AbstractHeap`, `Liballoc` |
| physical memory (pmm.c) | the frame bitmap, `placementaddr` | `pmm_init`, `kalloc_page_frame`, `kfree_page_frame`, `kalloc_page_frame_at` | `FramePool`, `Pmm` |
| paging (vmm.c) | page directory (two halves), page tables, `heap_start` | `paging_init`, `dumballoc`, `allocate_region/page`, `free_region/page`, `virt_phys` | `Vmm` |
| descriptor tables (gdt.c, idt.c) | `gdt`, `idt` | `gdt_install`, `idt_install`, `idt_set_gate` | `Interrupts` |
| interrupts (boot.S stubs, isrc.c, irq.c) | `irq_routines`, the kernel stack, the two 8259 controllers | `isrs_install`, `irq_install`, `irq_remap`, the stubs, `fault_handler`, `irq_handler`, handlers put in and taken out | `Interrupts` |
| boot (kernel.c, boot.S) | how far `kernel_main` has come | the calls up to `sti` | `Interrupts`, `Vmm` (`PmmInit`, `paging_init`) |
| timer | (timer.c and timer.h are not in the repository) | `timer_install` | `Interrupts`, as an external handler of line 0 |
| serial port (serial.c) | the port's registers and transmitter, who is printing | `serial_init`, `write_serial`, `qemu_printf`, `vsprintf_helper`, `itoa` | `Formats`, `Serial` |
| VGA terminal (tty.c) | row, column, the screen (and a colour nobody changes) | `terminal_initialize`, `terminal_putchar`, `terminal_newline`, `terminal_write(string)` | `Terminal` |
| libc stdio, stdlib (printf.c, putchar.c, puts.c, abort.c) | none | `printf`, `puts`, `putchar`, `abort` | `Formats`, `Terminal` |
| byte loops (libc's string, and those of liballoc.c and serial.c) | none | `memcpy`, `memmove`, `memset`, `memcmp`, `strlen`, `strcpy` | `StringLibrary`, `Strings` |
| build and run scripts | none | they build the image | no |

**How they interact.** A `malloc` takes the spin lock through `liballoc_lock`, searches
the free lists, and when nothing fits calls `liballoc_alloc`, which calls
`allocate_region`, which takes one frame per page from the bitmap and writes page table
entries; `free` may give a run of pages back through `liballoc_free` and `free_region`.
`dumballoc` moves `placementaddr`, from which the bitmap's frames are reckoned: the two
managers share that word. A page that is not present ends in `fault_handler`, which
prints and loops. Interrupts run on the stack of what they interrupt; `spin_lock` does
not turn them off. Everybody prints on the serial port through `qemu_printf`, without a
lock: `kernel_main`, and `irq_handler` and `fault_handler` on top of it.

**What is hard here.**
- The lock: stores that reach memory late, an unlocking store that is a plain `mov`, a
  failed `xchg` that writes the word all the same, handlers in the critical section.
- The heap: headers inside the memory they describe, links in both directions that
  splits and melts must keep; `realloc`, which reads under the lock and copies outside
  it, and calls `malloc` and `free`, which lock; failures in the middle of `calloc` and
  `realloc`; counts maintained from two different exponents.
- Pages and frames: three units (byte address, page number, bit number) that the code
  converts between, a field of 20 bits, frames reckoned from a word that moves, ranges
  that include their last page, and what happens when a table or the bitmap is full.
- Output: a handler that prints between the test of the transmitter and the write to it,
  a port that takes its first bytes for a baud rate, a cursor that is compared for
  equality only, formats whose directives one of the two printers does not know, copying
  loops that read what they have overwritten.
- Interrupts: the number a handler reads is not the vector (below), two controllers
  that must each be acknowledged, faults inside handlers, words on the stack that
  depend on the exception, and an order of installation that must end before `sti`.

**What makes each part correct.** The lock admits one holder, loses no update, and is
always given back. The heap hands out disjoint blocks, keeps every byte in exactly one
block, merges free neighbours, loses nothing and grows only when it must. The frame
managers hand out no frame twice and never one that carries a table; the directory's two
halves agree; a region call does every page of its range. From `sti` on each vector has
its gate, handlers do not nest, lines are acknowledged, `iret` finds its frame, and the
timer is not shut out. A byte written to the port is sent, a line comes out whole and to
its end, output stays on the screen, `printf` counts what it puts, and the byte loops do
what the C library says of them.

## 2. The modules

### Mutex, SpinLock (spinlock.h, rise.c:14-24)

`SpinLock` has one program counter per thread (`pc`), the lock word (`lock`), a word
the lock guards (`count`, which stands for any data of the heap) and a FIFO store
buffer per processor (`buf`, x86-TSO). `Exchange` is `xchg_32`: it needs an empty
buffer, as a locked instruction does. `Poll` and `Pause` are the inner loop of
`spin_lock`, `TryLock` is `spin_trylock`, `Unlock` puts the plain store of 0 in the
buffer behind the data, which is what `barrier()` keeps in order; `Drain` lets the
oldest store out. `Interrupt` and `Iret` put a handler on top of a thread anywhere. The
abstract `Mutex` says only that one thread at a time is inside; `ImplementsMutex`
refines it with the holders counted until the unlocking store is in memory. `Liballoc`
takes its lock from `Mutex`.

### AbstractHeap, Liballoc (liballoc.c, rise.c)

The heap's tables are `tag` (a function from the addresses that carry a boundary tag to
its fields), `free`, `complete` and `l_initialized`. Each C helper is an operator on
them of the same name (`insert_tag`, `remove_tag`, `melt_left`, `absorb_right`,
`split_tag`, `getexp`). What a call does with the lock held is one action per loop
iteration or branch: `MallocStart`, `MallocNext` (the search), `MallocTake`,
`MallocGrow`, `MallocFail`, `FreeStart`, `MeltLeft`, `MeltDone`, `AbsorbRight`,
`FreePut`, `FreeRelease`. What `realloc` and `calloc` do outside the lock (`Copy`,
`Fill`) is a step of its own, with other threads' calls in between.

A step is taken where it can be (`Goes`), and otherwise `Stop` ends the behaviour: the code
would touch a page that is not present (`Accessible`), or write over the kernel
(`Overwrites`). The latter is what `realloc` and `calloc` do with a NULL from `malloc`: they
copy to or clear from address 0 on, and a range that reaches 1 MB (`KernelStart`) is the
kernel's image and the tables behind it. What the processor makes of the ruins is not
followed. Memory below the image is nobody's in this kernel, so a shorter copy to it goes
on, and `realloc` then frees the old block. `StopsExplained` says which three things end the
behaviour: a request reached past page table 0 (`Overgrows`), a write through NULL went over
the kernel, or a run of pages went back, for which the heap must have obtained more than
MAXCOMPLETE runs (`ManyRuns`). `LayoutAssumption` is the order of image, tables, heap and the
end of page table 0 in memory, and that HEAP_SIZE is what a table maps, so that the heap
ends past it (vmm.c:213-215). `CallocNeverFails` follows from that layout: what `malloc`
refuses is so long that clearing it reaches the kernel. When `malloc` takes a whole run, it lowers the count of the list the request's size selects,
which is the list it searched, as in the code.
Contents of blocks are not modelled, and the magic number of a pointer that a caller
holds is taken as right. The abstract `AbstractHeap` has the set of blocks in callers'
hands: allocated apart from each other, inside the heap, given back one at a time.

### FramePool, Pmm, Vmm (pmm.c, vmm.c)

`Pmm` has the bitmap as the set of its set bits, `placementaddr`, and the frames callers
hold. `FrameOf` and `IndexOf` are the arithmetic of lines 74 and 90-97, with addresses
modulo `AddrSize`. `pmm_init` marks bits by byte address, as line 42 does, past the end
of the array included: one of these bits may be bit 0 of `placementaddr`, which the
linker decides, so both outcomes are states of the model. `Vmm` EXTENDS `Pmm` because
the two share `placementaddr`. `paging_init` places directory, table and frame array;
`region` is the region call in progress, and each page is a step: `AllocatePresent`,
`AllocateFrame`, `AllocateTable`, `FreeNothing`, `FreeFrame`, then `RegionDone`. The
`frame` field keeps `x % FieldSize`. `AllocateTable` ends the run: the `memset` of
`allocate_page` clears 1024 tables' worth of memory and faults. `Overrun` is the scan
past a full bitmap. The abstract `FramePool` has the frames that are out: a frame is
handed out only when it is not.

### Interrupts (boot.S, gdt.c, idt.c, isrc.c, irq.c, kernel.c)

`boot` counts the calls `kernel_main` has made, one action each. A descriptor is the
record of the fields `gdt_set_gate` writes, cut from a base and a limit; `gdt_install`
loads as many as the limit it gives `lgdt` covers, and `Flat`, `Code` and `WritableData`
are how the processor reads their bits. A gate is the record of what `idt_set_gate`
writes, the address in two halves, with its selector and flags. An interrupt or exception pushes
a frame (`Enter`): its vector, the number the handler will read, how many words stand
between the saved registers and the interrupted `eip`, and whether interrupts were on.
**The number is any of `Words`**, because the stubs say `push 32`, which in this
assembler's syntax pushes the word of memory at address 32 and not the number 32; what
lies at addresses 0 to 47 is left by the firmware and by stores through null pointers.
`fault_handler` halts or, for a number of 32 or more, returns; `irq_dispatch` looks
`irq_routines` up by that number, and past the array calls whatever word is there, or
nothing if it is 0; `irq_eoi_slave` and `irq_eoi_master` acknowledge. `Return` is the
end of the common stubs. The 8259s are external: requested lines, lines in service, the
priorities of the two-level wiring, and acknowledgements that take the first line in
service out. The vectors, lines and error codes are the real ones; only which
exceptions and lines occur, the words and the depth are chosen per run.

### StringLibrary, Strings (libc/string, liballoc.c, serial.c)

`Strings` has a memory of a few bytes, the call under way and its loop's index; an
iteration of the loop is a step, so a copy may read what it has already written.
`Allowed` is what callers must see to: for `memcpy` that the regions are apart, for the
loops that go up by themselves (`liballoc_memcpy`, word by word while there is one left,
and `strcpy`) that they are apart or the destination is the lower one, for `memmove`
nothing. `StringLibrary` is the abstract specification: a request is answered by one change of the
memory and a value (`Promise`), the memory as it was when the call was made is what it
speaks of, and `ImplementsLibrary` says that every routine refines it.

### Formats, Terminal, Serial, Console (tty.c, libc/stdio, serial.c, kernel.c)

`Formats` is what the C library says of a format: pieces, each with its characters, its
parameters and the text it stands for; for a number that is its numeral, written with
powers of the base and not as `itoa` computes it. Characters are members of `Letters`, a
constant. The formats of a run are assumed to be pieces, and those on the port to have no
`%%`, which no call in the source has. `Terminal` has tty.c's cursor and cells, some of
the memory behind the screen included, and one call at a time, a directive and then a
character a step: `Plain`, `PrintChar`, `PrintString`, `PrintHex` (which puts nothing and
leaves the letter to be printed as text), `PrintRest` (a directive it does not know: the
rest of the format is put as it is), `PutNext`, `PrintReturn`. `MaxRow` bounds how far the
cursor is followed after it has left the screen.
`Serial` has the 16550 (external: the latch bit, the queue, the bytes waiting) and a stack
of printers, `kernel_main` first. `serial_init`'s seven writes are a step each. `Scan`
takes a directive, `Test` is the loop of `write_serial` that finds the transmitter empty,
`Write` the byte that follows; `Interrupt` and `Fault` put a handler on top between any
two of these. As in `Interrupts`, what a handler takes for its number is any word.
`Console` has the three together. They share no state, so it runs the byte loops, then the
terminal or the port, and never interleaves one part with another: every order of the
calls of two of them is the product of two behaviours that are already there.

## 3. The runs

| run | what it asks | instance | distinct states |
|---|---|---|---|
| `spinlock` | one holder, no lost update, truthful word, refinement of `Mutex`, release and progress | 3 threads, counts modulo 3 | 112 384 |
| `heap_threads` | no leak, `realloc`'s copy in bounds, a `calloc` without memory clears the kernel, refinement of `AbstractHeap` | 2 threads, runs of 2 pages of 4 bytes, sizes 1, 4, 7, 12 | 292 224 |
| `heap_calls_return` | with everyone in a call, some call returns or the system stops | 2 threads, one run of 3 pages, sizes 1, 4, 12 | 5 924 |
| `heap_release` | tiling, merged neighbours, sound lists, counts, the reason for a stop, growth only when full | 1 thread, three runs of 2 pages, sizes 1, 4, 7, 10, runs do go back | 292 318 |
| `paging` | truthful bitmap, nothing overlaps, directory halves agree, refinement of `FramePool`, whole ranges | 6 bitmap bits, pages of 4, tables of 14 entries, 4 ranges | 292 365 |
| `console` | the byte loops refine the library; output on the screen, `printf`'s count and end; no byte lost, text whole, lines end | 5 bytes, words of 2; a screen of 2 by 3; 6 formats, `INT_MAX` 4; 4 formats on the port; handlers 3 deep | 249 603 |
| `interrupts` | gates and segments at `sti`, no nesting, acknowledgement, stack balance, the timer taken | vectors 0, 8, 14; lines 0, 3, 9; 4 words; 2 handlers deep | 183 600 |

and five runs that end in a counterexample, each stating what a comment, header or test
says (section 6).

**Why these bounds.** Three threads are one inside and two contending, which is what
any race over one word needs, and the guarded counter wraps. Two heap threads are enough
for one to stand between another's two lock sections; the heap has room for two runs of
pages, so that growth, failure to grow, splitting with both neighbours, melting in both
directions and every list of more than one block happen; the third run of pages in
`heap_release` is what lets `MaxComplete` be exceeded and pages go back. Every heap instance
has the layout of the kernel: the image from address 5 on, a page and a tag before the heap
starts, and a heap that ends past page table 0 by what lies below it. So `malloc` runs past
the table before the heap is used up, only the largest size is ever refused, and each of
the three reasons for a stop occurs. `MaxExp` is small enough that the last list is used. The paging instance has a kernel that ends past
the bitmap (as the real one does), frames that do not fill a page (as the real frame
array does not), a field narrower than an address, ranges within a page, over several
and out of the first table, and few enough bits that the bitmap fills. The byte
loops need a memory in which two regions of three bytes overlap by two, by one and not at
all, and lengths that are no multiple of a word; every content of it is an initial state.
The screen has fewer rows than the cursor is followed for, so that full rows, newlines and
the two together reach the last row in every order. The formats have every directive next
to text, next to another and at the end, and texts of exactly `INT_MAX` characters and of
one more, the last directive or run fitting in part included. Numbers on the port are bytes as unsigned ints: 0, both signs, the most negative
one, and both bases. Three printers deep is a fault inside a line's handler.
`Interrupts` needs
a line of each controller, one behind the cascade, exceptions with and without an error
code, and words that are an exception's number, the timer's, the second controller's and
no vector's; depth 2 is a fault inside a handler, and the theorems cover any depth.
Constants not listed keep the proportions of the code; the `.cfg` files say them.

**Where the system really stops.** `CHECK_DEADLOCK FALSE` is stated for the runs in
which a page fault, a write over the kernel, a full bitmap, or `fault_handler`'s endless
loop ends the behaviour.

**Fairness.** `SpinLock`: buffers drain, handlers return, and a thread with instructions
left executes them although it is interrupted again and again (strong fairness), since
handlers are shorter than the period of their interrupt; nobody is obliged to call. No
waiter is promised the lock: the code has no queue, and only "a free lock is taken by
somebody" is claimed. `Liballoc` (`heap_calls_return`): a thread inside a call keeps
running, into its fault if that is next; only that one of the calls returns, or that the
system stops, is claimed. `Interrupts`: `kernel_main` and
a handler under way keep running; line 0 has the highest priority and the processor looks
at its lines after every instruction with interrupts on, so requested often enough it is
taken (strong fairness of that delivery only). A handler that itself faults may do so for
ever, since `fault_handler` may return to the faulting instruction; `TimerTaken` says so. `Console`: `printf` on the screen waits for nothing, so its steps are
weakly fair. On the port a byte leaves in a fraction of a millisecond and lines are raised
milliseconds apart: handlers on top keep running and bytes keep leaving (weak fairness),
and `kernel_main`, though it is interrupted again and again, has bytes leave and takes
steps in between (strong fairness). Faults come from the code that runs and not from a
clock, so one may follow another for ever; `LineEnds` excepts that.

Every property of a passing run has a mutant: an alternative definition in the module
(marked "Mutant") with a plausible mistake in that code, under which the run fails.

## 4. What is proved

The proof modules are checked by tlapm to the last leaf. They hold
for every value of the constants that meets the named assumptions.

**SpinLockProofs** (assumes `WordAssumption`): type correctness, `OneHolder`
(mutual exclusion for any number of processors), `UpdatesSurvive`, `WordTruthful`, and
`LockImplementsMutex`. Mutual exclusion alone is not inductive: a store delayed in a
buffer could free the lock under a later holder. `IInv` says what each thread's buffer
may hold at each program point (`ThreadInv`): empty while it polls or is inside, and
on leaving, at most its data store followed by the unlocking store; so whoever succeeds
in `xchg` finds every other buffer empty.

**LiballocProofs** (assumes `SizeAssumption`, `HeapAssumption`, and for the last two theorems
`LayoutAssumption`): type correctness,
`BlocksTile`, `NeighboursMelted`, `ListsSound`, `CountsExact`, `CopiesInBounds`,
`NothingLeaks`, `HeapImplements`, `SearchesAll`, `StopsAreExplained` and
`RefusedCallocsOverwrite`, for any number of threads and any sizes of tags, pages, heap and exponents. With these every safety
property of the heap's runs is proved. None of
these properties is inductive alone. `IInv` has three layers:
- `Sound`, the heap between two steps under the lock: the lists (`Chains`, `Acyclic`), the
  links between neighbours (`Mirrored`), the places (`Tiles`), no two free neighbours
  (`Apart`), and `Counted`. Each C helper is first reduced to what it does to each tag
  (`Inserted`, `Removed`, `Joined`, `Cut`, `Sized`, `Added`, `Dropped`), and each such change
  shown to keep `Sound`; the actions compose them (`TakeHeap`, `GrowHeap`, `MeltHeap`,
  `AbsorbHeap`, `PutHeap`, `ReleaseHeap`).
- `LockInv` and `OwnInv`: the tags on no list (`Out`) are divided among the callers (`Lent`)
  and the calls under way (`Mine`), each with one owner. A step of one thread then cannot
  change what another relies on outside the lock (`LocalKept`), which is what `realloc`'s
  copy needs.
- `LocalInv`: what each call's locals mean at each of its points, such as that the tag a
  search looks at is on the list of the size it looks for.

That no list has a cycle, and that a search misses no block, are stated with sets closed
under the links, which needs no induction along a list: any set with the tag the search
looks at and closed under `next` has every block that would do (`Search`). `HeapImplements` rests on
blocks in use being those a caller or a call holds (`InUseOwned`), so that only what t and
its caller hold decides what t's step hands out or takes back (`InUseMoves`).

`StopsAreExplained` looks at the addresses of headers instead of their owners.
- `Spaced`, a part of `Sound`: from the start of a run of pages to a place where a run ends
  it is at least `l_pageCount` pages. Each change of the tags keeps it, also the melting of
  two runs into one, so whole runs are long and lie apart (`RunsFit`), and when `free` lets
  one go because MAXCOMPLETE others are on the last list, the heap holds more than
  MAXCOMPLETE of them (`ManyWhenCrowded`).
- `Mapped`: until a run went back, every page of table 0 is present and what was obtained
  lies on it. Every header a step touches is inside what was obtained (`HeadersInside`), and
  so is every block it copies or clears (`BlockUsable`). None of these addresses is below the
  heap, so only a write through NULL can reach the kernel, and nothing else is left to stop
  at (`AllGo`).

`RefusedCallocsOverwrite` is about the third reason. What was obtained lies on page table 0
(`Mapped`), and HEAP_SIZE is what that table maps, so from `heap_cur` to the heap's
end there are at least as many bytes as lie below the heap. A run of pages `malloc` refuses
is longer than that (`RefusedIsLong`), which is more than the least run and is made for the
request alone, so the request is longer than everything below the kernel, whose image begins
more than a page and a tag below the heap (`BytesBound`). `Refused` carries this from the
step that returned NULL to the one that clears. `exhaustion_halts` is an instance of the
second reason.

**VmmProofs** (assumes `PmmAssumption`, `VmmAssumption`, `UnalignedAssumption`, and for
the last three theorems `TablesAssumption`): type correctness, `BitmapTruthful`,
`NoFrameAtGranted`, `ManagersImplementPool`, `DirectoryHalvesAgree`, `NothingOverlaps`,
`RangesWhole`. With these every property of the paging run is proved. The argument is
arithmetic: with `placementaddr` off a page boundary, above the frame field's range and
far enough from the end of the address space (`Positioned`), the bit `kfree_page_frame`
reckons is the one the frame was taken for (`FrameIndex`), and the bit reckoned from a
truncated field is outside the bitmap (`FieldIndex`). `IInv` says that boot ends in such a
position and that set bits are those reserved or out. `UnalignedAssumption` is the
accident the code depends on: the frame array's size is no multiple of the page size.
`TablesAssumption` is that a table fills at most a page and half a directory whole ones
(1024 entries of 4 bytes each), so that tables and `cr3` lie on page boundaries and the
two halves cannot disagree (`DirectoryInv`). `NothingOverlaps` rests on an accident too:
a table placed when frames are out lands on the frame of bit 0, and that is the one bit
`pmm_init` always sets (`PlacedInv`, `FrameExact`, `FrameAbove`). `RangesWhole` follows
the page a region call is at along its range, in bytes (`RegionInv`, `PageSteps`).

**InterruptProofs** (assumes `InterruptAssumption`): type correctness, `TablesReady` (the
gates, the flat code and data segments behind their selectors, and the controllers'
vectors), `HandlersDoNotNest`, `LinesAcknowledged`, `StackBalanced`, for any exceptions that
ring 0 can raise, any devices, any words in memory and any depth. `IInv` adds what is installed
after how many of `kernel_main`'s calls (`BootInv`), and of each frame that it has two
words, that its stage fits its vector, and that only the outermost interrupted code with
interrupts on (`FrameInv`); the last is what keeps an acknowledgement from being for
another handler's line. Exceptions 17, 21, 29 and 30 are excluded: their stubs push a
dummy although the processor pushes an error code, but they need user mode, a feature this
kernel does not turn on, or a hypervisor.

**StringsProofs** (assumes `StringAssumption`): `LoopsImplementLibrary`, the refinement of
`StringLibrary` for every size of memory, byte and word, and type correctness. One
invariant per loop says what of the memory is already as promised and what is still as it
was when the call was made: for a loop that goes up, the bytes below the index are the
old ones of the source and every byte from there on that will be read is untouched, which
is where the regions' order comes in; for `memmove` down, the mirror image. The recursion
is the loop, so no induction over data is needed.

**FormatsProofs** (assumes `LettersAssumption`): lemmas about formats put together from any
number of pieces: the characters, parameters and texts of a format are those of its first
piece and then those of the rest. Induction on the number of pieces is stated with the set
of the numbers that have the property, which has a least element if it is not all of Nat
(`LeastNatural`, `SetInduction`); a lemma then needs no operator as a parameter.

**TerminalProofs** (assumes `TerminalAssumption`, `LettersAssumption`, `FormatAssumption`):
`PrintedOnScreen`, `PrintfKeepsPromise` and type correctness, for every size of screen, every
INT_MAX and every text and format. `CursorInv` is that as long as no newline came on the
last row, row and column are inside the screen; equality with the height is then enough. `PrintInv` is the strengthening
of `PrintfPromise`: what a call has put, what it is putting and the text of the pieces ahead
of it make up the text of the format, and `written` counts the first two; a piece printf
does not know is the one case in which the rest is put as it is. The pieces ahead are an end
of the format's that begins with a directive or behind one (`FreshEnd`), so where a call
fails, nothing is put of the directive or the run of plain characters that did not fit.

**ConsoleProofs** (assumes also `SerialAssumption`: the transmitter's queue holds at least one
byte for each printer on top of another; `NumberAssumption`; `PrintsAssumption`):
`BytesAreSent`, `TextsAreWhole` and type correctness of the port, for any formats, any width
of a word and any depth. `PortReady` is what `serial_init` has reached after how many of its
writes. `RoomLeft` is the strengthening of `NoByteLost`: whoever is between test and write at
depth k found the transmitter empty when only those above it could still write, so at most
MaxDepth - k bytes are waiting; a printer higher up that tests again has found it empty
again. `TextInv` says of every printer on the stack that what it has put, the characters in
hand and the text of its remaining pieces (`ToPrint`) are its format's text. The number among
them is right because `itoa`'s digits, turned round, are the numeral for every number and base
(`ItoaIsNumeral`, by induction on the number). `PartsRun` says that every behaviour of
`Console` is one of each part, from which `ConsoleSafe` follows.

## 5. Only model-checked, and why

Liveness (`LockIsReleased`, `FreeLockIsTaken`, `SomeCallReturns`, `TimerTaken`,
`PrintfReturns`, `LineEnds`) and anything about ENABLED is outside this prover's reach. Every
invariant, action property and refinement that the passing runs check is stated by a theorem.

Not modelled: contents of blocks and frames; access rights and the TLB; sizes from 2^31 on
in the heap; what the system does after its image has been overwritten; what a set bit past the bitmap does to the variable it hits, other than to
`placementaddr`; spurious interrupts and line masks (irq_remap opens all lines);
`terminal_setcolor`, `read_serial`, the port functions of 16 and 32 bits and `vsprintf`
into memory, which nobody calls; timer.c, which is not in the repository; the multiboot
header and the build scripts.

Met while modelling and left as they are, since nothing says otherwise or nobody depends
on it: a width such as `%08x`, which a comment at serial.c:123 mentions, prints the number
at the 0 and then "8x" as text; an unknown directive, `%%` included, prints nothing on the
port; a format that ends in a lone `%` is read past its end there; a newline on the screen's last row
takes the cursor behind the screen (`OnScreen` holds until then).

## 6. Where the code and what is said of it differ

- `release_unmaps_a_page_more`: `liballoc_free` unmaps one page more than it is given
  (rise.c:46, vmm.c:169 against liballoc.h:76).
- `realloc_failure_frees`: a `realloc` that gets no memory frees the old block
  (liballoc.c:506 against liballoc.h:84). A `calloc` that gets none does not get that far
  (`CallocNeverFails`).
- `exhaustion_halts`: growing past the first page table stops the system, in the test
  `use_all_mem` too (vmm.c:96 against kernel.c:63-67).
- `virt_phys_shifts_the_frame`: `virt_phys` shifts the frame number right
  (vmm.c:82 against vmm.c:60).
- `handler_of_another_number`: a line's handler is not the one that runs, because the
  stubs push memory (boot.S:411 against irq.c:87; irq.c:80 and kernel.c:87 report the
  symptoms).

## 7. What could come next

- Heap sizes of 2^w, with the overflow of `size + sizeof(tag)` (liballoc.c:239, rise.c:30).
- `free_page`'s stray store at its real width, and the heap word it hits.
- Widths and unknown directives on the port, once the code says what they should print.
