# A TLA+ model of the Unnamed kernel

*Unnamed* is a small x86-64 kernel in C++: Limine boots it, it brings up its memory
allocators, a `malloc`, ACPI tables, clock sources and the interrupt topology, and then
halts in an idle loop.  This directory holds TLA+ modules for the parts of it that keep
state, TLC configurations that check them on small instances, and TLAPS proofs of the
properties that matter most.  Paths below are relative to `src/kernel/`.

## 1. Inventory

| Part | State | Operations | Meets |
|---|---|---|---|
| Boot (`kernel/core.cpp`, `kernel/percpu.cpp`) | per-CPU block, `GS_BASE` | `kernel_main`, `set_error` | everything, in a fixed order |
| Physical memory (`mm/pma.cpp`) | `m_head`, a list of `FreeBlock`s kept inside the free memory | `init`, `alloc`, `free`, `coalesce` | boot loader's memory map; page tables; heap glue |
| Page tables (`mm/vmm.cpp`) | the four levels of tables in physical pages | `map_virtual` | takes tables from physical memory |
| Virtual ranges (`mm/vma.hpp`, `mm/vma.cpp`) | `nodes_`, `free_stack_`, `head_`, `lock_` | `init`, `alloc_pages`, `free`, `free_pages_total` | nodes beyond the pool come from the heap |
| Heap glue (`mm/heap.cpp`) | `heap_base`, `heap_size`, `heap_top`, `is_initialized` | `mmap`, `munmap`, `sbrk`, `init_heap`, `new`, `delete` | all three allocators below it, dlmalloc above it |
| dlmalloc (`lib/dlmalloc/malloc.c`, vendored) | chunks with boundary tags, fastbins, bins, binmap, top | `malloc`, `calloc`, `realloc`, `memalign`, `valloc`, `pvalloc`, `independent_*`, `free`, `malloc_trim`, `mallinfo`, `mallopt` | calls `sbrk`, `mmap`, `munmap` |
| Containers (`lib/vector.hpp`, `lib/string.hpp`) | `data_`, `size_`, `capacity_` | `push_back`, `reserve`, `insert`, `erase`, copies, moves | `operator new`, `operator delete` |
| Clock sources (`drivers/`) | `sources`, `best`; `mult`, `shift`, `mask` of each | `register_clocksource`, `init`, `read_delta`, `cycles_to_ns` | ACPI tables, `new`, `Vector` |
| Interrupt topology (`kernel/irqs/irqs.cpp`) | four `Vector`s | `load_entries` | ACPI tables |
| ACPI glue (`acpi/`) | port windows, locks | `uacpi_kernel_*` | heap, spinlock, port I/O |
| Interrupt entry (`arch/x86_64/`) | the stack frame, IDT, GDT | 256 stubs, `isr_common`, `interrupt_handler` | `hcf` |
| Memory routines (`lib/memory.cpp`) | none | `memcpy`, `memmove`, `memset`, `memcmp`, `strlen` | |

The kernel runs on one CPU and with interrupts disabled for the whole of its life
(`kernel/core.cpp:35-37` idles with `cli; hlt`, and nothing executes `sti`), so its code is not
interleaved with itself; only exceptions and non-maskable interrupts come between its steps.
What is hard is *failure half way* and *re-entry*: an allocator
takes several steps, each may find that memory or nodes have run out, and what was done
by then stays done; and the allocators call each other (`malloc` - `sbrk`/`mmap` - physical
pages, page tables, virtual ranges - and from there `new` again).

What makes each part correct:

* **Virtual ranges.** No page is handed to two callers; list and callers agree on what is
  allocated, also after a call that failed between two splits; list nodes are neither lost
  nor used twice; a range that was handed out can be given back; first fit.
* **Physical memory.** Blocks never overlap each other or a page that is in use, and stay
  inside the usable regions; a page given back is free again.
* **Page tables.** A mapping changes one translation and no other; a table page is used for
  one table only, and never also handed out as memory.
* **Heap glue.** What `sbrk` and `mmap` return is mapped; a failure is reported the way
  dlmalloc expects; a failed call loses nothing; freeing memory does not stop the kernel.
* **dlmalloc.** The chunks tile the heap and each is in one place; what is handed out is large
  enough, aligned and the best fit; the system is asked only when nothing else is left.
* **Containers.** Every element constructed is destroyed once, every buffer is released once.
* **Clock sources.** The best rating wins; time derived from cycles does not go backwards;
  deltas survive a counter wrap.
* **Interrupt topology.** The walk ends and reads inside the table.
* **Interrupt entry.** The frame matches `Registers`, returning undoes it exactly, and what an
  exception has interrupted does not go on.
* **ACPI glue.** Port accesses stay in their window; handles name objects that exist.
* **Boot.** Each step finds what it needs, and the boot comes to an end.

## 2. Plan

Most important first: the allocators, since everything else stands on them and since
they are where several parts share state.

1. *Done and proved.* `PageReservation`, `VAddrAllocator` (virtual ranges).
2. *Done and proved.* `FreeListAllocator` (physical memory), which implements
   `PageReservation` too.
3. *Done and proved.* `AddressSpace`, `PageMap` (page tables).
4. *Done and proved.* `KernelHeap`: the composition of `mmap`, `sbrk`, dlmalloc's system
   layer and the three allocators.
5. *Done, not proved.* `BlockStore`, `Dlmalloc` (the heap's chunks).
6. *Done and proved.* `Lists`, `Containers` (`Vector<String>`).
7. *Done and proved.* `Clocksource`.
8. *Done and proved.* `Interrupts`, `AcpiGlue`, `Boot`, each of which extends the one before:
   the boot as a whole, with uACPI's calls, the MADT and interrupts at any point.

"Proved" is all that a run checks of the module but liveness.  `Dlmalloc` stays with TLC (section 6
says why); a proof about it would begin with what one call of `take`, `coalesce` or `use_top` does
to the chunks.  No module uses a RECURSIVE operator.

## 3. Modules and the code

Conventions.  A call is a sequence of actions: one that starts it (`Call...`) and one for
each round of its loop or branch of its code, with the C++ local variables as TLA+
variables, reset by `Return`.  In `Dlmalloc` and `Containers`, where nothing can come
between the steps of a call, a function of the code is an operator from one state to the
next and a call is one action.  Addresses and sizes are counted in pages (in `KernelHeap` and
`Dlmalloc`, in granules of `malloc`).  Variables under "History" record what callers know from
return values; no action of the code reads them.  Definitions named `X_Without...` or
`X_With...` (and `PushBackOwn_ByReference`, `LoadEntry_UntilUnknown` and others that an
underscore sets off) stand before `X` and are broken variants of it, each a plausible slip in
that code; no specification uses them, and each breaks one property when put in the place of
`X`, which shows that the property says something about `X`.

### `VAddrAllocator` (`mm/vma.hpp`), implements `PageReservation`

The fields of `Node` are functions over nodes, `live` are the nodes on the list,
`free_stack` is `free_stack_` up to its top.  `AllocSkip`, `AllocPad`, `AllocTrim`,
`AllocExact`, `AllocSplitFails` and `AllocFail` are the rounds and branches of
`alloc_pages`; padding and trimming are two splits and so two actions, with a state in
between that may turn out to have no node for the second.  `FreeSkip`, `FreeSplitRight`,
`FreeSplitLeft`, `FreeExact`, `FreeSplitFails`, `FreeReject` and `FreeMiss` are those of
`free`.  `new (std::nothrow)` may fail at any time.

### `FreeListAllocator` (`mm/pma.cpp`), implements `PageReservation`

`size` and `next` are the `FreeBlock` that the memory at an address holds.  `pred` is where
`current` points.  `alloc` keeps a page for the header of every block it takes from, which
the history variable `lost` collects.  `Slide` is `get_memory_slide()`; addresses wrap.  `BlockAddress` is where
`free` writes, the slide subtracted from an address that is physical.

### `PageMap` (`mm/vmm.cpp`), implements `AddressSpace`

`entry` is the contents of physical pages read as tables.  `Descend`, `AddTable` and
`AddTableFails` are the three outcomes of `ensure_table`; `WriteEntry` and `Flush` the end
of the call.  A page that has been free contains garbage that reads as present entries.
The processor loads its TLB with `Cache` at any moment.

### `KernelHeap` (`mm/heap.cpp` with `lib/dlmalloc/malloc.c`, `mm/vma.cpp`)

`pc` says which function runs.  `malloc` is served by `FromFastbin`, `FromBin` or
`FromTop`, or `Relay`ed to `sYSMALLOc`, which tries `mmap` (`Reserve...`, `MapPage`,
`MmapDone`, and the failures `ReserveFails`, `MmapNoPage`, `MmapNoTable`) and then `sbrk`
(`SbrkStart`, `MapPage`, `SbrkDone`; `SbrkRefuses`, `SbrkFails`).  `CallNew` is the
re-entry: the allocator of virtual ranges, its pool empty, calls `new` under its lock, and
`outer` keeps the request that waits.  `free` and what it does to the system are
`FreeFast`, `Free` and `FreeMmapped`.  The other modules are used as one step each:
first-fit reservation, one page or none from `alloc_page`, and `map_virtual` that may need
a table.  How the bins are split up is left open: any free amount may or may not serve a
request, and any part of it may border on top.  That admits more behaviours than dlmalloc
has, never fewer; `Dlmalloc` has the bins.  The levels of page tables are one here
(`tabled`).

`Fault`: dlmalloc puts its top at the address 0 that `sbrk` returned and writes the top's
header at address 8.  Page 0 is never mapped by the kernel or by Limine, so the write ends in
`interrupt_handler`, which halts.  Were it mapped, `malloc` would return address 16
instead; it would not return null either.

### `Dlmalloc` (`lib/dlmalloc/malloc.c`), implements `BlockStore`

`heap` is `malloc_state` with the headers that mean something: `size` of each chunk,
`prev_size` where the chunk before is free, `pinuse` the set of chunks whose PREV_INUSE bit is
set.  Operators have the code's names (`mALLOc`, `fREe`, `rEALLOc`, `mEMALIGn`,
`malloc_consolidate`, `sYSMALLOc`, `iALLOc`, ...), and the loops of `mALLOc` are operators of
their own (`sort` empties the unsorted bin, `search` is one pass over all bins).  Actions
`Call...` are the public calls, made by callers who free and resize only what they hold.
`sbrk` and `mmap` are as `mm/heap.cpp` has them: contiguous, and a failing `sbrk` or any
`munmap` halts.  A `size_t` counts `SizeLimit` words, and sums and products wrap (`Wrap`) where
malloc.c computes them unchecked: in `calloc`, `pvalloc`, `memalign` and the independent
allocations (section 7).  A wrapped `calloc` or `pvalloc` hands out a sound chunk that is too small,
and is a call like any other here.  In `memalign` and `independent_*` a wrapped sum has the function cut
pieces from a chunk that is smaller than they are; what it does to the memory behind is beyond a model
of chunks, so `PaddingFits` and `PiecesFit`, named as bounds, have callers not make such a call.
`do_check_...` are malloc.c's own debugging checks, which its DL_DEBUG build
runs and this one leaves out.

### `Containers` (`lib/vector.hpp`, `lib/string.hpp`), implements `Lists`

A buffer of the heap holds a text or the slots of a vector; a String is its `data_`.
`Reserve`, `PushBack`, `PopBack`, `Insert`, `Erase`, `Exchange`, `Assign` are the members'
bodies, element by element, with `Repeat` for their loops; the parameter that `operator=` takes by value and the vector it
leaves behind is `Temp`.  `operator new` returns null when the heap is full, and nothing
tests that: the first write through it faults, and the handler halts.

### `Clocksource` (`drivers/`)

`TscInit`, `HpetInit`, `AcpiPmInit` and their `...None` are the branches of the three `init`
functions, `Select` the end of `clocksource::init`.  What firmware and hardware report is an
input.  `uint32_t` and `uint64_t` are `W` and `2 * W` bits wide, so that a small `W` wraps.  The
kernel does not call `ktime::now` and `read_delta` yet; both are state functions here, and the
counter ticks under them.  `NowIsAccounted` is a balance and has no precondition: each way in which
time is lost (`Overflown`, what `FractionKept` leaves of a second, the counter's wraps) has its term,
and what these leave unexplained is less than two roundings.  `DeltaIsElapsed` has `WrapCounted`,
by how much a 24-bit timer under a 32-bit mask is off.

### `Interrupts` (`arch/x86_64/`), `AcpiGlue` (`acpi/`), `Boot` (`kernel/`)

`Interrupts`: `Take` is the processor's part, which aligns the stack and pushes its frame; `Push` is one
push of the stub or of `isr_common`, `CallHandler` the call, and `Pop`, `Drop` and `Iretq` the way
back.  A word says of which register and of whose it is a value; `Field` reads it as `Registers`
does.  Between any two of these steps a non-maskable interrupt may be taken, unless one was and no
`iretq` was executed since (`masked`); the instructions of the stubs raise no other exception.  While
`masked` nothing can come between the pushes, and `Push` is all that are left at once.  `ds` and `es`
go through `rax`.  Handlers clobber what the calling convention lets them.

`AcpiGlue`: `objects` is what uACPI was given, `handles` what it still holds.  A full heap is no null
pointer but a page fault (`Make`; `NullWhenExhausted` in section 7), null only the answer to a size
out of range; and `free` may halt (`FreeNeverHalts`).  uACPI is a
submodule whose contents are not in the repository; it makes any call, and is assumed only to
use handles it holds, to free no lock that is held, and not to ask for a lock it holds itself.

`Boot`: `pc` is the next statement of `kernel_main`, and each is an action; `hcf` is
`hlt = TRUE`.  A null pointer that is read or written is a page fault like any other
(`Fault`): the bootloader's answers for the direct map, the kernel's address and the RSDP are
read untested, that for the memory map is asserted.  `LoadEntry` is a round of `load_entries`;
`table_entries_size` wraps for a table shorter than its header, and the walk then goes on to memory that
is not mapped.  The allocators, the heap and the clock
sources are one step each, since their modules have the steps.

## 4. Runs

| Run | Bounds | Shows |
|---|---|---|
| `vma` | 5 pages, 2 pool and 2 heap nodes, alignments 1 and 2 | the list, the pool and the callers' view agree at every step of every call; calls return; `PageReservation` is implemented |
| `pma_list` | 8 pages in 4 entries, two of them adjacent | no page is lost or shared, 0 only means failure, coalescing keeps runs and ends; `PageReservation` is implemented |
| `pma_free` | direct map at 48 of 64, an entry at 0 | *violated*: giving a page back faults |
| `vmm` | 3 levels of 2 entries, 5 frames, 3 addresses | tables form a tree apart from all other memory; the TLB is not stale; calls return; `AddressSpace` is implemented |
| `heap_calls` | 10 pages of range, heap of 4, 9 frames, one pool node | what is handed out is mapped; dlmalloc's books match the kernel's; nothing leaks; calls return or halt |
| `heap_exhausted`, `heap_free` | the same | *violated*: see section 7 |
| `dlmalloc` | heap of 10 granules, sizes of 128 words, requests of 3 to 125 words, one mmapped chunk, 2 blocks held, 2 small and 2 large bins | the chunks tile the heap, malloc.c's checks hold, what is handed out fits, the best fit is taken; `BlockStore` is implemented |
| `dl_independent` | heap of 10 granules | *violated*: see section 7 |
| `clock` | words of 4 and 8 bits, 40 cycles, every combination of sources | the best source is selected; what time and differences lose is what the widths account for |
| `containers` | 2 vectors of up to 3 texts, 5 buffers | elements and buffers are owned once; `Lists` is implemented |
| `boot` | 10 machines, interrupts 2 deep, 2 calls of uACPI, 2 objects, 4 entries | each step finds what it needs; frames are true and undone, interrupts between two pushes or pops included; ports stay in windows; every MADT entry is filed; the boot ends |

The larger invariants are conjunctions of named parts, which the text refers to by name:
`CallersView`, `MemoryAccounted`, `TablesApart`, `HeapAccounted`, `HandedOutFits`,
`SelectionSound`, `Ownership`, `BootOrder`.

Why the bounds are enough.

* With five pages a block can have a neighbour on both sides and still be cut twice; with two
  pool nodes the pool runs out after one split, so that pool nodes, heap nodes and failure
  all mix.
* The memory map of `pma_list` has blocks that can merge, blocks that cannot, and a block
  that `coalesce` reaches only after another merge.
* Three levels of tables have a first, a middle and a last one; two of the three addresses
  share a table below the root, and five frames run out on the way to the second.
* In `heap_calls` nine frames are few enough to run out in every loop, the requests are fast,
  large, larger than the range and negative as a `long`, and the heap, the range and the pool
  each run out while the others do not.
* In `dlmalloc` the requests are for a fastbin, a small bin, a large bin, for mmap, and out of
  range; `calloc`'s products are in range, out of range and wrapped, and `pvalloc` rounds the largest
  request up to 0; consolidation, trimming, the mmap limit and the end of the heap all fall within
  ten granules.  Two chunks held are enough for free ones before, between and behind them, and for
  each kind of neighbour; an independent allocation that also asks for an array would hold a third, and
  is checked for what it hands out in every state (`RoomForRequests`).  Not reached: a large bin that
  holds chunks of two sizes.
* In `containers` three elements grow twice (capacities 2 and 4), and two full vectors need more
  than five buffers, so every operation meets a full heap; five are enough to copy one.
* In `clock` a product of cycles and multiplier leaves eight bits, every counter wraps, and
  there are frequencies that fit four bits, that are cut, and that are cut to 0.
* In `boot` one interrupt arrives within another's handler, or within its stub between any two words;
  the windows' sums wrap and do not; of the machines one is good, and the others lack the memory map,
  the direct map's answer, the kernel's address, the RSDP, room for the heap, memory that ends on a
  page with a whole last entry, memory below the kernel with a MADT as long as its header, an entry's
  length, and the MADT.

`pma_list` puts the direct map at half the address space.  The code takes any
`get_memory_slide()`; there the two subtractions of section 7 cancel, and the list surgery of
`free` and `coalesce`, which any other slide makes unreachable, is checked for what it would do
once that is corrected.  `pma_free` has a slide as boot loaders provide it.  The runs with
`CHECK_DEADLOCK FALSE` are those in which the processor may halt, or, in `clock`, the bounded
counter stops.

Fairness.  In the allocators' modules it is `WF_vars(Step)`: a call that has begun goes on.  The
kernel has one processor, interrupts are off, and nothing preempts it; callers are not
obliged to call.  In `Boot` interrupts do come between the steps, so a step may be interrupted
and enabled again any number of times, and weak fairness would not do.  The processor executes
at least one instruction between the return from an `int n` and the next one, so the step
that is interrupted time and again does get taken: strong fairness of the kernel's steps and of
the handlers' ends, for each depth.

`FirstFit` is stated for executions in which no split has failed for want of a node
(`starved`): a failed second split leaves two free neighbours unmerged for good, and a run
of pages across them is not found.

## 5. Proofs

Each proof module proves of its component, for every value of the constants that the named
assumptions admit, the properties that the component's run checks on one.

| Proofs | Of | Theorems and the properties they state |
|---|---|---|
| `VAddrAllocatorProofs` | `VAddrAllocator` | `TypeCorrect`, `ListAlwaysTilesRange`, `PoolNodesAlwaysAccounted`, `UsedIsAlwaysHeld`, `CallersAlwaysServed` (`CallersView`), `Implementation` (of `PageReservation`) |
| `FreeListAllocatorProofs` | `FreeListAllocator` | `AccountsAreKept` (`MemoryAccounted`), `RunsAreKept` (`MergingKeepsRuns`), `Implementation` (of `PageReservation`) |
| `PageMapProofs` | `PageMap` | `TablesStayApart`, `TlbFollows`, `Implementation` (of `AddressSpace`) |
| `KernelHeapProofs` | `KernelHeap` | `EverythingIsMapped` (`HandedOutIsMapped`), `TopAlwaysMeetsBreak`, `LockIsTakenOnce` (`NoSelfDeadlock`), `GrowthIsAlwaysNeeded`, `NothingIsLost` (`MemoryAccounted`) |
| `ClocksourceProofs` | `Clocksource` | `Selection`, `NowLosesOnlyThis` (`NowIsAccounted`), `DeltaIsAlwaysElapsed` |
| `BootProofs` | `Interrupts`, `AcpiGlue`, `Boot` | `FramesTruth`, `Returns` (`ReturnsWhereTaken`), `Order`, `HeapPlaced`, `PortsOfTheWindow`, `NothingElseLeaks`, `EveryEntryCollected` |
| `ContainersProofs` | `Containers` | `OwnershipHolds`, `ListsImplemented` (`ImplementsLists`) |

`NumberTheorems` has what they share: induction over numbers and definition by recursion, quotients
and remainders, powers of two.  The prover has induction only as a theorem with an operator for
a parameter, which its back ends cannot instantiate; here induction is over a *set* of numbers
(`NumberInduction`, from the least element of its complement) and recursion over a *function* of
steps (`Recursion`), so that both can be cited.

### The inductive invariants

**Virtual ranges.** `IInv == FieldsOK /\ StackAccounted /\ ListTilesRange /\ UsedIsHeld /\ CallOK
/\ HistoryOK`.  `ListTilesRange` alone is not inductive.  A split keeps it only if the node taken is
not on the list, so `StackAccounted` ties the pool's stack to the list; coalescing keeps it only
for a cursor on the list whose range contains the request, so `CallOK` says what each loop
knows of its cursor; and that the range marked used is the one returned needs `UsedIsHeld`.
`CallersView` needs `CallersInv` besides: that free neighbours are always merged unless a split has
failed (`Merged`), that `free`'s cursor has not passed the node it looks for (`NothingPassed`), and
that a range as it was handed out still stands, in a node of its own, until a `free` cuts it
(`IntactStand`); `FirstFit` then is inductive.  `FreeTotalIsRest`, a sum along the list, is proved by
induction over addresses: from a node on, the sum is the number of unused pages behind its start.

**Physical memory.** `IInv == TypeOK /\ ListOK /\ AccountOK /\ CursorsOK /\ ZeroMeansFailure`.  The
list is a *chain*, an injective sequence of addresses that the links follow; four lemmas say what
pushing, replacing and unlinking a block do to it, and `NearHoldsList` that `Blocks`, which follows as
many links as there are pages, is the set of the chain's elements (a list in finite memory without
repetition is no longer than that memory).  `AccountOK` is `PagesAccounted` at any moment of `init`:
the usable pages *of the entries pushed so far* are in one block, in use or lost.  What makes a write
of a header safe is then that its page is in none of the blocks on the list.
`MergingKeepsRuns` follows because a block that `CoalesceMerge` unlinks is not `a` itself and
starts where `a` ends.

**Page tables.** `IInv` has that each frame is free, owned or a table, and only one of these
(`EachFrameOnce`); that the tables form a tree (`IsTree`) whose upper entries grant every right
(`GrantAll`); how far down `map_virtual` has come (`CallOnItsWay`); and that the TLB is behind
only with the page just written (`TlbTracks`).  Walks are a recursive function
over levels, and lemmas by induction over them say that adding a table or writing a last-level entry
changes one walk only.

**Kernel heap.** `IInv` joins what dlmalloc knows of its memory (`AmountsInv`), how far a call has
got (`ControlInv`), who holds the lock and what it waits for (`LockInv`), that ranges are apart
(`RangesInv`), what is mapped so far (`ProgressInv`) and where every frame is (`AccountInv`, unless
a growth is bound to fail: `Doomed`).  That a nested `new` never comes to `mmap`, and so
never to the lock again, rests on a node being small (`NodeSize <= MaxFast < MmapThreshold`).

**Clock sources.** `SourcesInv` (who has registered when) and `SelectionInv` (who was chosen, and that
`cycle_last` is what the counter showed at the last update).  `NowIsAccounted` is arithmetic in three
lemmas: the multiplier cut to its low bits is the scaled fraction of a second per cycle rounded down
(`FractionIsKept`), a product cut to its low bits lacks a multiple of `2^32` after the shift
(`OverflowIsMultiple`), and of the two roundings the first loses less than one part of `mult` for each
cycle, the second less than a nanosecond (`TwoRoundings`).

**Boot.** `StackInv`, in `CpuInv`, has the stack as a pile of frames, of which those not yet pushed whole or
already popped in part are whole *up to their limit*: `FrameAt` says of a stack, an interrupt and a limit
that every word of the interrupt's frame below the limit is the right one, and `Lim` is where the next
interrupt came, or the top of the stack.  The words above it are still in the registers, which every
return restores.  `OrderInv` what each statement of `kernel_main`
has set up; `GlueInv` uACPI's objects and handles; `WalkInv` which entries of the MADT
have been read, by the sum of the lengths before them, and that the walk ends only behind
`table_entries_size`.

**Containers.** A call is one action, so the invariant is about the steps *within* it.  `Sound(h, d, E)`
says of a heap and of the vectors' fields that each buffer has one owner: a vector's `data_`, a String in a
slot below `size_`, or the operation under way, which holds the buffers of `E`.  For each step
(`operator new` and `delete`, a slot written, a size or a buffer changed, two vectors exchanged) a
lemma says what it passes from one owner to another and what the vectors then say; each loop is an
induction over its rounds, with `E` empty between them.  `IInv` is that some `E` makes the state sound,
and that it is the empty one unless a call has halted.  `ListsImplemented` has a lemma
per call: it halts with every vector saying what it said, or what the vectors say is what the call of
`Lists` makes of it; `v = v`, `v = std::move(v)`, `swap(v, v)` and `v.push_back(v[i])` are cases of it.

### What the theorems assume

Constants are assumed to be what the code or its environment makes them; TLC evaluates every
assumption in the runs.

* `VAddrAllocator`: a page and a pool node at least; heap nodes and `nullptr` are no pool nodes;
  requests and alignments are positive.
* `FreeListAllocator`.  `EntriesAssumption`: usable entries overlap no other, as Limine's protocol
  promises, and none is empty.  `AddressesAssumption`: physical memory is mapped in one piece that does
  not wrap and has no null.  `FreeAssumption`: `free`, which subtracts the slide twice (section 7),
  reaches nothing mapped with any page, or the slide is half the address space.  Limine's slide has
  the former: the addresses computed are not canonical, and every `free` faults.  The latter is
  `pma_list`, where `free` does what it is meant to; so the theorems speak of both.  A slide under
  which `free` would write into *other* memory is excluded, and nothing could be proved of it.
* `PageMap`: at least one level, two entries to a table; frame 0 is not handed out.
* `KernelHeap`: `NodeSize <= MaxFast < LargeSize <= MmapThreshold`, `TopPad + PageSize <=
  MmapThreshold`, and thresholds as malloc.c sets them (`DEFAULT_TOP_PAD` 0, pages of 4096,
  `DEFAULT_MMAP_THRESHOLD` 256 KiB, a heap of 32 MiB within a far larger range); a range that is at most half
  the address space.
* `Clocksource`: the ACPI timer has at most as many bits as `uint32_t` (24 or 32), no period of the HPET
  gives a frequency whose low 32 bits are 0, and `2^32 * NS_PER_SEC` is less than `2^64`.
* `Containers`: the empty text is a text; `Temp` is no vector of the program's and `Raw` neither a text nor
  a pointer; the first growth is by at least one slot.
* `Interrupts`, `AcpiGlue`, `Boot`: exceptions have vectors below 32; windows and offsets have the width of a
  register; `HeapSize`, `Slide` and `KernelBase` are multiples of a page; what the MADT's bytes read as is
  mapped to the table's end at least, and not to the last address (`FirmwareAssumption`).

Definitions were given a form that can be proved about, with the same meaning: `Words` has powers
of two as a function, `Bytes` of `Boot` and `Fittest` of `Clocksource` are a function and a
condition instead of folds, the loops of `Containers` are a function (`Repeat`) instead of a fold,
and `CollectsEveryEntry` compares each kind's list with the set of
entries that begin within the table, in increasing order.

## 6. Only model-checked, and not modelled

Model-checked only:

* *Liveness*: `CallReturns` of the four modules of allocators and `BootEnds`, which TLAPS does not reach.
* *`Dlmalloc`*: its functions fold over bins and lists of unknown length with operators of the
  community modules that take operators, and the prover can compute such a fold for no list it is
  not shown.  Its properties also call the functions with every argument, which is a proof about
  each of them.

Not modelled:

* *Memory and string routines* (`lib/memory.cpp`): loops over bytes without state; the modules
  that use them have a copy, a fill or a comparison as one step.  The contents of memory are
  modelled only where they are headers or tables.
* *Logging, panic, the C++ runtime stubs*: output, and definitions for the linker.  An
  assertion that fails ends the boot (`InitPma`).
* *The bit layout* of segment descriptors and gates: constants put into fields.  `Boot` has
  that they are loaded, and that an exception before that resets the machine.
* *The remaining `uacpi_kernel_*`*: they log that they are unimplemented.  uACPI itself.
* *`malloc_stats`* only prints; the WIN32 emulation in malloc.c is not compiled.
* *What the boot loader leaves behind*: page tables, large pages among them, which
  `map_virtual` would take for tables if anything mapped below them.  The memory map is walked
  to a null pointer (`lib/ptr_array_wrapper.hpp:29`) that Limine, which gives a count, does not
  promise; the model takes it to be there.
* *Second processors*, none of which is started, and `free_pages_total`, which takes no lock,
  racing with them.
* *Alignments above a page* are met relative to the allocator's base (`mm/vma.hpp:62`), from
  which the model counts; nothing asks for one.

## 7. Where the code disagrees with its documentation

Shown by runs:

* `mm/pma.cpp:66` (`pma_free`).  `free` subtracts the slide from an address from which
  `alloc` (line 54) has subtracted it already, so `dealloc_page` of what `alloc_page` returned
  writes outside the direct map.  Nothing in the kernel gives pages back yet.
* `mm/heap.cpp:103,110,120` (`heap_exhausted`).  `sbrk` fails with 0, dlmalloc expects -1: a
  `malloc` without memory left faults, where `malloc.h` promises null.  Answering
  `MORECORE_FAILURE` instead is not enough: dlmalloc then falls back to `mmap`, also in the
  nested `malloc` that makes a list node under the allocator's lock, which deadlocks
  (`NoSelfDeadlock` breaks with `SbrkFails_WithMorecoreFailure`); and returning null there
  leaks the pages of the half-grown heap (`MemoryAccounted` with `SbrkFails_WithNull`).
* `mm/heap.cpp:75,92` (`heap_free`).  Freeing a chunk of 256 KiB or more halts.  So does freeing
  enough next to the top of the heap, since `MORECORE_CANNOT_TRIM` is not defined.
* `lib/dlmalloc/malloc.c:4521` (`dl_independent`).  `independent_calloc` and
  `independent_comalloc` mark the chunk before their first element as in use.  A request so
  small that `malloc` serves it from a fastbin can have a free chunk there, which is then never
  merged and fails malloc.c's own checks.  In `dlmalloc` these calls ask for two elements or
  none, whose sum no fastbin serves.

Stated as the limits of a property that holds:

* `drivers/clocksource.cpp:24`: `mult` needs more than 32 bits for every clock of 1 GHz or less,
  the ACPI timer and any usual HPET among them; `ktime::now` is then wrong at once, by every whole
  nanosecond of a cycle.  For faster clocks it is right until `cycles * mult` wraps, after seconds.
  `NowIsAccounted` says how much is lost and that nothing else is.
* `lib/dlmalloc/malloc.c:4247,4321,4465-4481,4581`: sums and products of sizes wrap untested, and the
  call succeeds with a chunk that is too small, where malloc.c:132 promises null (`HandedOutFits`,
  which says it of sums that do not wrap: `SumFits`).
* `drivers/tsc.cpp:41`, `hpet.cpp:73`: a frequency of 2^32 Hz or more is cut.
* `drivers/acpi_pm.cpp:42`: a 24-bit timer gets a mask of 32 bits (`DeltaIsElapsed`, `WrapCounted`).
* `acpi/uacpi_io.cpp:18`: the largest offsets pass the bounds test (`PortsInWindow`).
* `acpi/glue.cpp:259,278`: locks are never freed (`OnlyLocksLeak`), and an acquire ignores its
  timeout.
* `arch/x86_64/exception_handlers.asm:49`: the stubs of vectors 29 and 30 do not expect the error
  code that these exceptions have (`FrameTellsTruth`).
* `kernel/irqs/irqs.cpp:84`: an entry of length 0 is walked for ever (`BootEnds`).
* `mm/vmm.cpp:48,52`, `acpi/acpi.cpp:20`: the bootloader's answers are read untested; without one
  of them the boot ends in a page fault (`BootOrder`).
* `mm/vma.cpp:15`: the managed range begins below the end of memory that does not end on a page
  (`HeapApart`).

Seen and outside the model: `mm/heap.cpp:53`.  When `mmap` fails for lack of a page and its
range's list node came from the heap, the node is freed within `malloc`, and `sYSMALLOc` goes on
although "all fastbins are consolidated" (`malloc.c:2993`) no longer holds; the assertion is
compiled out, and the growth that follows fails for the same lack of pages.  `calloc` of the
mmap threshold or more does not clear (`malloc.c:702-710` takes mmapped memory to be zero, and
`mmap` of `mm/heap.cpp` hands out pages as they are).  `mallopt(M_MXFAST, 0)` makes
`malloc_consolidate` walk past the fastbins (`malloc.c:2363`).
