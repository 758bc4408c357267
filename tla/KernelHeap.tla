------------------------------ MODULE KernelHeap ------------------------------
(***************************************************************************)
(* The kernel heap: malloc and free of dlmalloc over mmap, munmap and sbrk *)
(* (kernel/mm/heap.cpp), which take address ranges from the virtual        *)
(* address allocator and pages and tables through map_virtual.  The        *)
(* virtual address allocator takes list nodes from this same heap once its *)
(* pool is used up, with its lock held.                                    *)
(*                                                                         *)
(* Requests are counted in granules, addresses in pages modulo Wrap.  The  *)
(* bins of dlmalloc are one amount of free granules: which request they    *)
(* can serve depends on how it is split up, and is left open.  VAddr-      *)
(* Allocator, FreeListAllocator and PageMap have the detail of the parts   *)
(* that are one step here.                                                 *)
(***************************************************************************)
EXTENDS Integers, FiniteSets, FiniteSetsExt

CONSTANTS
    PageSize,               \* granules of a page
    MinSize, TopPad,        \* MINSIZE, av->top_pad
    Overhead,               \* what an mmapped chunk needs beside the request
    MaxFast, LargeSize,     \* largest chunk of a fastbin, smallest of a large bin
    MmapThreshold, MaxMmaps,
    ConsolidateThreshold,   \* FASTBIN_CONSOLIDATION_THRESHOLD
    TrimThreshold,
    NodeSize,               \* sizeof(VAddrAllocator::Node), as a request
    Nodes,                  \* pool nodes left after init_heap
    Wrap,                   \* size of the address space
    RangeStart, RangePages, \* what init_kernel_virtual_allocator computes
    HeapPages,              \* heap_size
    Frames,                 \* pages alloc_page can hand out
    Span,                   \* pages that one page table maps
    Requests                \* bound: the sizes callers ask for

Pages(granules) == (granules + PageSize - 1) \div PageSize

Area == RangeStart .. RangeStart + RangePages - 1

ASSUME SizesAssumption ==
    /\ RangeStart + RangePages <= Wrap /\ 2 * RangePages <= Wrap
    /\ HeapPages < RangePages
    /\ Frames < Wrap - RangeStart - HeapPages
    /\ NodeSize <= MaxFast /\ MaxFast < LargeSize /\ LargeSize <= MmapThreshold
    /\ MaxFast < ConsolidateThreshold
    /\ TrimThreshold > TopPad + MinSize + PageSize
    /\ TrimThreshold >= ConsolidateThreshold
    /\ TopPad + PageSize <= MmapThreshold
    /\ 2 * Pages(NodeSize + TopPad + MinSize) < Wrap
    /\ Pages(TopPad + MinSize) < HeapPages

ASSUME TypesAssumption ==
    /\ PageSize \in Nat \ {0} /\ NodeSize \in Nat \ {0} /\ Span \in Nat \ {0}
    /\ MinSize \in Nat /\ TopPad \in Nat /\ Overhead \in Nat
    /\ MaxFast \in Nat /\ LargeSize \in Nat /\ MmapThreshold \in Nat /\ MaxMmaps \in Nat
    /\ ConsolidateThreshold \in Nat /\ TrimThreshold \in Nat /\ Nodes \in Nat
    /\ Wrap \in Nat /\ RangeStart \in Nat /\ RangePages \in Nat
    /\ HeapPages \in Nat /\ Frames \in Nat /\ Requests \subseteq Nat \ {0}

VARIABLES
    pc,             \* what runs: "idle", "malloc", "reserve", "mmap", "grow", "sbrk" or "halted"
    cause,          \* why the processor halted
    req,            \* nb, in granules
    outer,          \* the request that waits, while `new' makes a list node for it; 0 if none
    start, i,       \* base of the range in mmap; the loop variable of mmap and sbrk
    took,           \* where the allocator's split got its node: "none", "pool" or "heap"
    result,         \* "chunk" or "null": how the last malloc of a caller ended
    lock,           \* VAddrAllocator::lock_
    held, nodes,    \* reserved addresses; nodes left in the pool
    frames,         \* pages alloc_page can still hand out
    mapped, tabled, \* pages of Area that are mapped; the parts of it that have a table
    heap_top,
    top,            \* granules of av->top
    fast, binned,   \* granules in fastbins; in the other bins
    inUse, nodeUse, \* granules below top in the hands of callers, and of list nodes
    chunks          \* live mmapped chunks: [start, pages]

local == <<req, outer, start, i, took, result>>
system == <<lock, held, nodes, frames, mapped, tabled, heap_top>>
dl == <<top, fast, binned, inUse, nodeUse, chunks>>
vars == <<pc, cause, local, system, dl>>

\* Names with a suffix _Without... or _With... are broken variants of the definition
\* they precede: see the README.

Run(s, n) == s .. s + n - 1

heap_base == RangeStart

\* init_heap has reserved the heap at the start of the range; nothing is mapped yet.
Init ==
    /\ pc = "idle" /\ cause = "none"
    /\ req = 0 /\ outer = 0 /\ start = 0 /\ i = 0 /\ took = "none" /\ result = "chunk"
    /\ lock = FALSE /\ held = Run(heap_base, HeapPages) /\ nodes = Nodes
    /\ frames = Frames /\ mapped = {} /\ tabled = {}
    /\ heap_top = heap_base
    /\ top = 0 /\ fast = 0 /\ binned = 0 /\ inUse = 0 /\ nodeUse = 0 /\ chunks = {}

-----------------------------------------------------------------------------
(* malloc *)

CallMalloc(n) ==
    /\ pc = "idle"
    /\ pc' = "malloc" /\ req' = n
    /\ UNCHANGED <<cause, outer, start, i, took, result, system, dl>>

\* The end of malloc: of the caller's, or of the one that `new' called for a list node.
Return ==
    /\ IF outer = 0 THEN pc' = "idle" /\ req' = 0 /\ took' = "none"
       ELSE pc' = "reserve" /\ req' = outer /\ took' = "heap"
    /\ outer' = 0 /\ start' = 0 /\ i' = 0
    /\ UNCHANGED cause

GiveOut ==
    /\ IF outer = 0 THEN inUse' = inUse + req /\ result' = "chunk" /\ UNCHANGED nodeUse
       ELSE nodeUse' = nodeUse + req /\ UNCHANGED <<inUse, result>>
    /\ Return

\* Neither a large request nor sYSMALLOc goes on while there are fast chunks.
MustConsolidate == pc = "malloc" /\ fast > 0 /\ req >= LargeSize

FromFastbin ==
    /\ pc = "malloc" /\ req <= MaxFast /\ req <= fast
    /\ fast' = fast - req
    /\ GiveOut
    /\ UNCHANGED <<system, top, binned, chunks>>

\* What is left of a chunk goes back to the bins.
FromBin ==
    /\ pc = "malloc" /\ ~MustConsolidate
    /\ req <= binned
    /\ binned' = binned - req
    /\ GiveOut
    /\ UNCHANGED <<system, top, fast, chunks>>

FromTop ==
    /\ pc = "malloc" /\ ~MustConsolidate
    /\ top >= req + MinSize
    /\ top' = top - req
    /\ GiveOut
    /\ UNCHANGED <<system, fast, binned, chunks>>

\* sYSMALLOc is reached: neither the bins nor top serve the request.
NoSpace == pc = "malloc" /\ ~MustConsolidate /\ top < req + MinSize

Consolidate_WithoutFastTest(k) ==
    /\ pc = "malloc"
    /\ k <= fast + binned
    /\ fast' = 0
    /\ binned' = binned + fast - k
    /\ top' = top + k
    /\ UNCHANGED <<pc, cause, local, system, inUse, nodeUse, chunks>>

\* malloc_consolidate, after which a small request starts again: the fast chunks are
\* merged with their neighbours, and so k granules with top.
Consolidate(k) ==
    /\ MustConsolidate \/ (NoSpace /\ fast > 0)
    /\ k <= fast + binned
    /\ fast' = 0
    /\ binned' = binned + fast - k
    /\ top' = top + k
    /\ UNCHANGED <<pc, cause, local, system, inUse, nodeUse, chunks>>

UseMmap_WithoutThreshold == Cardinality(chunks) < MaxMmaps

UseMmap == req >= MmapThreshold /\ Cardinality(chunks) < MaxMmaps

Relay ==
    /\ NoSpace /\ fast = 0
    /\ pc' = IF UseMmap THEN "reserve" ELSE "grow"
    /\ UNCHANGED <<cause, local, system, dl>>

-----------------------------------------------------------------------------
(* mmap *)

MmapPages == Pages(req + Overhead)

\* alloc_pages: first fit.  A node is needed for what is left of the block found.
Starts == {s \in Area : Run(s, MmapPages) \subseteq Area \ held}

NeedsNode == Min(Starts) + MmapPages \in Area \ held

Reserve ==
    /\ held' = held \cup Run(Min(Starts), MmapPages)
    /\ start' = Min(Starts)
    /\ i' = 0
    /\ pc' = "mmap"
    /\ UNCHANGED <<cause, req, outer, result, frames, mapped, tabled, heap_top, dl>>

ReserveRest ==
    /\ pc = "reserve" /\ ~lock
    /\ Starts # {} /\ ~NeedsNode
    /\ Reserve
    /\ UNCHANGED <<took, lock, nodes>>

ReserveFromPool ==
    /\ pc = "reserve" /\ ~lock
    /\ Starts # {} /\ NeedsNode /\ nodes > 0
    /\ Reserve
    /\ nodes' = nodes - 1 /\ took' = "pool"
    /\ UNCHANGED lock

\* The pool is used up: allocate_node calls new, and so malloc, under the lock.
CallNew ==
    /\ pc = "reserve" /\ ~lock
    /\ Starts # {} /\ NeedsNode /\ nodes = 0
    /\ lock' = TRUE
    /\ pc' = "malloc" /\ outer' = req /\ req' = NodeSize
    /\ UNCHANGED <<cause, start, i, took, result, held, nodes, frames, mapped, tabled, heap_top, dl>>

\* new has returned.
ReserveFromHeap ==
    /\ pc = "reserve" /\ lock /\ outer = 0
    /\ Reserve
    /\ lock' = FALSE
    /\ UNCHANGED <<took, nodes>>

\* mmap returns MORECORE_FAILURE: dlmalloc goes on as if it had no mmap.
ReserveFails ==
    /\ pc = "reserve" /\ ~lock
    /\ Starts = {}
    /\ pc' = "grow"
    /\ UNCHANGED <<cause, local, system, dl>>

-----------------------------------------------------------------------------
(* The loops of mmap and sbrk: a page, then map_virtual, which may need a table. *)

GrowPages == Pages(req + TopPad + MinSize - top)

Count == IF pc = "mmap" THEN MmapPages ELSE GrowPages

\* The address of round i.
Target == IF pc = "mmap" THEN start + i ELSE (heap_top + i) % Wrap

TableOf(v) == v \div Span

NeededFrames == IF TableOf(Target) \in tabled THEN 1 ELSE 2

MapPage ==
    /\ pc \in {"mmap", "sbrk"} /\ i < Count
    /\ frames >= NeededFrames
    /\ frames' = frames - NeededFrames
    /\ mapped' = mapped \cup {Target}
    /\ tabled' = tabled \cup {TableOf(Target)}
    /\ i' = i + 1
    /\ UNCHANGED <<pc, cause, req, outer, start, took, result, lock, held, nodes, heap_top, dl>>

MmapDone_WithLooseTest ==
    /\ pc = "mmap" /\ i + 1 >= Count
    /\ chunks' = chunks \cup {[start |-> start, pages |-> Count]}
    /\ result' = "chunk"
    /\ Return
    /\ UNCHANGED <<system, top, fast, binned, inUse, nodeUse>>

MmapDone ==
    /\ pc = "mmap" /\ i = Count
    /\ chunks' = chunks \cup {[start |-> start, pages |-> Count]}
    /\ result' = "chunk"
    /\ Return
    /\ UNCHANGED <<system, top, fast, binned, inUse, nodeUse>>

\* alloc_page fails: the range is given back, and coalescing frees the node that its
\* reservation took.  The pages mapped so far are not unmapped.
MmapNoPage ==
    /\ pc = "mmap" /\ i < Count
    /\ frames = 0
    /\ held' = held \ Run(start, Count)
    /\ nodes' = IF took = "pool" THEN nodes + 1 ELSE nodes
    /\ nodeUse' = IF took = "heap" THEN nodeUse - NodeSize ELSE nodeUse
    /\ fast' = IF took = "heap" THEN fast + NodeSize ELSE fast
    /\ pc' = "grow"
    /\ UNCHANGED <<cause, local, lock, frames, mapped, tabled, heap_top, top, binned, inUse, chunks>>

\* map_virtual fails: the page just taken and the range are not given back.
MmapNoTable ==
    /\ pc = "mmap" /\ i < Count
    /\ frames = 1 /\ NeededFrames = 2
    /\ frames' = 0
    /\ pc' = "grow"
    /\ UNCHANGED <<cause, local, lock, held, nodes, mapped, tabled, heap_top, dl>>

-----------------------------------------------------------------------------
(* sbrk, and what sYSMALLOc makes of its result *)

\* sbrk answers 0, which is not MORECORE_FAILURE: the header of the new top is
\* written at address 8, in a page that is never mapped, and interrupt_handler halts.
Fault == pc' = "halted" /\ cause' = "fault"

\* The size is negative as a long: no sbrk.  The mmap tried instead finds no room.
GiveUp ==
    /\ pc = "grow" /\ 2 * GrowPages >= Wrap
    /\ result' = "null"
    /\ pc' = "idle" /\ req' = 0 /\ took' = "none"
    /\ outer' = 0 /\ start' = 0 /\ i' = 0
    /\ UNCHANGED <<cause, system, dl>>

\* The test of sbrk, whose sum wraps.
TooFar == (heap_top + GrowPages) % Wrap > heap_base + HeapPages

SbrkRefuses ==
    /\ pc = "grow" /\ 2 * GrowPages < Wrap
    /\ TooFar
    /\ Fault
    /\ UNCHANGED <<local, system, dl>>

SbrkStart ==
    /\ pc = "grow" /\ GrowPages > 0 /\ 2 * GrowPages < Wrap
    /\ ~TooFar
    /\ pc' = "sbrk" /\ i' = 0
    /\ UNCHANGED <<cause, req, outer, start, took, result, system, dl>>

SbrkFails_WithNull ==
    /\ pc = "sbrk" /\ i < Count
    /\ frames < NeededFrames
    /\ frames' = 0
    /\ result' = "null"
    /\ Return
    /\ UNCHANGED <<lock, held, nodes, mapped, tabled, heap_top, dl>>

SbrkFails_WithMorecoreFailure ==
    /\ pc = "sbrk" /\ i < Count
    /\ frames < NeededFrames
    /\ frames' = 0
    /\ pc' = "reserve"
    /\ UNCHANGED <<cause, local, lock, held, nodes, mapped, tabled, heap_top, dl>>

\* No page, or a page and no table for it; the pages mapped before stay mapped.
SbrkFails ==
    /\ pc = "sbrk" /\ i < Count
    /\ frames < NeededFrames
    /\ frames' = 0
    /\ Fault
    /\ UNCHANGED <<local, lock, held, nodes, mapped, tabled, heap_top, dl>>

SbrkDone_WithoutTop ==
    /\ pc = "sbrk" /\ i = Count
    /\ UNCHANGED heap_top
    /\ top' = top + Count * PageSize - req
    /\ GiveOut
    /\ UNCHANGED <<lock, held, nodes, frames, mapped, tabled, fast, binned, chunks>>

\* top is extended up to the new heap_top, and the request is cut from it.
SbrkDone ==
    /\ pc = "sbrk" /\ i = Count
    /\ heap_top' = heap_top + Count
    /\ top' = top + Count * PageSize - req
    /\ GiveOut
    /\ UNCHANGED <<lock, held, nodes, frames, mapped, tabled, fast, binned, chunks>>

-----------------------------------------------------------------------------
(* free *)

\* A small chunk of a caller goes to a fastbin, wherever it lies.
FreeFast(n) ==
    /\ pc = "idle" /\ n <= inUse /\ n <= MaxFast
    /\ inUse' = inUse - n /\ fast' = fast + n
    /\ UNCHANGED <<pc, cause, local, system, top, binned, nodeUse, chunks>>

\* Any other, of n granules, is merged with k free ones beside it and, if they reach
\* it, with top.  Merging much makes malloc_consolidate move m more to top; then too
\* large a top is trimmed, by an sbrk that halts.
Free(n, k, m, reachesTop) ==
    LET size == n + k + (IF reachesTop THEN top ELSE 0)
        much == size >= ConsolidateThreshold
    IN  /\ pc = "idle" /\ n <= inUse /\ n > MaxFast /\ k <= binned
        /\ IF much /\ fast > 0 THEN m <= fast + binned - k ELSE m = 0
        /\ inUse' = inUse - n
        /\ fast' = IF much THEN 0 ELSE fast
        /\ top' = top + m + (IF reachesTop THEN n + k ELSE 0)
        /\ binned' = binned - m + (fast - fast') + (IF reachesTop THEN -k ELSE n)
        /\ IF much /\ top' >= TrimThreshold
           THEN pc' = "halted" /\ cause' = "shrink"
           ELSE UNCHANGED <<pc, cause>>
        /\ UNCHANGED <<local, system, nodeUse, chunks>>

\* munmap halts.
FreeMmapped(c) ==
    /\ pc = "idle" /\ c \in chunks
    /\ chunks' = chunks \ {c}
    /\ pc' = "halted" /\ cause' = "munmap"
    /\ UNCHANGED <<local, system, top, fast, binned, inUse, nodeUse>>

\* hcf: cli, then one hlt.  Only an NMI ends the hlt, and its handler is hcf again,
\* with further NMIs blocked.
Halted ==
    /\ pc = "halted"
    /\ UNCHANGED vars

-----------------------------------------------------------------------------

HeapGranules == HeapPages * PageSize

Step ==
    \/ FromFastbin \/ FromBin \/ FromTop \/ (\E k \in 0 .. HeapGranules : Consolidate(k)) \/ Relay
    \/ ReserveRest \/ ReserveFromPool \/ CallNew \/ ReserveFromHeap \/ ReserveFails
    \/ MapPage \/ MmapDone \/ MmapNoPage \/ MmapNoTable
    \/ GiveUp \/ SbrkRefuses \/ SbrkStart \/ SbrkFails \/ SbrkDone

Next ==
    \/ \E n \in Requests : CallMalloc(n)
    \/ Step
    \/ \E n \in 1 .. MaxFast : FreeFast(n)
    \/ \E n \in 1 .. HeapGranules, k, m \in 0 .. HeapGranules, reachesTop \in BOOLEAN :
            Free(n, k, m, reachesTop)
    \/ \E c \in chunks : FreeMmapped(c)
    \/ Halted

Spec == Init /\ [][Next]_vars

\* Interrupts are off and nothing else runs: a call is not stopped.
FairSpec == Spec /\ WF_vars(Step)

-----------------------------------------------------------------------------
(* Properties *)

\* Every variable has a value of its type.
TypeOK ==
    /\ pc \in {"idle", "malloc", "reserve", "mmap", "grow", "sbrk", "halted"}
    /\ cause \in {"none", "fault", "munmap", "shrink"}
    /\ req \in Requests \cup {0, NodeSize} /\ outer \in Requests \cup {0}
    /\ start \in Area \cup {0} /\ i \in 0 .. Wrap
    /\ took \in {"none", "pool", "heap"} /\ result \in {"chunk", "null"}
    /\ lock \in BOOLEAN /\ held \subseteq Area /\ nodes \in 0 .. Nodes
    /\ frames \in 0 .. Frames
    /\ mapped \subseteq 0 .. Wrap - 1 /\ tabled \subseteq 0 .. Wrap \div Span
    /\ heap_top \in heap_base .. heap_base + HeapPages
    /\ {top, fast, binned, inUse, nodeUse} \subseteq 0 .. HeapGranules
    /\ chunks \subseteq [start : Area, pages : 1 .. RangePages]

HeapRun == heap_base .. heap_top - 1

ChunkRun(c) == Run(c.start, c.pages)

\* What malloc may hand out is mapped: every page of the heap up to heap_top and of
\* every mmapped chunk.
HandedOutIsMapped ==
    /\ HeapRun \subseteq mapped
    /\ \A c \in chunks : ChunkRun(c) \subseteq mapped

\* The granules dlmalloc accounts for are those between heap_base and heap_top: its
\* top ends where sbrk will continue, without which sYSMALLOc would not merge.
TopMeetsBreak ==
    top + fast + binned + inUse + nodeUse = (heap_top - heap_base) * PageSize

\* The heap's range and the mmapped chunks share no address and, between calls, are
\* all that is reserved: a call that fails half way keeps none.
RangesApart ==
    /\ \A c \in chunks : ChunkRun(c) \cap Run(heap_base, HeapPages) = {}
    /\ \A c, d \in chunks : c = d \/ ChunkRun(c) \cap ChunkRun(d) = {}
    /\ pc = "idle" => held = Run(heap_base, HeapPages) \cup UNION {ChunkRun(c) : c \in chunks}

\* Between calls every page taken from alloc_page is a page of the heap, of a chunk or
\* a table.  mmap gives back no page when it fails, yet no leak outlives the call: the
\* heap must then grow, which fails for the same lack of pages, and halts.
PagesAccounted ==
    pc = "idle" =>
        Frames - frames = Cardinality(HeapRun \cup UNION {ChunkRun(c) : c \in chunks})
                            + Cardinality(tabled)

\* What is reserved and what is taken is what the heap and the chunks have, whichever step
\* of mmap or sbrk found nothing left.
MemoryAccounted == TypeOK /\ RangesApart /\ PagesAccounted

\* The lock of the virtual address allocator is not taken twice by the one processor:
\* malloc called by new under the lock does not reach mmap.
NoSelfDeadlock == lock /\ pc = "reserve" => outer = 0

\* sbrk is called for at least a page: nothing that runs between malloc's own look at
\* top and this point, the nested malloc of a list node included, has enlarged top.
GrowthIsNeeded == pc = "grow" => top < req + MinSize

\* Every call returns, unless the processor halts.
CallReturns == pc # "idle" ~> pc \in {"idle", "halted"}

\* malloc.h on malloc: "or null if no space is available".
NullWhenExhausted == cause # "fault"

\* malloc.c on mmapped chunks: "These will be returned to the operating system
\* immediately after a free()"; and MORECORE_CANNOT_TRIM, which is to be defined if
\* MORECORE "cannot release space back to the system when given negative arguments",
\* is not.  So free gives chunks and pages back, and never halts.
FreeNeverHalts == cause \notin {"munmap", "shrink"}

==============================================================================
