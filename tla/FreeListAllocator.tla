-------------------------- MODULE FreeListAllocator --------------------------
(***************************************************************************)
(* memory::FreeListAllocator (kernel/mm/pma.cpp): physical pages, kept on  *)
(* a singly linked list whose FreeBlocks are written into the free memory  *)
(* itself, at the direct-map address of their first page.  A call walks    *)
(* the list; one action is one round of a loop.                            *)
(*                                                                         *)
(* Addresses are page numbers, counted modulo VirtPages as uintptr_t       *)
(* arithmetic wraps.  A FreeBlock takes less than a page, so that          *)
(* align_up(addr + sizeof(FreeBlock)) is the page after the block's first. *)
(***************************************************************************)
EXTENDS Integers, Sequences, FiniteSets

CONSTANTS
    Entries,        \* memmap_request.response->entries: [base, length, usable]
    Slide,          \* get_memory_slide(): where the direct map starts
    VirtPages,      \* size of the address space
    MaxRequest,     \* bound: largest request, in pages
    Null            \* nullptr

\* The n pages that start at page s.
PagesOf(s, n) == s .. s + n - 1

EntryPages(e) == PagesOf(e.base, e.length)

UsablePages == UNION {EntryPages(Entries[i]) : i \in {j \in DOMAIN Entries : Entries[j].usable}}

PhysPages == UNION {EntryPages(Entries[i]) : i \in DOMAIN Entries}

\* The direct map, and the way back.
ToVirt(p) == (Slide + p) % VirtPages
ToPhys(v) == (v - Slide) % VirtPages

Mapped == {ToVirt(p) : p \in PhysPages}

\* Where free writes the block: ptr - get_memory_slide(), for a ptr that alloc
\* returned, which is physical already.
BlockAddress(p) == (p - Slide) % VirtPages

\* The boot loader's memory map: usable entries overlap nothing.
ASSUME EntriesAssumption ==
    /\ Entries \in Seq([base : Nat, length : Nat \ {0}, usable : BOOLEAN])
    /\ \A i, j \in DOMAIN Entries :
        i # j /\ Entries[i].usable => EntryPages(Entries[i]) \cap EntryPages(Entries[j]) = {}

\* All physical memory is mapped, in one piece, and nullptr is none of it.
ASSUME AddressesAssumption ==
    /\ Slide \in Nat /\ VirtPages \in Nat \ {0} /\ MaxRequest \in Nat
    /\ \A p \in PhysPages : Slide + p < VirtPages
    /\ Null \notin Mapped

\* free's subtraction of the slide from a physical address leads nowhere that is mapped,
\* or, half the address space being the slide, to where an addition would.
ASSUME FreeAssumption ==
    \/ \A p \in UsablePages : BlockAddress(p) \notin Mapped
    \/ (2 * Slide) % VirtPages = 0

\* Names with a suffix _Without... or _With... are broken variants of the definition
\* they precede: see the README.

VARIABLES
    size, next,     \* the FreeBlock at an address; 0 and Null in memory that holds none
    m_head,
    call,           \* "init", "idle", "alloc", "coalesce", or "halted" by an exception
    entry,          \* the loop variable of init
    want,           \* the argument of alloc
    pred,           \* *current is next[pred], or m_head when pred is Null
    a, b,           \* the loop variables of coalesce
    \* History, read by no action of the code:
    used,           \* physical pages handed out, by the values returned
    lost            \* pages given up to hold a header, one per allocation

fields == <<size, next, m_head>>
locals == <<entry, want, pred, a, b>>
vars == <<fields, call, locals, used, lost>>

cur == IF pred = Null THEN m_head ELSE next[pred]

-----------------------------------------------------------------------------
(* init *)

Init ==
    /\ size = [v \in Mapped |-> 0] /\ next = [v \in Mapped |-> Null]
    /\ m_head = Null
    /\ call = "init" /\ entry = 1
    /\ want = 0 /\ pred = Null /\ a = Null /\ b = Null
    /\ used = {} /\ lost = {}

\* A block of n pages at address v becomes the first of the list.
Push(v, n) ==
    /\ size' = [size EXCEPT ![v] = n]
    /\ next' = [next EXCEPT ![v] = m_head]
    /\ m_head' = v

InitPush ==
    /\ call = "init" /\ entry <= Len(Entries) /\ Entries[entry].usable
    /\ Push(ToVirt(Entries[entry].base), Entries[entry].length)
    /\ entry' = entry + 1
    /\ UNCHANGED <<call, want, pred, a, b, used, lost>>

InitSkip ==
    /\ call = "init" /\ entry <= Len(Entries) /\ ~Entries[entry].usable
    /\ entry' = entry + 1
    /\ UNCHANGED <<fields, call, want, pred, a, b, used, lost>>

InitDone ==
    /\ call = "init" /\ entry > Len(Entries)
    /\ call' = "idle"
    /\ UNCHANGED <<fields, locals, used, lost>>

-----------------------------------------------------------------------------
(* alloc *)

Return ==
    /\ call' = "idle"
    /\ want' = 0 /\ pred' = Null /\ a' = Null /\ b' = Null
    /\ UNCHANGED entry

\* alloc is called for n pages.
CallAlloc(n) ==
    /\ call = "idle"
    /\ call' = "alloc"
    /\ want' = n
    /\ UNCHANGED <<fields, entry, pred, a, b, used, lost>>

\* The header's page, and the pages asked for.
Needed == want + 1

AllocSkip ==
    /\ call = "alloc" /\ cur # Null
    /\ size[cur] < Needed
    /\ pred' = cur
    /\ UNCHANGED <<fields, call, entry, want, a, b, used, lost>>

\* *current = v, in a list whose other links are nx.
SetCurrent(nx, v) ==
    IF pred = Null THEN m_head' = v /\ next' = nx
    ELSE next' = [nx EXCEPT ![pred] = v] /\ UNCHANGED m_head

\* The caller learns of the pages behind the header of the block under the cursor.
HandOut ==
    /\ used' = used \cup PagesOf(ToPhys(cur + Needed - want), want)
    /\ lost' = lost \cup PagesOf(ToPhys(cur), Needed - want)

\* More than the pages needed: the rest is a block in the same place of the list.
AllocSplit ==
    /\ call = "alloc" /\ cur # Null
    /\ size[cur] > Needed
    /\ LET rest == cur + Needed
       IN  /\ size' = [size EXCEPT ![rest] = size[cur] - Needed, ![cur] = 0]
           /\ SetCurrent([next EXCEPT ![rest] = next[cur], ![cur] = Null], rest)
    /\ HandOut
    /\ Return

AllocWhole ==
    /\ call = "alloc" /\ cur # Null
    /\ size[cur] = Needed
    /\ size' = [size EXCEPT ![cur] = 0]
    /\ SetCurrent([next EXCEPT ![cur] = Null], next[cur])
    /\ HandOut
    /\ Return

\* The end of the list: 0 is returned.
AllocFail ==
    /\ call = "alloc" /\ cur = Null
    /\ Return
    /\ UNCHANGED <<fields, used, lost>>

-----------------------------------------------------------------------------
(* free and coalesce *)

\* free is called for n pages the caller holds, from p on: the block is pushed
\* at the address computed, where nothing may be mapped; then its write faults
\* and interrupt_handler halts.
Free(p, n) ==
    /\ call = "idle"
    /\ PagesOf(p, n) \subseteq used
    /\ IF BlockAddress(p) \in Mapped
       THEN /\ Push(BlockAddress(p), n)
            /\ used' = used \ PagesOf(p, n)
            /\ call' = "coalesce"
            /\ a' = m_head' /\ b' = m_head'
            /\ UNCHANGED <<entry, want, pred, lost>>
       ELSE /\ call' = "halted"
            /\ UNCHANGED <<fields, locals, used, lost>>

CoalesceMerge_WithoutSize ==
    /\ call = "coalesce" /\ next[b] # Null
    /\ a + size[a] = next[b]
    /\ next' = [next EXCEPT ![b] = next[next[b]], ![next[b]] = Null]
    /\ size' = [size EXCEPT ![next[b]] = 0]
    /\ UNCHANGED <<m_head, call, locals, used, lost>>

CoalesceMerge_WithoutRest ==
    /\ call = "coalesce" /\ next[b] # Null
    /\ a + size[a] = next[b]
    /\ size' = [size EXCEPT ![a] = size[a] + size[next[b]], ![next[b]] = 0]
    /\ next' = [next EXCEPT ![b] = Null, ![next[b]] = Null]
    /\ UNCHANGED <<m_head, call, locals, used, lost>>

CoalesceMerge_WithLooseTest ==
    /\ call = "coalesce" /\ next[b] # Null
    /\ a + size[a] <= next[b]
    /\ size' = [size EXCEPT ![a] = size[a] + size[next[b]], ![next[b]] = 0]
    /\ next' = [next EXCEPT ![b] = next[next[b]], ![next[b]] = Null]
    /\ UNCHANGED <<m_head, call, locals, used, lost>>

\* b->next starts where a ends, and becomes part of a.
CoalesceMerge ==
    /\ call = "coalesce" /\ next[b] # Null
    /\ a + size[a] = next[b]
    /\ size' = [size EXCEPT ![a] = size[a] + size[next[b]], ![next[b]] = 0]
    /\ next' = [next EXCEPT ![b] = next[next[b]], ![next[b]] = Null]
    /\ UNCHANGED <<m_head, call, locals, used, lost>>

CoalesceSkip_WithoutAdvance ==
    /\ call = "coalesce" /\ next[b] # Null
    /\ a + size[a] # next[b]
    /\ UNCHANGED vars

CoalesceSkip ==
    /\ call = "coalesce" /\ next[b] # Null
    /\ a + size[a] # next[b]
    /\ b' = next[b]
    /\ UNCHANGED <<fields, call, entry, want, pred, a, used, lost>>

\* The inner loop is over: the outer one goes on with a->next.
CoalesceNext ==
    /\ call = "coalesce" /\ next[b] = Null /\ next[a] # Null
    /\ a' = next[a] /\ b' = next[a]
    /\ UNCHANGED <<fields, call, entry, want, pred, used, lost>>

CoalesceDone ==
    /\ call = "coalesce" /\ next[b] = Null /\ next[a] = Null
    /\ Return
    /\ UNCHANGED <<fields, used, lost>>

-----------------------------------------------------------------------------

Step ==
    \/ InitPush \/ InitSkip \/ InitDone
    \/ AllocSkip \/ AllocSplit \/ AllocWhole \/ AllocFail
    \/ CoalesceMerge \/ CoalesceSkip \/ CoalesceNext \/ CoalesceDone

Call ==
    \/ \E n \in 0 .. MaxRequest : CallAlloc(n)
    \/ \E p \in UsablePages, n \in 1 .. MaxRequest : Free(p, n)

Next == Call \/ Step

Spec == Init /\ [][Next]_vars

\* Interrupts are off and nothing else runs: a call's loop is not stopped.
FairSpec == Spec /\ WF_vars(Step)

-----------------------------------------------------------------------------
(* Properties *)

\* Every variable has a value of its type.
TypeOK ==
    /\ size \in [Mapped -> Nat] /\ next \in [Mapped -> Mapped \cup {Null}]
    /\ m_head \in Mapped \cup {Null}
    /\ call \in {"init", "idle", "alloc", "coalesce", "halted"}
    /\ entry \in 1 .. Len(Entries) + 1
    /\ want \in 0 .. MaxRequest
    /\ {pred, a, b} \subseteq Mapped \cup {Null}
    /\ used \subseteq PhysPages /\ lost \subseteq PhysPages

\* The blocks within n links of m_head.
Near[n \in Nat] ==
    IF n = 0 THEN {m_head} \ {Null}
    ELSE Near[n - 1] \cup ({next[v] : v \in Near[n - 1]} \ {Null})

Blocks == Near[Cardinality(Mapped)]

BlockPages(v) == PagesOf(ToPhys(v), size[v])

\* Every usable page is in one block of the list, or handed out, or given up for a
\* header, and never two of these: no header is ever written into memory in use, and
\* splitting, unlinking and merging lose nothing else.
PagesAccounted ==
    call # "init" =>
        /\ UsablePages = used \cup lost \cup UNION {BlockPages(v) : v \in Blocks}
        /\ used \cap lost = {}
        /\ \A v \in Blocks : BlockPages(v) \cap (used \cup lost) = {}
        /\ \A v, w \in Blocks : v = w \/ BlockPages(v) \cap BlockPages(w) = {}

\* alloc answers 0 for failure and a physical address otherwise: the two cannot be
\* confused, even if the memory map starts with a usable page 0.
ZeroMeansFailure == 0 \notin used

\* No page is lost, shared or mistaken for a failure.
MemoryAccounted == TypeOK /\ PagesAccounted /\ ZeroMeansFailure

\* coalesce keeps a block it visits reachable, and what it holds in one piece: the
\* pages of one block are, after any step of free, pages of one block.
MergingKeepsRuns ==
    [][call = "coalesce" => \A v \in Blocks : \E w \in Blocks' : BlockPages(v) \subseteq BlockPages(w)']_vars

\* Every loop ends: the list has no cycle, also while blocks are merged.
CallReturns == call \in {"init", "alloc", "coalesce"} ~> call = "idle"

\* The allocator does what PageReservation promises of pages, physical ones here.
Reservation == INSTANCE PageReservation WITH TotalPages <- VirtPages, reserved <- used
ImplementsReservation == Reservation!Spec

\* free gives pages back: it returns.  pma.hpp pairs dealloc_page with alloc_page.
FreeReturns == call # "halted"

==============================================================================
