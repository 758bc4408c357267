--------------------------- MODULE VAddrAllocator ----------------------------
(***************************************************************************)
(* memory::VAddrAllocator (kernel/mm/vma.hpp): the first-fit allocator of  *)
(* kernel virtual pages.  The managed range is cut into nodes, kept in     *)
(* address order on a doubly linked list.  Nodes come from a fixed pool    *)
(* (nodes_, free_stack_) and, once the pool is empty, from the heap.       *)
(*                                                                         *)
(* A call takes lock_, walks the list from head_ with a cursor and drops   *)
(* the lock on every return path.  One action is one step of that walk, so *)
(* a split that fails half way, and the work already done by then, is a    *)
(* state of its own.  Addresses are page numbers relative to base_.        *)
(***************************************************************************)
EXTENDS Integers, Sequences, FiniteSets

CONSTANTS
    TotalPages,     \* total_pages_
    MaxNodes,       \* MAX_NODES, the size of the static pool
    HeapNodes,      \* nodes that `new (std::nothrow) Node()' may return
    Aligns,         \* bound: align_pages arguments (the one caller passes the default, 1)
    MaxRequest,     \* bound: largest npages argument
    Null            \* nullptr

PoolNodes == 0 .. MaxNodes - 1
Node == PoolNodes \cup HeapNodes
Page == 0 .. TotalPages - 1

ASSUME ConstantsAssumption ==
    /\ TotalPages \in Nat \ {0}
    /\ MaxNodes \in Nat \ {0}
    /\ HeapNodes \cap PoolNodes = {}
    /\ Null \notin Node
    /\ Aligns \subseteq Nat \ {0}
    /\ MaxRequest \in Nat \ {0}

VARIABLES
    live,           \* nodes with `valid' set: those on the list
    is_free, start, npages, prev, next,     \* the other fields of Node
    head,           \* head_
    free_stack,     \* free_stack_[0 .. free_stack_top_ - 1], top last
    lock,           \* lock_.locked_
    call,           \* "idle", or the function whose loop is running
    cur,            \* its loop variable (`cur', and `working' in free)
    page, want, align,      \* its arguments, in pages
    \* History, read by no action of the code:
    held,           \* pages the callers hold, by the values returned to them
    intact,         \* <<page, n>> returned by alloc_pages, no free tried inside
    starved         \* some split has failed for want of a node

fields == <<is_free, start, npages, prev, next>>
args == <<page, want, align>>
history == <<held, intact, starved>>
vars == <<live, fields, head, free_stack, lock, call, cur, args, history>>

PagesOf(s, n) == s .. s + n - 1

End(n) == start[n] + npages[n]

\* The pages that the list calls allocated.
UsedPages == {q \in Page : \E n \in live : ~is_free[n] /\ start[n] <= q /\ q < End(n)}

-----------------------------------------------------------------------------
(* Nodes: allocate_node, free_node, split_node_left, coalesce. *)

\* Names with a suffix _Without... or _With... are broken variants of the definition
\* they precede, each a plausible slip: see the README.
AllocateNode_WithoutPop(r) ==
    /\ IF free_stack # <<>> THEN r = free_stack[Len(free_stack)] ELSE r \in HeapNodes \ live
    /\ UNCHANGED free_stack

\* allocate_node: r is taken from the pool, or from the heap once the pool is empty.
AllocateNode(r) ==
    \/ /\ free_stack # <<>>
       /\ r = free_stack[Len(free_stack)]
       /\ free_stack' = SubSeq(free_stack, 1, Len(free_stack) - 1)
    \/ /\ free_stack = <<>>
       /\ r \in HeapNodes \ live
       /\ UNCHANGED free_stack

\* allocate_node returns nullptr: `new (std::nothrow)' found no memory.
NodeAllocationFails == free_stack = <<>>

\* split_node_left: the new node r takes what follows the first left pages of orig.
\* orig_free is what the caller then stores in orig->is_free.
Split(orig, left, r, orig_free) ==
    /\ AllocateNode(r)
    /\ live' = live \cup {r}
    /\ is_free' = [is_free EXCEPT ![r] = is_free[orig], ![orig] = orig_free]
    /\ start' = [start EXCEPT ![r] = start[orig] + left]
    /\ npages' = [npages EXCEPT ![r] = npages[orig] - left, ![orig] = left]
    /\ next' = [next EXCEPT ![r] = next[orig], ![orig] = r]
    /\ prev' = [n \in Node |-> IF n = r THEN orig
                               ELSE IF n = next[orig] THEN r
                               ELSE prev[n]]

FreeNodes_WithoutTest == live

FreeNodes == {n \in live : is_free[n]}

FreeNode_WithoutDynamicTest(stack, n) == Append(stack, n)
FreeNode_WithoutPush(stack, n) == stack

\* free_node: a pool node goes back on the stack, a heap node is deleted.
FreeNode(stack, n) == IF n \in PoolNodes THEN Append(stack, n) ELSE stack

\* coalesce: n has just become free; its free neighbours and n become one node s,
\* the other ones are gone.  The fields of a node that is gone are cleared here; the
\* code clears some in free_node and the others in allocate_node, before any use.
Coalesce(n) ==
    LET p == prev[n]
        x == next[n]
        s == IF p \in FreeNodes THEN p ELSE n
        gone == ({n, x} \cap (FreeNodes \cup {n})) \ {s}
        tail == IF x \in FreeNodes THEN next[x] ELSE x
        stack == IF n \in gone THEN FreeNode(free_stack, n) ELSE free_stack
        size == (IF p \in FreeNodes THEN npages[p] ELSE 0) + npages[n]
                    + (IF x \in FreeNodes THEN npages[x] ELSE 0)
    IN  /\ live' = live \ gone
        /\ is_free' = [m \in Node |-> m = s \/ (is_free[m] /\ m \notin gone)]
        /\ start' = [m \in Node |-> IF m \in gone THEN 0 ELSE start[m]]
        /\ npages' = [m \in Node |-> IF m = s THEN size
                                     ELSE IF m \in gone THEN 0 ELSE npages[m]]
        /\ next' = [m \in Node |-> IF m = s THEN tail
                                   ELSE IF m \in gone THEN Null ELSE next[m]]
        /\ prev' = [m \in Node |-> IF m = tail THEN s
                                   ELSE IF m \in gone THEN Null ELSE prev[m]]
        /\ free_stack' = IF x \in gone THEN FreeNode(stack, x) ELSE stack

-----------------------------------------------------------------------------
(* init *)

Init ==
    /\ live = {0}
    /\ is_free = [n \in Node |-> n = 0]
    /\ start = [n \in Node |-> 0]
    /\ npages = [n \in Node |-> IF n = 0 THEN TotalPages ELSE 0]
    /\ prev = [n \in Node |-> Null]
    /\ next = [n \in Node |-> Null]
    /\ head = 0
    /\ free_stack = [i \in 1 .. MaxNodes - 1 |-> MaxNodes - i]
    /\ lock = FALSE
    /\ call = "idle"
    /\ cur = Null
    /\ page = 0 /\ want = 0 /\ align = 1
    /\ held = {} /\ intact = {} /\ starved = FALSE

-----------------------------------------------------------------------------
(* alloc_pages *)

\* The function returns: the lock is released and its locals are gone.
Return ==
    /\ lock' = FALSE
    /\ call' = "idle"
    /\ cur' = Null
    /\ page' = 0 /\ want' = 0 /\ align' = 1

AlignUp(v, a) == IF v % a = 0 THEN v ELSE v + a - (v % a)

Padding(n) == AlignUp(start[n], align) - start[n]

Fits_WithoutFreeTest(n) == npages[n] >= want /\ Padding(n) + want <= npages[n]
Fits_WithStrictTest(n) == is_free[n] /\ npages[n] > want /\ Padding(n) + want <= npages[n]

\* The node passes both tests of the loop: a request fits after its padding.
Fits(n) == is_free[n] /\ npages[n] >= want /\ Padding(n) + want <= npages[n]

\* alloc_pages is called, with npages # 0, and takes the lock.
CallAlloc(n, a) ==
    /\ call = "idle"
    /\ ~lock
    /\ lock' = TRUE
    /\ call' = "alloc"
    /\ cur' = head
    /\ want' = n /\ align' = a
    /\ UNCHANGED <<live, fields, head, free_stack, page, history>>

\* The node under the cursor cannot serve the request.
AllocSkip ==
    /\ call = "alloc" /\ cur # Null
    /\ ~Fits(cur)
    /\ cur' = next[cur]
    /\ UNCHANGED <<live, fields, head, free_stack, lock, call, args, history>>

\* The left padding is split off; the cursor moves to the aligned remainder.
AllocPad(r) ==
    /\ call = "alloc" /\ cur # Null
    /\ Fits(cur) /\ Padding(cur) > 0
    /\ Split(cur, Padding(cur), r, TRUE)
    /\ cur' = r
    /\ UNCHANGED <<head, lock, call, args, history>>

\* The callers learn of the range that starts at page s.
HandOut(s) ==
    /\ held' = held \cup PagesOf(s, want)
    /\ intact' = intact \cup {<<s, want>>}
    /\ UNCHANGED starved

\* The node starts where it should and is too large: its left part is handed out.
AllocTrim(r) ==
    /\ call = "alloc" /\ cur # Null
    /\ Fits(cur) /\ Padding(cur) = 0 /\ npages[cur] > want
    /\ Split(cur, want, r, FALSE)
    /\ HandOut(start[cur])
    /\ Return
    /\ UNCHANGED head

AllocSplitFails_WithoutAdvance ==
    /\ call = "alloc" /\ cur # Null
    /\ Fits(cur) /\ (Padding(cur) > 0 \/ npages[cur] > want)
    /\ NodeAllocationFails
    /\ starved' = TRUE
    /\ UNCHANGED <<live, fields, head, free_stack, lock, call, cur, args, held, intact>>

\* A split in alloc_pages fails; the walk goes on with the next node.
AllocSplitFails ==
    /\ call = "alloc" /\ cur # Null
    /\ Fits(cur) /\ (Padding(cur) > 0 \/ npages[cur] > want)
    /\ NodeAllocationFails
    /\ cur' = next[cur]
    /\ starved' = TRUE
    /\ UNCHANGED <<live, fields, head, free_stack, lock, call, args, held, intact>>

\* The node is exactly the range wanted.
AllocExact ==
    /\ call = "alloc" /\ cur # Null
    /\ Fits(cur) /\ Padding(cur) = 0 /\ npages[cur] = want
    /\ is_free' = [is_free EXCEPT ![cur] = FALSE]
    /\ HandOut(start[cur])
    /\ Return
    /\ UNCHANGED <<live, start, npages, prev, next, head, free_stack>>

\* The end of the list: nullopt is returned.
AllocFail ==
    /\ call = "alloc" /\ cur = Null
    /\ Return
    /\ UNCHANGED <<live, fields, head, free_stack, history>>

-----------------------------------------------------------------------------
(* free *)

\* free is called, with npages # 0.  An address below base_ wraps around to a page
\* far above total_pages_; every such page is TotalPages here, and is refused
\* before the lock is taken.
CallFree(p, n) ==
    /\ call = "idle"
    /\ p < TotalPages
    /\ ~lock
    /\ lock' = TRUE
    /\ call' = "free"
    /\ cur' = head
    /\ page' = p /\ want' = n
    /\ UNCHANGED <<live, fields, head, free_stack, align, history>>

\* The ranges handed out that the running call to free has nothing to do with.
Untouched == {r \in intact : PagesOf(r[1], r[2]) \cap PagesOf(page, want) = {}}

\* The node is allocated and holds the first page to be freed.
Holds(n) == ~is_free[n] /\ start[n] <= page /\ page < End(n)

FreeSkip ==
    /\ call = "free" /\ cur # Null
    /\ ~Holds(cur)
    /\ cur' = next[cur]
    /\ UNCHANGED <<live, fields, head, free_stack, lock, call, args, history>>

\* The range runs past the node: false is returned.
FreeReject ==
    /\ call = "free" /\ cur # Null
    /\ Holds(cur) /\ page + want > End(cur)
    /\ Return
    /\ UNCHANGED <<live, fields, head, free_stack, history>>

\* What follows the range is split off, and stays allocated.
FreeSplitRight(r) ==
    /\ call = "free" /\ cur # Null
    /\ Holds(cur) /\ page + want < End(cur)
    /\ Split(cur, npages[cur] - (End(cur) - (page + want)), r, FALSE)
    /\ UNCHANGED <<head, lock, call, cur, args, history>>

\* Then what precedes it; the cursor moves to the range itself.
FreeSplitLeft(r) ==
    /\ call = "free" /\ cur # Null
    /\ Holds(cur) /\ page + want = End(cur) /\ start[cur] < page
    /\ Split(cur, page - start[cur], r, FALSE)
    /\ cur' = r
    /\ UNCHANGED <<head, lock, call, args, history>>

\* A split in free fails: false is returned, a first split is not undone.
FreeSplitFails ==
    /\ call = "free" /\ cur # Null
    /\ Holds(cur)
    /\ page + want < End(cur) \/ (page + want = End(cur) /\ start[cur] < page)
    /\ NodeAllocationFails
    /\ starved' = TRUE
    /\ intact' = Untouched
    /\ Return
    /\ UNCHANGED <<live, fields, head, free_stack, held>>

\* The node is the range: it becomes free and is merged; true is returned.
FreeExact ==
    /\ call = "free" /\ cur # Null
    /\ Holds(cur) /\ start[cur] = page /\ npages[cur] = want
    /\ Coalesce(cur)
    /\ held' = held \ PagesOf(page, want)
    /\ intact' = Untouched
    /\ Return
    /\ UNCHANGED <<head, starved>>

\* No allocated node holds the page: false is returned.
FreeMiss ==
    /\ call = "free" /\ cur = Null
    /\ Return
    /\ UNCHANGED <<live, fields, head, free_stack, history>>

-----------------------------------------------------------------------------

Step ==
    \/ AllocSkip \/ AllocSplitFails \/ AllocExact \/ AllocFail
    \/ FreeSkip \/ FreeReject \/ FreeSplitFails \/ FreeExact \/ FreeMiss
    \/ \E r \in Node : AllocPad(r) \/ AllocTrim(r) \/ FreeSplitRight(r) \/ FreeSplitLeft(r)

Call ==
    \E n \in 1 .. MaxRequest :
        \/ \E a \in Aligns : CallAlloc(n, a)
        \/ \E p \in 0 .. TotalPages : CallFree(p, n)

Next == Call \/ Step

Spec == Init /\ [][Next]_vars

\* A call that runs holds the lock with interrupts off: nothing stops its loop.
FairSpec == Spec /\ WF_vars(Step)

-----------------------------------------------------------------------------
(* free_pages_total: the sum over the list, from head_ on. *)
free_pages_total ==
    LET sum[n \in live \cup {Null}] ==
            IF n = Null THEN 0
            ELSE (IF is_free[n] THEN npages[n] ELSE 0) + sum[next[n]]
    IN  sum[head]

-----------------------------------------------------------------------------
(* Properties *)

\* Every variable has a value of its type.
TypeOK ==
    /\ live \subseteq Node
    /\ is_free \in [Node -> BOOLEAN]
    /\ start \in [Node -> Nat] /\ npages \in [Node -> Nat]
    /\ prev \in [Node -> Node \cup {Null}] /\ next \in [Node -> Node \cup {Null}]
    /\ head \in Node
    /\ free_stack \in Seq(PoolNodes)
    /\ lock \in BOOLEAN
    /\ call \in {"idle", "alloc", "free"}
    /\ cur \in Node \cup {Null}
    /\ page \in Nat /\ want \in Nat /\ align \in Nat \ {0}
    /\ held \subseteq Page
    /\ intact \subseteq Page \X (1 .. MaxRequest)
    /\ starved \in BOOLEAN

\* Both directions of the list agree, and each node starts where the one before ends.
NodesLinked ==
    /\ head \in live /\ start[head] = 0
    /\ \A n \in live :
        /\ IF n = head THEN prev[n] = Null
           ELSE prev[n] \in live /\ next[prev[n]] = n
        /\ IF next[n] = Null THEN End(n) = TotalPages
           ELSE next[n] \in live /\ prev[next[n]] = n /\ start[next[n]] = End(n)

NodesInRange == \A n \in live : npages[n] > 0 /\ End(n) <= TotalPages

NodesOrdered == \A m, n \in live : m = n \/ End(m) <= start[n] \/ End(n) <= start[m]

\* split_node_left and coalesce keep the nodes cutting the whole range into
\* consecutive pieces: no page falls between two nodes, belongs to two, or lies off
\* the list.
ListTilesRange == NodesLinked /\ NodesInRange /\ NodesOrdered

\* A pool node is on the list or, once, on free_stack_: none leaks and none is handed
\* out twice, so that free_node never pushes past the end of free_stack_.
PoolNodesAccounted ==
    /\ \A i, j \in DOMAIN free_stack : free_stack[i] = free_stack[j] => i = j
    /\ \A n \in PoolNodes : n \in live <=> \A i \in DOMAIN free_stack : free_stack[i] # n
    /\ Len(free_stack) <= MaxNodes

\* What the list calls allocated is what the callers were told they hold: also after
\* a call that gave up half way through its splits.
UsedIsHeld == UsedPages = held

\* free_pages_total counts every page that nobody holds, and nothing else.
FreeTotalIsRest ==
    free_pages_total = TotalPages - Cardinality(held)

\* alloc_pages takes the lowest aligned run of pages that nobody holds, and answers
\* nullopt only when there is none: the cursor passes no such run by.  A split that
\* fails breaks this for good, its leftover free neighbours are not merged.
FirstFit ==
    call = "alloc" /\ ~starved =>
        \A s \in 0 .. (IF cur = Null THEN TotalPages ELSE start[cur]) - want :
            s % align = 0 => PagesOf(s, want) \cap held # {}

\* free answers false.
FreeRefuses ==
    call = "free" /\ (cur = Null \/ (Holds(cur) /\ page + want > End(cur)))

\* A range as alloc_pages returned it can be given back in one call, whatever was
\* allocated and freed around it: only a free inside the range itself that succeeded,
\* or ran out of nodes between its two splits, can spoil that.
IntactRangeIsFreeable == FreeRefuses => <<page, want>> \notin intact

\* What callers can count on beyond that: the free pages are the rest, a run that is free
\* is found, and a range that was given out can be given back.
CallersView == FreeTotalIsRest /\ FirstFit /\ IntactRangeIsFreeable

\* Both loops reach the end of the list or return before it.
CallReturns == call # "idle" ~> call = "idle"

\* The allocator does what PageReservation promises, the pages held being those
\* its return values speak of.
Reservation == INSTANCE PageReservation WITH reserved <- held
ImplementsReservation == Reservation!Spec

==============================================================================
