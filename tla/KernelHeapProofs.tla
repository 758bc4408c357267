--------------------------- MODULE KernelHeapProofs ---------------------------
(***************************************************************************)
(* The invariants of the kernel heap hold for every size of a page, of the *)
(* heap and of the memory: no call of malloc or free, however many steps   *)
(* it takes and wherever memory ends, leaves the accounts of dlmalloc, of  *)
(* the virtual address allocator or of the page tables wrong.              *)
(***************************************************************************)
EXTENDS KernelHeap, NumberTheorems, FiniteSetTheorems

USE TypesAssumption

\* What divides both sides of an inequality can be left out.
LEMMA Cancel ==
    ASSUME NEW d \in Nat \ {0}, NEW a \in Nat, NEW b \in Nat, d * a < d * b
    PROVE  a < b
<1> SUFFICES ASSUME a >= b PROVE FALSE
    OBVIOUS
<1>1. d * (a - b) >= 0
    OBVIOUS
<1> QED
    BY <1>1

LEMMA Scale ==
    ASSUME NEW d \in Nat, NEW a \in Nat, NEW b \in Nat, a <= b
    PROVE  a * d \in Nat /\ b * d \in Nat /\ a * d <= b * d
<1>1. (b - a) * d \in Nat
    OBVIOUS
<1> QED
    BY <1>1

-----------------------------------------------------------------------------
(* Pages *)

\* So many pages hold the granules, and one less would not.
LEMMA PagesBounds ==
    ASSUME NEW x \in Nat
    PROVE  /\ Pages(x) \in Nat
           /\ PageSize * Pages(x) >= x /\ PageSize * Pages(x) < x + PageSize
           /\ x > 0 => Pages(x) > 0
<1> DEFINE v == x + PageSize - 1
           q == v \div PageSize
           r == v % PageSize
<1>1. v \in Nat
    OBVIOUS
<1>2. q \in Nat /\ r \in 0 .. PageSize - 1 /\ v = PageSize * q + r
    BY <1>1, Quotient
<1>3. Pages(x) = q
    BY DEF Pages
<1> HIDE DEF q, r
<1>4. q = 0 => PageSize * q = 0
    OBVIOUS
<1> DEFINE p == PageSize * q
<1>5. p \in Int /\ v = p + r
    BY <1>2
<1> HIDE DEF p
<1>6. p >= x /\ p < x + PageSize
    BY <1>2, <1>5
<1> QED
    BY <1>2, <1>3, <1>4, <1>6 DEF p

\* More granules do not need fewer pages.
LEMMA PagesGrow ==
    ASSUME NEW x \in Nat, NEW y \in Nat, x <= y
    PROVE  Pages(x) <= Pages(y)
<1>1. /\ Pages(x) \in Nat /\ Pages(y) \in Nat
      /\ PageSize * Pages(y) >= y /\ PageSize * Pages(x) < x + PageSize
    BY PagesBounds
<1> DEFINE a == Pages(x)
           b == Pages(y)
<1> HIDE DEF a, b
<1>2. PageSize * (b + 1) = PageSize * b + PageSize /\ PageSize * b \in Nat /\ PageSize * a \in Nat
    BY <1>1 DEF a, b
<1>3. PageSize * a < PageSize * (b + 1)
    BY <1>1, <1>2 DEF a, b
<1>4. a < b + 1
    BY <1>1, <1>3, Cancel DEF a, b
<1> QED
    BY <1>1, <1>4 DEF a, b

\* To round up a sum takes no more pages than to round up its parts.
LEMMA PagesOfSum ==
    ASSUME NEW x \in Nat, NEW y \in Nat
    PROVE  Pages(x + y) <= Pages(x) + Pages(y)
<1> DEFINE a == Pages(x)
           b == Pages(y)
           c == Pages(x + y)
<1>1. /\ a \in Nat /\ b \in Nat /\ c \in Nat
      /\ PageSize * a >= x /\ PageSize * b >= y /\ PageSize * c < x + y + PageSize
    <2>1. x + y \in Nat
        OBVIOUS
    <2> QED
        BY <2>1, PagesBounds
<1> HIDE DEF a, b, c
<1>2. PageSize * (a + b + 1) = PageSize * a + PageSize * b + PageSize
    BY <1>1
<1>3. PageSize * a \in Nat /\ PageSize * b \in Nat /\ PageSize * c \in Nat
    BY <1>1
<1>4. PageSize * c < PageSize * (a + b + 1)
    BY <1>1, <1>2, <1>3
<1>5. c < a + b + 1
    BY <1>1, <1>4, Cancel
<1> QED
    BY <1>1, <1>5 DEF a, b, c

-----------------------------------------------------------------------------
(* The inductive invariant *)

\* Where a range for n granules begins.
StartsOf(n) == {s \in Area : Run(s, Pages(n + Overhead)) \subseteq Area \ held}

Inside == {"malloc", "reserve", "mmap", "grow", "sbrk"}

\* The accounts of dlmalloc.
AmountsInv ==
    /\ top \in Nat /\ fast \in Nat /\ binned \in Nat /\ inUse \in Nat /\ nodeUse \in Nat
    /\ heap_top \in heap_base .. heap_base + HeapPages
    /\ TopMeetsBreak

\* What a call has found out so far, and what it holds.
ControlInv ==
    /\ pc \in Inside \cup {"idle", "halted"}
    /\ cause \in {"none", "fault", "munmap", "shrink"}
    /\ took \in {"none", "pool", "heap"} /\ result \in {"chunk", "null"}
    /\ lock \in BOOLEAN /\ nodes \in 0 .. Nodes
    /\ req \in Requests \cup {0, NodeSize} /\ outer \in Requests \cup {0}
    /\ pc \in Inside => req \in IF outer = 0 THEN Requests ELSE {NodeSize}
    /\ pc \in {"idle", "malloc"} => took = "none"
    /\ pc = "reserve" => took = IF lock THEN "heap" ELSE "none"
    /\ pc \in {"reserve", "mmap"} /\ took = "heap" => nodeUse >= NodeSize
    /\ pc = "mmap" /\ took = "pool" => nodes < Nodes
    /\ pc \in {"reserve", "mmap", "grow", "sbrk"} => top < req + MinSize

\* While malloc runs for a list node it serves a small request with nothing in the
\* fastbins, and the range of the request that waits is still there.
LockInv ==
    /\ outer # 0 =>
        /\ lock /\ pc \in {"malloc", "grow", "sbrk", "halted"}
        /\ req = NodeSize /\ fast = 0
        /\ outer >= MmapThreshold /\ top < outer + MinSize
    /\ lock /\ outer = 0 => pc \in {"reserve", "halted"}
    /\ pc = "reserve" /\ ~ lock => fast = 0 /\ req >= MmapThreshold
    /\ lock => StartsOf(IF outer = 0 THEN req ELSE outer) # {}

Reservation == Run(start, MmapPages)

\* Each reserved range is of one owner.
RangesInv ==
    /\ held \subseteq Area /\ Run(heap_base, HeapPages) \subseteq held
    /\ chunks \subseteq [start : Area, pages : 1 .. RangePages]
    /\ \A c \in chunks : ChunkRun(c) \subseteq held \ Run(heap_base, HeapPages)
    /\ \A c, d \in chunks : c = d \/ ChunkRun(c) \cap ChunkRun(d) = {}
    /\ start \in Area \cup {0}
    /\ pc = "mmap" =>
        /\ start \in Area /\ MmapPages \in 1 .. RangePages
        /\ Reservation \subseteq held \ Run(heap_base, HeapPages)
        /\ \A c \in chunks : ChunkRun(c) \cap Reservation = {}

\* How far the loops of mmap and sbrk have come.
ProgressInv ==
    /\ frames \in 0 .. Frames
    /\ mapped \subseteq 0 .. Wrap - 1 /\ tabled \subseteq 0 .. Wrap \div Span
    /\ HandedOutIsMapped
    /\ i \in 0 .. Wrap
    /\ pc = "mmap" => i \in 0 .. MmapPages /\ Run(start, i) \subseteq mapped
    /\ pc = "sbrk" =>
        /\ 2 * GrowPages < Wrap /\ ~ TooFar
        /\ i \in 0 .. GrowPages /\ frames + i <= Frames
        /\ Run(heap_top, i) \subseteq mapped

\* Pages were lost, or will be, and the processor halts before the call returns: sbrk
\* has no page to begin with, or asks for more than there are.
Doomed ==
    \/ pc = "halted"
    \/ pc = "grow" /\ frames = 0 /\ 2 * GrowPages < Wrap
    \/ pc = "sbrk" /\ frames = 0 /\ i = 0
    \/ pc = "sbrk" /\ GrowPages > Frames

AllChunks == UNION {ChunkRun(c) : c \in chunks}

InProgress ==
    IF pc = "mmap" THEN Run(start, i) ELSE IF pc = "sbrk" THEN Run(heap_top, i) ELSE {}

\* Every page and every address has its owner.
Exact ==
    /\ mapped = (HeapRun \cup AllChunks) \cup InProgress
    /\ held = (Run(heap_base, HeapPages) \cup AllChunks)
                \cup (IF pc = "mmap" THEN Reservation ELSE {})
    /\ Frames - frames = Cardinality(mapped) + Cardinality(tabled)

AccountInv == Doomed \/ Exact

IInv == AmountsInv /\ ControlInv /\ LockInv /\ RangesInv /\ ProgressInv /\ AccountInv

-----------------------------------------------------------------------------
\* What sbrk is asked for is at least a page and serves the request.
LEMMA GrowBounds ==
    ASSUME top \in Nat, req \in Nat, top < req + MinSize
    PROVE  /\ GrowPages \in Nat \ {0} /\ GrowPages <= Pages(req + (TopPad + MinSize))
           /\ GrowPages * PageSize >= req + TopPad + MinSize - top
           /\ GrowPages * PageSize < req + TopPad + MinSize - top + PageSize
<1> DEFINE x == req + TopPad + MinSize - top
           y == req + (TopPad + MinSize)
<1>1. x \in Nat /\ x > 0 /\ y \in Nat /\ x <= y
    OBVIOUS
<1>2. GrowPages = Pages(x)
    BY DEF GrowPages
<1> HIDE DEF x, y
<1>3. /\ Pages(x) \in Nat /\ Pages(x) > 0 /\ Pages(x) <= Pages(y)
      /\ PageSize * Pages(x) >= x /\ PageSize * Pages(x) < x + PageSize
    BY <1>1, PagesBounds, PagesGrow
<1> DEFINE g == Pages(x)
<1>4. PageSize * g = g * PageSize
    BY <1>3
<1> HIDE DEF g
<1> QED
    BY <1>1, <1>2, <1>3, <1>4 DEF x, y, g

LEMMA RequestsAreNumbers == ControlInv => req \in Nat /\ outer \in Nat
BY DEF ControlInv

\* Where there are enough pages the test of sbrk does not wrap.
LEMMA SbrkFits ==
    ASSUME heap_top \in heap_base .. heap_base + HeapPages, GrowPages \in Nat, GrowPages <= Frames,
           ~ TooFar
    PROVE  heap_top + GrowPages <= heap_base + HeapPages
<1> DEFINE t == heap_top + GrowPages
<1>1. t \in 0 .. Wrap - 1
    BY SizesAssumption DEF heap_base
<1> HIDE DEF t
<1>2. t % Wrap = t
    BY <1>1
<1> QED
    BY <1>1, <1>2 DEF t, TooFar, heap_base

\* The accounts of dlmalloc agree after every step.
LEMMA AmountsKept == AmountsInv /\ ControlInv /\ LockInv /\ ProgressInv /\ [Next]_vars => AmountsInv'
<1> SUFFICES ASSUME AmountsInv, ControlInv, LockInv, ProgressInv, [Next]_vars
             PROVE  AmountsInv'
    OBVIOUS
<1> USE DEF AmountsInv, TopMeetsBreak
<1>0. req \in Nat
    BY RequestsAreNumbers
<1> DEFINE Same == UNCHANGED <<top, fast, binned, inUse, nodeUse, heap_top>>
<1>1. ASSUME Same PROVE AmountsInv'
    BY <1>1 DEF heap_base
<1>2. ASSUME UNCHANGED vars PROVE AmountsInv'
    BY <1>1, <1>2 DEF vars, dl, system
<1>3. ASSUME NEW n \in Requests, CallMalloc(n) PROVE AmountsInv'
    BY <1>1, <1>3 DEF CallMalloc, dl, system
<1>4. CASE FromFastbin
    BY <1>0, <1>4 DEF FromFastbin, GiveOut, system, heap_base
<1>5. CASE FromBin
    BY <1>0, <1>5 DEF FromBin, GiveOut, system, heap_base
<1>6. CASE FromTop
    BY <1>0, <1>6 DEF FromTop, GiveOut, system, heap_base
<1>7. ASSUME NEW k \in 0 .. HeapGranules, Consolidate(k) PROVE AmountsInv'
    <2>1. k \in Nat
        BY DEF HeapGranules
    <2> QED
        BY <1>7, <2>1 DEF Consolidate, system, heap_base
<1>8. CASE Relay \/ ReserveFails \/ GiveUp \/ SbrkRefuses \/ SbrkStart \/ SbrkFails
    BY <1>1, <1>8 DEF Relay, ReserveFails, GiveUp, SbrkRefuses, SbrkStart, SbrkFails, dl, system
<1>9. CASE ReserveRest \/ ReserveFromPool \/ CallNew \/ ReserveFromHeap
    BY <1>1, <1>9 DEF ReserveRest, ReserveFromPool, CallNew, ReserveFromHeap, Reserve, dl
<1>10. CASE MapPage \/ MmapDone \/ MmapNoTable
    BY <1>1, <1>10 DEF MapPage, MmapDone, MmapNoTable, dl, system
<1>11. CASE MmapNoPage
    <2>1. CASE took = "heap"
        BY <1>11, <2>1 DEF MmapNoPage, ControlInv, heap_base
    <2>2. CASE took # "heap"
        BY <1>1, <1>11, <2>2 DEF MmapNoPage
    <2> QED
        BY <2>1, <2>2
<1>12. CASE SbrkDone
    <2>1. pc = "sbrk" /\ i = GrowPages /\ top < req + MinSize
        BY <1>12 DEF SbrkDone, Count, ControlInv
    <2> DEFINE g == GrowPages
               m == g * PageSize
    <2>2. g \in Nat \ {0} /\ m >= req + TopPad + MinSize - top
        BY <1>0, <2>1, GrowBounds
    <2>3. heap_top' = heap_top + g /\ top' = top + m - req
        BY <1>12, <2>1 DEF SbrkDone, Count
    <2>4. /\ fast' = fast /\ binned' = binned
          /\ IF outer = 0 THEN inUse' = inUse + req /\ nodeUse' = nodeUse
             ELSE inUse' = inUse /\ nodeUse' = nodeUse + req
        BY <1>12 DEF SbrkDone, GiveOut
    <2>5. heap_top + g <= heap_base + HeapPages
        <3>1. g <= Frames
            BY <2>1, <2>2 DEF ProgressInv
        <3> QED
            BY <2>1, <2>2, <3>1, SbrkFits DEF ProgressInv
    <2>6. (heap_top' - heap_base) * PageSize = (heap_top - heap_base) * PageSize + m
        BY <2>2, <2>3 DEF heap_base
    <2>7. m \in Nat
        BY <2>2
    <2>8. /\ top' \in Nat /\ inUse' \in Nat /\ nodeUse' \in Nat
          /\ top' + fast' + binned' + inUse' + nodeUse' = top + fast + binned + inUse + nodeUse + m
        <3> HIDE DEF m
        <3> QED
            BY <1>0, <2>2, <2>3, <2>4, <2>7
    <2> QED
        BY <2>2, <2>3, <2>4, <2>5, <2>6, <2>8 DEF heap_base
<1>13. ASSUME NEW n \in 1 .. MaxFast, FreeFast(n) PROVE AmountsInv'
    BY <1>13 DEF FreeFast, system, heap_base
<1>14. ASSUME NEW n \in 1 .. HeapGranules, NEW k \in 0 .. HeapGranules, NEW m \in 0 .. HeapGranules,
              NEW reachesTop \in BOOLEAN, Free(n, k, m, reachesTop)
       PROVE  AmountsInv'
    <2>1. n \in Nat /\ k \in Nat /\ m \in Nat
        BY DEF HeapGranules
    <2> QED
        BY <1>14, <2>1 DEF Free, system, heap_base
<1>15. ASSUME NEW c \in chunks, FreeMmapped(c) PROVE AmountsInv'
    BY <1>1, <1>15 DEF FreeMmapped, system
<1>16. CASE Halted
    BY <1>2, <1>16 DEF Halted
<1> QED
    BY <1>2, <1>3, <1>4, <1>5, <1>6, <1>7, <1>8, <1>9, <1>10, <1>11, <1>12, <1>13, <1>14,
       <1>15, <1>16 DEF Next, Step

\* While a list node is made, the lock is held and malloc serves NodeSize.
LEMMA NewGrowsLittle ==
    ASSUME AmountsInv, ControlInv, LockInv, SbrkDone, outer # 0
    PROVE  top' < outer + MinSize
<1>1. pc = "sbrk" /\ i = GrowPages /\ top < req + MinSize /\ req \in Nat /\ outer \in Nat
    BY RequestsAreNumbers DEF SbrkDone, Count, ControlInv
<1> DEFINE m == GrowPages * PageSize
<1>2. m < req + TopPad + MinSize - top + PageSize /\ m \in Nat
    BY <1>1, GrowBounds DEF AmountsInv
<1>3. top' = top + m - req
    BY <1>1 DEF SbrkDone, Count
<1>4. outer >= MmapThreshold /\ top \in Nat
    BY DEF LockInv, AmountsInv
<1> HIDE DEF m
<1> QED
    BY <1>1, <1>2, <1>3, <1>4, SizesAssumption

LEMMA ControlKept == AmountsInv /\ ControlInv /\ LockInv /\ [Next]_vars => ControlInv'
<1> SUFFICES ASSUME AmountsInv, ControlInv, LockInv, [Next]_vars
             PROVE  ControlInv'
    OBVIOUS
<1>0. req \in Nat /\ outer \in Nat
    BY RequestsAreNumbers
<1> USE DEF ControlInv, Inside
<1>2. ASSUME UNCHANGED vars PROVE ControlInv'
    BY <1>2 DEF vars, dl, system, local
<1>3. ASSUME NEW n \in Requests, CallMalloc(n) PROVE ControlInv'
    BY <1>3 DEF CallMalloc, dl, system, LockInv
<1>R. ASSUME GiveOut, nodeUse \in Nat, UNCHANGED <<lock, nodes>>, pc \in {"malloc", "sbrk"},
             outer # 0 => top' < outer + MinSize
      PROVE  ControlInv'
    BY <1>0, <1>R DEF GiveOut, Return, LockInv
<1>4. CASE FromFastbin
    BY <1>0, <1>R, <1>4 DEF FromFastbin, system, AmountsInv, LockInv
<1>5. CASE FromBin
    BY <1>0, <1>R, <1>5 DEF FromBin, system, AmountsInv, LockInv
<1>6. CASE FromTop
    BY <1>0, <1>R, <1>6 DEF FromTop, system, AmountsInv, LockInv
<1>7. ASSUME NEW k \in 0 .. HeapGranules, Consolidate(k) PROVE ControlInv'
    BY <1>7 DEF Consolidate, system, local, MustConsolidate, NoSpace
<1>8. CASE Relay
    BY <1>8, SizesAssumption DEF Relay, NoSpace, UseMmap, dl, system, local, LockInv
<1>9. CASE ReserveFails \/ SbrkRefuses \/ SbrkStart \/ SbrkFails
    BY <1>9 DEF ReserveFails, SbrkRefuses, SbrkStart, SbrkFails, Fault, dl, system, local
<1>10. CASE GiveUp
    BY <1>10 DEF GiveUp, dl, system
<1>11. CASE ReserveRest \/ ReserveFromHeap
    <2>1. took' = took /\ nodes' = nodes /\ lock' \in BOOLEAN /\ pc = "reserve" /\ pc' = "mmap"
        BY <1>11 DEF ReserveRest, ReserveFromHeap, Reserve
    <2>2. UNCHANGED <<cause, req, outer, result, top, nodeUse>>
        BY <1>11 DEF ReserveRest, ReserveFromHeap, Reserve, dl
    <2>3. took # "pool"
        BY <2>1
    <2> QED
        BY <2>1, <2>2, <2>3
<1>21. CASE ReserveFromPool
    <2>1. took' = "pool" /\ nodes' = nodes - 1 /\ nodes > 0 /\ lock' = lock /\ pc = "reserve" /\ pc' = "mmap"
        BY <1>21 DEF ReserveFromPool, Reserve
    <2>2. UNCHANGED <<cause, req, outer, result, top, nodeUse>>
        BY <1>21 DEF ReserveFromPool, Reserve, dl
    <2>3. nodes' \in 0 .. Nodes /\ nodes' < Nodes
        BY <2>1
    <2> QED
        BY <2>1, <2>2, <2>3
<1>12. CASE CallNew
    BY <1>12 DEF CallNew, dl, LockInv
<1>13. CASE MapPage \/ MmapNoTable
    BY <1>13 DEF MapPage, MmapNoTable, dl, local
<1>14. CASE MmapDone
    BY <1>14 DEF MmapDone, Return, system, LockInv
<1>15. CASE MmapNoPage
    BY <1>15 DEF MmapNoPage, local
<1>16. CASE SbrkDone
    BY <1>0, <1>R, <1>16, NewGrowsLittle DEF SbrkDone, AmountsInv
<1>17. ASSUME NEW n \in 1 .. MaxFast, FreeFast(n) PROVE ControlInv'
    BY <1>17 DEF FreeFast, system, local
<1>18. ASSUME NEW n \in 1 .. HeapGranules, NEW k \in 0 .. HeapGranules, NEW m \in 0 .. HeapGranules,
              NEW reachesTop \in BOOLEAN, Free(n, k, m, reachesTop)
       PROVE  ControlInv'
    BY <1>18 DEF Free, system, local
<1>19. ASSUME NEW c \in chunks, FreeMmapped(c) PROVE ControlInv'
    BY <1>19 DEF FreeMmapped, system, local
<1>20. CASE Halted
    BY <1>2, <1>20 DEF Halted
<1> QED
    BY <1>2, <1>3, <1>4, <1>5, <1>6, <1>7, <1>8, <1>9, <1>10, <1>11, <1>12, <1>13, <1>14,
       <1>15, <1>16, <1>17, <1>18, <1>19, <1>20, <1>21 DEF Next, Step

LEMMA LockKept == AmountsInv /\ ControlInv /\ LockInv /\ [Next]_vars => LockInv'
<1> SUFFICES ASSUME AmountsInv, ControlInv, LockInv, [Next]_vars
             PROVE  LockInv'
    OBVIOUS
<1>0. req \in Nat /\ outer \in Nat /\ fast \in Nat /\ top \in Nat /\ NodeSize > 0 /\ 0 \notin Requests
    BY RequestsAreNumbers DEF AmountsInv
<1> DEFINE Waits == IF outer = 0 THEN req ELSE outer
<1>S. ASSUME UNCHANGED <<held, req, outer>> PROVE StartsOf(Waits)' = StartsOf(Waits)
    BY <1>S DEF StartsOf
<1>T. ASSUME UNCHANGED held, outer = 0, req' = NodeSize, outer' = req, req # 0
      PROVE  StartsOf(Waits)' = StartsOf(Waits)
    BY <1>T DEF StartsOf
<1>U. ASSUME UNCHANGED held, outer # 0, req' = outer, outer' = 0
      PROVE  StartsOf(Waits)' = StartsOf(Waits)
    BY <1>U DEF StartsOf
<1>V. lock => StartsOf(Waits) # {}
    BY DEF LockInv
<1>W. lock /\ outer = 0 => pc \in {"reserve", "halted"}
    BY DEF LockInv
<1>2. ASSUME UNCHANGED vars PROVE LockInv'
    <2>1. UNCHANGED <<pc, held, req, outer, lock, fast, top>>
        BY <1>2 DEF vars, dl, system, local
    <2> QED
        BY <2>1, <1>S DEF LockInv
<1>F. ASSUME outer' = 0, ~ lock', pc' # "reserve" PROVE LockInv'
    BY <1>F DEF LockInv
<1>3. ASSUME NEW n \in Requests, CallMalloc(n) PROVE LockInv'
    BY <1>3, <1>F, <1>W DEF CallMalloc, dl, system, LockInv
<1>R. ASSUME GiveOut, UNCHANGED <<lock, held, fast>>, pc \in {"malloc", "sbrk"}
      PROVE  LockInv'
    <2>1. CASE outer = 0
        BY <1>R, <1>F, <1>W, <2>1 DEF GiveOut, Return, ControlInv
    <2>2. CASE outer # 0
        <3>1. lock' /\ outer' = 0 /\ pc' = "reserve" /\ req' = outer
            BY <1>R, <2>2 DEF GiveOut, Return, LockInv
        <3>2. StartsOf(Waits)' = StartsOf(Waits)
            BY <1>R, <1>U, <2>2, <3>1
        <3> QED
            BY <1>R, <1>V, <3>1, <3>2 DEF LockInv
    <2> QED
        BY <2>1, <2>2
<1>N. ASSUME lock' = lock, UNCHANGED <<held, req, outer>>, pc' # "reserve", outer # 0 => fast' = fast /\ top' = top,
             outer # 0 => pc' \in {"malloc", "grow", "sbrk", "halted"}, lock /\ outer = 0 => pc' = "halted"
      PROVE  LockInv'
    BY <1>N, <1>S, <1>V DEF LockInv
<1>4. CASE FromFastbin
    <2>1. outer = 0
        BY <1>0, <1>4 DEF FromFastbin, LockInv
    <2>2. ~ lock /\ lock' = lock /\ outer' = 0 /\ pc' = "idle"
        BY <1>4, <1>W, <2>1 DEF FromFastbin, GiveOut, Return, system
    <2> QED
        BY <1>F, <2>2
<1>5. CASE FromBin \/ FromTop
    BY <1>R, <1>5 DEF FromBin, FromTop, system
<1>6. CASE SbrkDone
    BY <1>R, <1>6 DEF SbrkDone
<1>7. ASSUME NEW k \in 0 .. HeapGranules, Consolidate(k) PROVE LockInv'
    <2>1. fast > 0 /\ pc = "malloc" /\ pc' = pc /\ UNCHANGED <<local, system>>
        BY <1>7 DEF Consolidate, MustConsolidate, NoSpace
    <2>2. outer = 0 /\ ~ lock
        BY <1>0, <1>W, <2>1 DEF LockInv
    <2> QED
        BY <1>F, <2>1, <2>2 DEF local, system
<1>8. CASE Relay
    <2>1. pc = "malloc" /\ pc' = (IF UseMmap THEN "reserve" ELSE "grow") /\ fast = 0
        BY <1>8 DEF Relay, NoSpace
    <2>2. UNCHANGED <<held, req, outer, lock, fast, top>>
        BY <1>8 DEF Relay, local, system, dl
    <2>3. CASE UseMmap
        <3>1. req >= MmapThreshold
            BY <2>3 DEF UseMmap
        <3>2. outer = 0
            BY <1>0, <3>1, SizesAssumption DEF LockInv
        <3> QED
            BY <1>W, <2>1, <2>2, <2>3, <3>1, <3>2 DEF LockInv
    <2>4. CASE ~ UseMmap
        BY <1>N, <1>W, <2>1, <2>2, <2>4
    <2> QED
        BY <2>3, <2>4
<1>9. CASE ReserveFails
    BY <1>N, <1>9 DEF ReserveFails, local, system, dl, LockInv
<1>10. CASE SbrkRefuses \/ SbrkStart \/ SbrkFails
    BY <1>N, <1>W, <1>10 DEF SbrkRefuses, SbrkStart, SbrkFails, Fault, local, system, dl
<1>11. CASE GiveUp
    <2>1. outer = 0
        <3> SUFFICES ASSUME outer # 0 PROVE FALSE
            OBVIOUS
        <3>1. req = NodeSize /\ top < req + MinSize /\ 2 * GrowPages >= Wrap
            BY <1>11 DEF LockInv, GiveUp, ControlInv
        <3>2. GrowPages <= Pages(NodeSize + (TopPad + MinSize)) /\ GrowPages \in Nat
            BY <1>0, <3>1, GrowBounds
        <3>3. NodeSize + (TopPad + MinSize) = NodeSize + TopPad + MinSize
            OBVIOUS
        <3>4. Pages(NodeSize + TopPad + MinSize) \in Nat
            <4>1. NodeSize + TopPad + MinSize \in Nat
                OBVIOUS
            <4> QED
                BY <4>1, PagesBounds
        <3> QED
            BY <3>1, <3>2, <3>3, <3>4, SizesAssumption
    <2> QED
        BY <1>F, <1>W, <1>11, <2>1 DEF GiveUp, system
<1>12. CASE ReserveRest \/ ReserveFromPool \/ ReserveFromHeap
    <2>1. outer' = outer /\ ~ lock' /\ pc' = "mmap"
        BY <1>12 DEF ReserveRest, ReserveFromPool, ReserveFromHeap, Reserve
    <2>2. outer = 0
        BY <1>12 DEF ReserveRest, ReserveFromPool, ReserveFromHeap, LockInv
    <2> QED
        BY <1>F, <2>1, <2>2
<1>13. CASE CallNew
    <2>1. /\ pc = "reserve" /\ ~ lock /\ lock' /\ pc' = "malloc" /\ outer' = req /\ req' = NodeSize
          /\ UNCHANGED <<held, fast, top>> /\ Starts # {}
        BY <1>13 DEF CallNew, dl
    <2>2. outer = 0 /\ req # 0 /\ fast = 0 /\ req >= MmapThreshold /\ top < req + MinSize
        BY <1>0, <2>1 DEF LockInv, ControlInv, Inside
    <2>3. StartsOf(Waits)' = StartsOf(Waits) /\ StartsOf(Waits) = Starts
        BY <1>T, <2>1, <2>2 DEF StartsOf, Starts, MmapPages
    <2> QED
        BY <2>1, <2>2, <2>3 DEF LockInv
<1>14. CASE MapPage \/ MmapNoTable
    BY <1>N, <1>W, <1>14 DEF MapPage, MmapNoTable, local, dl, LockInv
<1>15. CASE MmapDone \/ MmapNoPage
    <2>1. pc = "mmap" /\ outer = 0 /\ ~ lock
        BY <1>15, <1>W DEF MmapDone, MmapNoPage, LockInv
    <2> QED
        BY <1>F, <1>15, <2>1 DEF MmapDone, MmapNoPage, Return, system, local
<1>17. ASSUME NEW n \in 1 .. MaxFast, FreeFast(n) PROVE LockInv'
    BY <1>F, <1>W, <1>17 DEF FreeFast, system, local, LockInv
<1>18. ASSUME NEW n \in 1 .. HeapGranules, NEW k \in 0 .. HeapGranules, NEW m \in 0 .. HeapGranules,
              NEW reachesTop \in BOOLEAN, Free(n, k, m, reachesTop)
       PROVE  LockInv'
    <2>1. pc = "idle" /\ pc' \in {"idle", "halted"} /\ UNCHANGED <<outer, lock>>
        BY <1>18 DEF Free, system, local
    <2> QED
        BY <1>F, <1>W, <2>1 DEF LockInv
<1>19. ASSUME NEW c \in chunks, FreeMmapped(c) PROVE LockInv'
    BY <1>F, <1>W, <1>19 DEF FreeMmapped, system, local, LockInv
<1>20. CASE Halted
    BY <1>2, <1>20 DEF Halted
<1> QED
    BY <1>2, <1>3, <1>4, <1>5, <1>6, <1>7, <1>8, <1>9, <1>10, <1>11, <1>12, <1>13, <1>14,
       <1>15, <1>17, <1>18, <1>19, <1>20 DEF Next, Step

-----------------------------------------------------------------------------
(* The ranges *)

\* A range within the area is no longer than the area.
LEMMA RunFits ==
    ASSUME NEW s \in Area, NEW n \in Nat \ {0}, Run(s, n) \subseteq Area
    PROVE  n \in 1 .. RangePages /\ s + n <= RangeStart + RangePages
<1>1. s \in Nat /\ s >= RangeStart /\ s + n - 1 \in Run(s, n)
    BY DEF Area, Run
<1>2. s + n - 1 \in Area
    BY <1>1
<1> QED
    BY <1>1, <1>2 DEF Area

\* What mmap reserves was free, and there is room for it.
LEMMA ReservedWasFree ==
    ASSUME ControlInv, LockInv, Starts # {}, pc = "reserve"
    PROVE  /\ Min(Starts) \in Area /\ MmapPages \in 1 .. RangePages
           /\ Run(Min(Starts), MmapPages) \subseteq Area \ held
<1>1. Starts \subseteq Area /\ Area \subseteq Nat
    BY DEF Starts, Area
<1>2. PICK n \in Starts : \A m \in Starts : n <= m
    BY <1>1, LeastNumber
<1>3. Min(Starts) \in Starts
    BY <1>2 DEF Min
<1>4. MmapPages \in Nat \ {0}
    <2>1. req \in Nat \ {0}
        BY DEF ControlInv, Inside
    <2>2. req + Overhead \in Nat /\ req + Overhead > 0
        BY <2>1
    <2> QED
        BY <2>2, PagesBounds DEF MmapPages
<1>5. Min(Starts) \in Area /\ Run(Min(Starts), MmapPages) \subseteq Area \ held
    BY <1>3 DEF Starts
<1> QED
    BY <1>4, <1>5, RunFits

LEMMA RangesKept == ControlInv /\ LockInv /\ RangesInv /\ ProgressInv /\ [Next]_vars => RangesInv'
<1> SUFFICES ASSUME ControlInv, LockInv, RangesInv, ProgressInv, [Next]_vars
             PROVE  RangesInv'
    OBVIOUS
<1>S. ASSUME UNCHANGED <<held, chunks>>, start' \in {start, 0},
             pc' = "mmap" => pc = "mmap" /\ UNCHANGED <<start, req>>
      PROVE  RangesInv'
    BY <1>S DEF RangesInv, Reservation, MmapPages, ChunkRun
<1>2. ASSUME UNCHANGED vars PROVE RangesInv'
    BY <1>2, <1>S DEF vars, dl, system, local
<1>3. ASSUME NEW n \in Requests, CallMalloc(n) PROVE RangesInv'
    BY <1>3, <1>S DEF CallMalloc, dl, system
<1>4. CASE FromFastbin \/ FromBin \/ FromTop \/ SbrkDone
    BY <1>4, <1>S DEF FromFastbin, FromBin, FromTop, SbrkDone, GiveOut, Return, system
<1>5. ASSUME NEW k \in 0 .. HeapGranules, Consolidate(k) PROVE RangesInv'
    BY <1>5, <1>S DEF Consolidate, local, system
<1>6. CASE Relay \/ ReserveFails \/ GiveUp
    BY <1>6, <1>S DEF Relay, ReserveFails, GiveUp, local, system, dl
<1>7. CASE SbrkRefuses \/ SbrkStart \/ SbrkFails
    BY <1>7, <1>S DEF SbrkRefuses, SbrkStart, SbrkFails, Fault, local, system, dl
<1>8. CASE CallNew \/ MapPage \/ MmapNoTable
    BY <1>8, <1>S DEF CallNew, MapPage, MmapNoTable, local, dl
<1>9. CASE ReserveRest \/ ReserveFromPool \/ ReserveFromHeap
    <2>1. pc = "reserve" /\ Starts # {}
        BY <1>9 DEF ReserveRest, ReserveFromPool, ReserveFromHeap, LockInv, StartsOf, Starts, MmapPages
    <2>2. /\ held' = held \cup Run(Min(Starts), MmapPages)
          /\ start' = Min(Starts) /\ req' = req /\ chunks' = chunks
        BY <1>9 DEF ReserveRest, ReserveFromPool, ReserveFromHeap, Reserve, dl
    <2> DEFINE s == Min(Starts)
    <2>3. s \in Area /\ MmapPages \in 1 .. RangePages /\ Run(s, MmapPages) \subseteq Area \ held
        BY <2>1, ReservedWasFree
    <2>4. Reservation' = Run(s, MmapPages) /\ MmapPages' = MmapPages
        BY <2>2 DEF Reservation, MmapPages
    <2> HIDE DEF s
    <2>5. \A c : ChunkRun(c)' = ChunkRun(c)
        BY DEF ChunkRun
    <2> QED
        BY <2>2, <2>3, <2>4, <2>5 DEF RangesInv, ChunkRun, s
<1>10. CASE MmapDone
    <2> DEFINE new == [start |-> start, pages |-> MmapPages]
    <2>1. pc = "mmap" /\ chunks' = chunks \cup {new} /\ held' = held /\ pc' # "mmap" /\ start' = 0
        BY <1>10 DEF MmapDone, Count, Return, system
    <2>2. ChunkRun(new) = Reservation /\ new \in [start : Area, pages : 1 .. RangePages]
        BY <2>1 DEF ChunkRun, Reservation, RangesInv
    <2> HIDE DEF new
    <2> QED
        BY <2>1, <2>2 DEF RangesInv, ChunkRun
<1>11. CASE MmapNoPage
    <2>1. /\ pc = "mmap" /\ pc' # "mmap" /\ start' = start /\ chunks' = chunks
          /\ held' = held \ Reservation
        BY <1>11 DEF MmapNoPage, local, Count, Reservation
    <2> QED
        BY <2>1 DEF RangesInv, ChunkRun
<1>17. ASSUME NEW n \in 1 .. MaxFast, FreeFast(n) PROVE RangesInv'
    BY <1>S, <1>17 DEF FreeFast, system, local
<1>18. ASSUME NEW n \in 1 .. HeapGranules, NEW k \in 0 .. HeapGranules, NEW m \in 0 .. HeapGranules,
              NEW reachesTop \in BOOLEAN, Free(n, k, m, reachesTop)
       PROVE  RangesInv'
    <2>1. pc = "idle" /\ pc' \in {"idle", "halted"} /\ UNCHANGED <<start, held, chunks>>
        BY <1>18 DEF Free, system, local
    <2> QED
        BY <1>S, <2>1
<1>19. ASSUME NEW c \in chunks, FreeMmapped(c) PROVE RangesInv'
    BY <1>19 DEF FreeMmapped, system, local, RangesInv, ChunkRun
<1>20. CASE Halted
    BY <1>2, <1>20 DEF Halted
<1> QED
    BY <1>2, <1>3, <1>4, <1>5, <1>6, <1>7, <1>8, <1>9, <1>10, <1>11,
       <1>17, <1>18, <1>19, <1>20 DEF Next, Step

-----------------------------------------------------------------------------
(* The loops of mmap and sbrk *)

LEMMA QuotientGrows ==
    ASSUME NEW v \in Nat, NEW w \in Nat, NEW d \in Nat \ {0}, v <= w
    PROVE  v \div d <= w \div d
<1> DEFINE a == v \div d
           b == w \div d
           r == v % d
           s == w % d
<1>1. a \in Nat /\ r \in 0 .. d - 1 /\ v = d * a + r
    BY Quotient
<1>2. b \in Nat /\ s \in 0 .. d - 1 /\ w = d * b + s
    BY Quotient
<1> HIDE DEF a, b, r, s
<1>3. d * (b + 1) = d * b + d
    BY <1>2
<1>4. d * a < d * (b + 1)
    <2> DEFINE x == d * a
               y == d * b
    <2>1. x \in Nat /\ y \in Nat /\ v = x + r /\ w = y + s
        BY <1>1, <1>2
    <2> HIDE DEF x, y
    <2>2. x < y + d
        BY <1>1, <1>2, <2>1
    <2> QED
        BY <1>3, <2>2 DEF x, y
<1>5. a < b + 1
    BY <1>1, <1>2, <1>4, Cancel
<1> QED
    BY <1>1, <1>2, <1>5 DEF a, b

LEMMA TablesOfAddresses ==
    ASSUME NEW v \in 0 .. Wrap - 1
    PROVE  TableOf(v) \in 0 .. Wrap \div Span
<1>1. v \in Nat /\ v <= Wrap
    OBVIOUS
<1>2. v \div Span \in Nat /\ Wrap \div Span \in Nat /\ v \div Span <= Wrap \div Span
    BY <1>1, Quotient, QuotientGrows
<1> QED
    BY <1>2 DEF TableOf

LEMMA AreaIsAddresses == Area \subseteq 0 .. Wrap - 1
<1>1. RangeStart + RangePages <= Wrap
    BY SizesAssumption
<1> QED
    BY <1>1 DEF Area

\* The page of the next round is within the address space, and follows those before.
LEMMA TargetIs ==
    ASSUME AmountsInv, ControlInv, RangesInv, ProgressInv, pc \in {"mmap", "sbrk"}, i < Count
    PROVE  /\ Target = IF pc = "mmap" THEN start + i ELSE heap_top + i
           /\ Target \in 0 .. Wrap - 1 /\ TableOf(Target) \in 0 .. Wrap \div Span
           /\ Count \in Nat /\ Count <= Wrap /\ i \in Nat
<1>1. CASE pc = "mmap"
    <2>1. Count = MmapPages /\ Target = start + i /\ i \in Nat
        BY <1>1 DEF Count, Target, ProgressInv
    <2>2. start \in Area /\ MmapPages \in 1 .. RangePages /\ Reservation \subseteq Area
        BY <1>1 DEF RangesInv
    <2>3. start + i \in Reservation
        BY <2>1, <2>2 DEF Reservation, Run, Area
    <2>4. start + i \in 0 .. Wrap - 1
        BY <2>2, <2>3, AreaIsAddresses
    <2>5. MmapPages <= Wrap
        BY <2>2, SizesAssumption
    <2>6. TableOf(start + i) \in 0 .. Wrap \div Span
        BY <2>4, TablesOfAddresses
    <2> QED
        BY <1>1, <2>1, <2>2, <2>4, <2>5, <2>6
<1>2. CASE pc = "sbrk"
    <2>1. Count = GrowPages /\ Target = (heap_top + i) % Wrap /\ i \in Nat
        BY <1>2 DEF Count, Target, ProgressInv
    <2>2. GrowPages \in Nat /\ 2 * GrowPages < Wrap
        BY <1>2, RequestsAreNumbers, GrowBounds DEF ProgressInv, ControlInv, AmountsInv
    <2>3. frames + i <= Frames /\ frames \in Nat
        BY <1>2 DEF ProgressInv
    <2>4. heap_top + i \in 0 .. Wrap - 1
        BY <2>1, <2>3, SizesAssumption DEF AmountsInv, heap_base
    <2>5. (heap_top + i) % Wrap = heap_top + i
        <3> DEFINE t == heap_top + i
        <3> HIDE DEF t
        <3>1. t % Wrap = t
            BY <2>4 DEF t
        <3> QED
            BY <3>1 DEF t
    <2>6. TableOf(heap_top + i) \in 0 .. Wrap \div Span
        BY <2>4, TablesOfAddresses
    <2> QED
        BY <1>2, <2>1, <2>2, <2>4, <2>5, <2>6
<1> QED
    BY <1>1, <1>2

LEMMA ProgressKept ==
    AmountsInv /\ ControlInv /\ LockInv /\ RangesInv /\ ProgressInv /\ [Next]_vars => ProgressInv'
<1> SUFFICES ASSUME AmountsInv, ControlInv, LockInv, RangesInv, ProgressInv, [Next]_vars
             PROVE  ProgressInv'
    OBVIOUS
<1> DEFINE Same == UNCHANGED <<mapped, tabled, heap_top, chunks>>
<1>H. ASSUME UNCHANGED heap_top, chunks' \subseteq chunks, mapped \subseteq mapped' PROVE HandedOutIsMapped'
    BY <1>H DEF HandedOutIsMapped, ProgressInv, HeapRun, ChunkRun
<1>S. ASSUME Same, i' \in {i, 0}, frames' \in 0 .. frames, pc' \notin {"mmap", "sbrk"}
      PROVE  ProgressInv'
    <2>1. HandedOutIsMapped'
        BY <1>S, <1>H
    <2>2. frames' \in 0 .. Frames /\ i' \in 0 .. Wrap
        BY <1>S DEF ProgressInv
    <2> QED
        BY <1>S, <2>1, <2>2 DEF ProgressInv
<1>2. ASSUME UNCHANGED vars PROVE ProgressInv'
    <2>1. UNCHANGED <<pc, i, frames, mapped, tabled, heap_top, chunks, start, req, top>>
        BY <1>2 DEF vars, dl, system, local
    <2>2. UNCHANGED <<MmapPages, GrowPages, TooFar>>
        BY <2>1 DEF MmapPages, GrowPages, TooFar
    <2> QED
        BY <1>H, <2>1, <2>2 DEF ProgressInv
<1>3. ASSUME NEW n \in Requests, CallMalloc(n) PROVE ProgressInv'
    BY <1>3, <1>S DEF CallMalloc, dl, system, ProgressInv
<1>4. CASE FromFastbin \/ FromBin \/ FromTop
    <2>1. Same /\ frames' = frames /\ i' = 0 /\ pc' \notin {"mmap", "sbrk"}
        BY <1>4 DEF FromFastbin, FromBin, FromTop, GiveOut, Return, system
    <2> QED
        BY <1>S, <2>1 DEF ProgressInv
<1>5. ASSUME NEW k \in 0 .. HeapGranules, Consolidate(k) PROVE ProgressInv'
    <2>1. Same /\ frames' = frames /\ i' = i /\ pc' = "malloc"
        BY <1>5 DEF Consolidate, local, system, NoSpace, MustConsolidate
    <2> QED
        BY <1>S, <2>1 DEF ProgressInv
<1>6. CASE Relay \/ ReserveFails \/ GiveUp
    <2>1. Same /\ frames' = frames /\ i' \in {i, 0} /\ pc' \notin {"mmap", "sbrk"}
        BY <1>6 DEF Relay, ReserveFails, GiveUp, local, system, dl
    <2>2. frames' \in 0 .. frames
        BY <2>1 DEF ProgressInv
    <2> QED
        BY <1>S, <2>1, <2>2
<1>7. CASE SbrkRefuses \/ SbrkFails
    <2>1. Same /\ frames' \in {frames, 0} /\ i' = i /\ pc' = "halted"
        BY <1>7 DEF SbrkRefuses, SbrkFails, Fault, local, system, dl
    <2>2. frames' \in 0 .. frames
        BY <2>1 DEF ProgressInv
    <2> QED
        BY <1>S, <2>1, <2>2
<1>8. CASE CallNew \/ MmapNoTable
    <2>1. Same /\ frames' \in {frames, 0} /\ i' = i /\ pc' \notin {"mmap", "sbrk"}
        BY <1>8 DEF CallNew, MmapNoTable, local, dl
    <2>2. frames' \in 0 .. frames
        BY <2>1 DEF ProgressInv
    <2> QED
        BY <1>S, <2>1, <2>2
<1>9. CASE ReserveRest \/ ReserveFromPool \/ ReserveFromHeap
    <2>1. Same /\ UNCHANGED <<req, frames>> /\ i' = 0 /\ pc' = "mmap" /\ pc = "reserve" /\ Starts # {}
        BY <1>9 DEF ReserveRest, ReserveFromPool, ReserveFromHeap, Reserve, dl, LockInv, StartsOf,
            Starts, MmapPages
    <2>2. MmapPages' \in Nat
        BY <2>1, ReservedWasFree DEF MmapPages
    <2>3. Run(start', 0) = {}
        <3>1. start' = Min(Starts) /\ Min(Starts) \in Nat
            BY <1>9, <2>1, ReservedWasFree DEF ReserveRest, ReserveFromPool, ReserveFromHeap, Reserve, Area
        <3> QED
            BY <3>1 DEF Run
    <2> QED
        BY <1>H, <2>1, <2>2, <2>3 DEF ProgressInv
<1>10. CASE MmapDone
    <2> DEFINE new == [start |-> start, pages |-> MmapPages]
    <2>1. /\ pc = "mmap" /\ chunks' = chunks \cup {new} /\ pc' \notin {"mmap", "sbrk"} /\ i' = 0 /\ i = MmapPages
          /\ UNCHANGED <<frames, mapped, tabled, heap_top>>
        BY <1>10 DEF MmapDone, Count, Return, system
    <2>2. ChunkRun(new) \subseteq mapped
        BY <2>1 DEF ChunkRun, ProgressInv
    <2> HIDE DEF new
    <2>3. HandedOutIsMapped'
        BY <2>1, <2>2 DEF HandedOutIsMapped, ProgressInv, HeapRun, ChunkRun
    <2> QED
        BY <2>1, <2>3 DEF ProgressInv
<1>11. CASE MmapNoPage
    <2>1. Same /\ frames' = frames /\ i' = i /\ pc' = "grow"
        BY <1>11 DEF MmapNoPage, local
    <2> QED
        BY <1>S, <2>1 DEF ProgressInv
<1>12. CASE SbrkStart
    <2>1. Same /\ UNCHANGED <<frames, req, top>> /\ i' = 0 /\ pc' = "sbrk" /\ pc = "grow" /\ 2 * GrowPages < Wrap /\ ~ TooFar
        BY <1>12 DEF SbrkStart, system, dl
    <2>2. UNCHANGED <<GrowPages, TooFar>> /\ GrowPages \in Nat
        BY <2>1, RequestsAreNumbers, GrowBounds DEF GrowPages, TooFar, ControlInv, AmountsInv
    <2>3. Run(heap_top', 0) = {}
        BY <2>1 DEF Run, AmountsInv, heap_base
    <2>4. frames' + 0 <= Frames /\ i' \in 0 .. GrowPages'
        BY <2>1, <2>2 DEF ProgressInv
    <2> QED
        BY <1>H, <2>1, <2>2, <2>3, <2>4 DEF ProgressInv
<1>13. CASE SbrkDone
    <2>1. /\ pc = "sbrk" /\ pc' \notin {"mmap", "sbrk"} /\ i' = 0 /\ i = GrowPages /\ heap_top' = heap_top + i
          /\ UNCHANGED <<frames, mapped, tabled, chunks>>
        BY <1>13 DEF SbrkDone, Count, GiveOut, Return
    <2>2. HeapRun' \subseteq HeapRun \cup Run(heap_top, i)
        BY <2>1 DEF HeapRun, Run, ProgressInv, AmountsInv, heap_base
    <2>3. HandedOutIsMapped'
        BY <2>1, <2>2 DEF HandedOutIsMapped, ProgressInv, ChunkRun
    <2> QED
        BY <2>1, <2>3 DEF ProgressInv
<1>14. CASE MapPage
    <2>1. /\ pc \in {"mmap", "sbrk"} /\ i < Count /\ i' = i + 1 /\ frames >= NeededFrames /\ frames' = frames - NeededFrames
          /\ mapped' = mapped \cup {Target} /\ tabled' = tabled \cup {TableOf(Target)}
          /\ UNCHANGED <<pc, req, start, heap_top, chunks, top>>
        BY <1>14 DEF MapPage, dl
    <2>2. /\ Target = IF pc = "mmap" THEN start + i ELSE heap_top + i
          /\ Target \in 0 .. Wrap - 1 /\ TableOf(Target) \in 0 .. Wrap \div Span
          /\ Count \in Nat /\ Count <= Wrap /\ i \in Nat
        BY <2>1, TargetIs
    <2>3. i' \in 0 .. Wrap /\ i' \in 0 .. Count
        BY <2>1, <2>2
    <2>4. NeededFrames \in {1, 2}
        BY DEF NeededFrames
    <2>5. frames' \in 0 .. Frames /\ frames' + i' <= frames + i
        <3>1. frames \in 0 .. Frames
            BY DEF ProgressInv
        <3> QED
            BY <2>1, <2>2, <2>4, <3>1
    <2>6. UNCHANGED <<MmapPages, GrowPages, TooFar>>
        BY <2>1 DEF MmapPages, GrowPages, TooFar
    <2>7. HandedOutIsMapped'
        BY <2>1, <1>H
    <2>8. mapped' \subseteq 0 .. Wrap - 1 /\ tabled' \subseteq 0 .. Wrap \div Span
        BY <2>1, <2>2 DEF ProgressInv
    <2>9. CASE pc = "mmap"
        <3>1. Run(start', i') \subseteq Run(start, i) \cup {start + i}
            BY <2>1, <2>2, <2>9 DEF Run, RangesInv, Area
        <3> QED
            BY <2>1, <2>2, <2>3, <2>5, <2>6, <2>7, <2>8, <2>9, <3>1 DEF ProgressInv, Count
    <2>10. CASE pc = "sbrk"
        <3>1. Run(heap_top', i') \subseteq Run(heap_top, i) \cup {heap_top + i}
            BY <2>1, <2>2, <2>10 DEF Run, AmountsInv, heap_base
        <3>2. frames' + i' <= Frames
            BY <2>1, <2>2, <2>3, <2>5, <2>10 DEF ProgressInv
        <3> QED
            BY <2>1, <2>2, <2>3, <2>5, <2>6, <2>7, <2>8, <2>10, <3>1, <3>2 DEF ProgressInv, Count
    <2> QED
        BY <2>1, <2>9, <2>10
<1>17. ASSUME NEW n \in 1 .. MaxFast, FreeFast(n) PROVE ProgressInv'
    <2>1. Same /\ frames' = frames /\ i' = i /\ pc' = "idle"
        BY <1>17 DEF FreeFast, system, local
    <2> QED
        BY <1>S, <2>1 DEF ProgressInv
<1>18. ASSUME NEW n \in 1 .. HeapGranules, NEW k \in 0 .. HeapGranules, NEW m \in 0 .. HeapGranules,
              NEW reachesTop \in BOOLEAN, Free(n, k, m, reachesTop)
       PROVE  ProgressInv'
    <2>1. Same /\ frames' = frames /\ i' = i /\ pc' \in {"idle", "halted"}
        BY <1>18 DEF Free, system, local
    <2> QED
        BY <1>S, <2>1 DEF ProgressInv
<1>19. ASSUME NEW c \in chunks, FreeMmapped(c) PROVE ProgressInv'
    <2>1. UNCHANGED <<mapped, tabled, heap_top, frames, i>> /\ chunks' \subseteq chunks /\ pc' = "halted"
        BY <1>19 DEF FreeMmapped, system, local
    <2> QED
        BY <1>H, <2>1 DEF ProgressInv
<1>20. CASE Halted
    BY <1>2, <1>20 DEF Halted
<1> QED
    BY <1>2, <1>3, <1>4, <1>5, <1>6, <1>7, <1>8, <1>9, <1>10, <1>11, <1>12, <1>13, <1>14,
       <1>17, <1>18, <1>19, <1>20 DEF Next, Step

-----------------------------------------------------------------------------
(* Pages and addresses have owners *)

\* What mmap found room for, sbrk can be asked for: after a failed mmap it is.
LEMMA GrowIsPossible ==
    ASSUME AmountsInv, ControlInv, RangesInv, pc = "mmap"
    PROVE  2 * GrowPages < Wrap
<1>1. req \in Nat /\ top \in Nat /\ top < req + MinSize
    BY RequestsAreNumbers DEF ControlInv, AmountsInv
<1>2. /\ start \in Area /\ MmapPages \in 1 .. RangePages /\ Reservation \subseteq Area
      /\ Reservation \cap Run(heap_base, HeapPages) = {}
    BY DEF RangesInv
<1>3. start + MmapPages <= RangeStart + RangePages
    BY <1>2, RunFits DEF Reservation
<1>4. start >= RangeStart + HeapPages
    <2>1. start \in Reservation
        BY <1>2 DEF Reservation, Run, Area
    <2>2. start \notin Run(heap_base, HeapPages)
        BY <1>2, <2>1
    <2> QED
        BY <1>2, <2>2 DEF Run, heap_base, Area
<1> DEFINE p == Pages(TopPad + MinSize)
           q == Pages(req)
<1>5. GrowPages \in Nat /\ GrowPages <= Pages(req + (TopPad + MinSize))
    BY <1>1, GrowBounds
<1>6. Pages(req + (TopPad + MinSize)) <= q + p
    <2>1. TopPad + MinSize \in Nat
        OBVIOUS
    <2> QED
        BY <1>1, <2>1, PagesOfSum
<1>7. q <= MmapPages
    <2>1. req + Overhead \in Nat /\ req <= req + Overhead
        BY <1>1
    <2> QED
        BY <1>1, <2>1, PagesGrow DEF MmapPages
<1>8. p \in Nat /\ q \in Nat /\ Pages(req + (TopPad + MinSize)) \in Nat
    <2>1. TopPad + MinSize \in Nat /\ req + (TopPad + MinSize) \in Nat
        BY <1>1
    <2> QED
        BY <1>1, <2>1, PagesBounds
<1>9. p < HeapPages /\ 2 * RangePages <= Wrap
    BY SizesAssumption
<1> DEFINE z == Pages(req + (TopPad + MinSize))
<1> HIDE DEF p, q, z
<1>10. GrowPages <= z /\ z <= q + p /\ z \in Nat
    BY <1>5, <1>6, <1>8 DEF z
<1>11. GrowPages < RangePages
    BY <1>2, <1>3, <1>4, <1>5, <1>7, <1>8, <1>9, <1>10 DEF Area
<1> QED
    BY <1>5, <1>9, <1>11

\* Once pages are lost no step leads back to a caller.
LEMMA DoomIsSure ==
    AmountsInv /\ ControlInv /\ ProgressInv /\ Doomed /\ [Next]_vars => Doomed'
<1> SUFFICES ASSUME AmountsInv, ControlInv, ProgressInv, Doomed, [Next]_vars
             PROVE  Doomed'
    OBVIOUS
<1>1. CASE UNCHANGED vars
    <2>1. UNCHANGED <<pc, frames, i, req, top>>
        BY <1>1 DEF vars, local, system, dl
    <2> QED
        BY <2>1 DEF Doomed, GrowPages
<1>2. CASE pc = "halted" /\ Next
    BY <1>2 DEF Next, Step, CallMalloc, FromFastbin, FromBin, FromTop, Consolidate, MustConsolidate, NoSpace,
        Relay, ReserveRest, ReserveFromPool, CallNew, ReserveFromHeap, ReserveFails, MapPage, MmapDone,
        MmapNoPage, MmapNoTable, GiveUp, SbrkRefuses, SbrkStart, SbrkFails, SbrkDone, FreeFast, Free,
        FreeMmapped, Halted, Doomed, vars
<1>3. CASE pc = "grow" /\ Next
    <2>1. GiveUp \/ SbrkRefuses \/ SbrkStart
        BY <1>3 DEF Next, Step, CallMalloc, FromFastbin, FromBin, FromTop, Consolidate, MustConsolidate, NoSpace,
            Relay, ReserveRest, ReserveFromPool, CallNew, ReserveFromHeap, ReserveFails, MapPage, MmapDone,
            MmapNoPage, MmapNoTable, SbrkFails, SbrkDone, FreeFast, Free, FreeMmapped, Halted
    <2>2. frames = 0 /\ 2 * GrowPages < Wrap /\ GrowPages \in Nat
        BY <1>3, RequestsAreNumbers, GrowBounds DEF Doomed, ControlInv, AmountsInv
    <2>3. ~ GiveUp
        BY <2>2 DEF GiveUp
    <2> QED
        BY <2>1, <2>2, <2>3 DEF SbrkRefuses, SbrkStart, Fault, Doomed, system
<1>4. CASE pc = "sbrk" /\ Next
    <2>1. MapPage \/ SbrkFails \/ SbrkDone
        BY <1>4 DEF Next, Step, CallMalloc, FromFastbin, FromBin, FromTop, Consolidate, MustConsolidate, NoSpace,
            Relay, ReserveRest, ReserveFromPool, CallNew, ReserveFromHeap, ReserveFails, MmapDone,
            MmapNoPage, MmapNoTable, GiveUp, SbrkRefuses, SbrkStart, FreeFast, Free, FreeMmapped, Halted
    <2>2. GrowPages \in Nat \ {0} /\ i \in Nat /\ frames + i <= Frames /\ frames \in Nat
        BY <1>4, RequestsAreNumbers, GrowBounds DEF Doomed, ControlInv, AmountsInv, ProgressInv
    <2>3. CASE SbrkFails
        BY <2>3 DEF SbrkFails, Fault, Doomed
    <2>4. ~ SbrkDone
        BY <1>4, <2>2 DEF SbrkDone, Doomed, Count
    <2>5. CASE MapPage
        <3>1. frames > 0
            BY <2>2, <2>5 DEF MapPage, NeededFrames
        <3>2. GrowPages > Frames
            BY <1>4, <3>1 DEF Doomed
        <3>3. UNCHANGED <<pc, req, top>>
            BY <2>5 DEF MapPage, dl
        <3> QED
            BY <1>4, <3>2, <3>3 DEF Doomed, GrowPages
    <2> QED
        BY <2>1, <2>3, <2>4, <2>5
<1> QED
    BY <1>1, <1>2, <1>3, <1>4 DEF Doomed

\* A page is mapped where no page is: neither the heap nor a chunk has it yet.
LEMMA TargetIsNew ==
    ASSUME AmountsInv, ControlInv, RangesInv, ProgressInv, pc \in {"mmap", "sbrk"}, i < Count,
           pc = "sbrk" => GrowPages <= Frames
    PROVE  Target \notin (HeapRun \cup AllChunks) \cup InProgress
<1>1. Target = (IF pc = "mmap" THEN start + i ELSE heap_top + i) /\ i \in Nat
    BY TargetIs
<1>2. HeapRun \subseteq Run(heap_base, HeapPages)
    BY DEF HeapRun, Run, AmountsInv, heap_base
<1>3. AllChunks \cap Run(heap_base, HeapPages) = {}
    BY DEF AllChunks, RangesInv
<1>4. CASE pc = "mmap"
    <2>1. start \in Nat /\ MmapPages \in Nat /\ i < MmapPages
        BY <1>4 DEF RangesInv, Area, Count
    <2>2. start + i \in Reservation /\ start + i \notin Run(start, i)
        BY <1>1, <2>1 DEF Reservation, Run
    <2>3. Reservation \cap Run(heap_base, HeapPages) = {} /\ Reservation \cap AllChunks = {}
        BY <1>4 DEF RangesInv, AllChunks
    <2> QED
        BY <1>1, <1>2, <1>4, <2>2, <2>3 DEF InProgress
<1>5. CASE pc = "sbrk"
    <2>1. GrowPages \in Nat /\ i < GrowPages /\ heap_top \in heap_base .. heap_base + HeapPages /\ ~ TooFar
        BY <1>5, RequestsAreNumbers, GrowBounds DEF Count, ControlInv, AmountsInv, ProgressInv
    <2>2. heap_top + GrowPages <= heap_base + HeapPages
        BY <1>5, <2>1, SbrkFits
    <2>3. heap_top + i \in Run(heap_base, HeapPages) /\ heap_top + i \notin HeapRun \cup Run(heap_top, i)
        BY <1>1, <2>1, <2>2 DEF HeapRun, Run, heap_base
    <2> QED
        BY <1>1, <1>3, <1>5, <2>3 DEF InProgress
<1> QED
    BY <1>4, <1>5

\* Mapping a page takes it, and a page for a table that was not there.
LEMMA MapPageAccounts ==
    ASSUME AmountsInv, ControlInv, RangesInv, ProgressInv, MapPage, Exact, ~ Doomed
    PROVE  Exact'
<1>1. /\ pc \in {"mmap", "sbrk"} /\ i < Count /\ i' = i + 1 /\ frames' = frames - NeededFrames
      /\ mapped' = mapped \cup {Target} /\ tabled' = tabled \cup {TableOf(Target)}
      /\ UNCHANGED <<pc, req, start, heap_top, chunks, held>>
    BY DEF MapPage, dl
<1>2. Target = (IF pc = "mmap" THEN start + i ELSE heap_top + i) /\ i \in Nat
    BY <1>1, TargetIs
<1>3. pc = "sbrk" => GrowPages <= Frames
    <2> SUFFICES ASSUME pc = "sbrk" PROVE GrowPages <= Frames
        OBVIOUS
    <2>1. GrowPages \in Nat
        BY RequestsAreNumbers, GrowBounds DEF ControlInv, AmountsInv
    <2> QED
        BY <2>1 DEF Doomed
<1>4. Target \notin mapped
    BY <1>1, <1>3, TargetIsNew DEF Exact
<1>5. InProgress' = InProgress \cup {Target}
    <2>1. CASE pc = "mmap"
        BY <1>1, <1>2, <2>1 DEF InProgress, Run, RangesInv, Area
    <2>2. CASE pc = "sbrk"
        BY <1>1, <1>2, <2>2 DEF InProgress, Run, AmountsInv, heap_base
    <2> QED
        BY <1>1, <2>1, <2>2
<1>6. HeapRun' = HeapRun /\ AllChunks' = AllChunks /\ Reservation' = Reservation
    BY <1>1 DEF HeapRun, AllChunks, ChunkRun, Reservation, MmapPages
<1>7. mapped' = (HeapRun' \cup AllChunks') \cup InProgress'
    BY <1>1, <1>5, <1>6 DEF Exact
<1>8. held' = (Run(heap_base, HeapPages) \cup AllChunks') \cup (IF pc' = "mmap" THEN Reservation' ELSE {})
    BY <1>1, <1>6 DEF Exact
<1>9. IsFiniteSet(mapped) /\ IsFiniteSet(tabled)
    <2>1. IsFiniteSet(0 .. Wrap - 1) /\ IsFiniteSet(0 .. Wrap \div Span)
        <3>1. Wrap - 1 \in Int /\ Wrap \div Span \in Int
            BY Quotient
        <3> QED
            BY <3>1, FS_Interval
    <2> QED
        BY <2>1, FS_Subset DEF ProgressInv
<1>10. Cardinality(mapped') = Cardinality(mapped) + 1
    BY <1>1, <1>4, <1>9, FS_AddElement
<1>11. Cardinality(tabled') = Cardinality(tabled) + (NeededFrames - 1)
    <2>1. Cardinality(tabled) \in Nat
        BY <1>9, FS_CardinalityType
    <2> QED
        <3> DEFINE t == TableOf(Target)
        <3>1. Cardinality(tabled \cup {t}) = IF t \in tabled THEN Cardinality(tabled) ELSE Cardinality(tabled) + 1
            BY <1>9, FS_AddElement
        <3>2. NeededFrames = IF t \in tabled THEN 1 ELSE 2
            BY DEF NeededFrames
        <3>3. tabled' = tabled \cup {t}
            BY <1>1
        <3> HIDE DEF t
        <3> QED
            BY <2>1, <3>1, <3>2, <3>3
<1>12. Frames - frames' = Cardinality(mapped') + Cardinality(tabled')
    <2>1. Cardinality(tabled) \in Nat /\ Cardinality(mapped) \in Nat
        BY <1>9, FS_CardinalityType
    <2>2. Frames - frames = Cardinality(mapped) + Cardinality(tabled) /\ frames \in Nat
        BY DEF Exact, ProgressInv
    <2>3. NeededFrames \in Nat
        BY DEF NeededFrames
    <2> QED
        BY <1>1, <1>10, <1>11, <2>1, <2>2, <2>3
<1> QED
    BY <1>7, <1>8, <1>12 DEF Exact, heap_base

LEMMA AccountKept ==
    AmountsInv /\ ControlInv /\ LockInv /\ RangesInv /\ ProgressInv /\ AccountInv /\ [Next]_vars => AccountInv'
<1> SUFFICES ASSUME AmountsInv, ControlInv, LockInv, RangesInv, ProgressInv, Exact, ~ Doomed, [Next]_vars
             PROVE  Doomed' \/ Exact'
    BY DoomIsSure DEF AccountInv
<1> DEFINE Same == UNCHANGED <<mapped, tabled, frames, held, heap_top, chunks>>
<1>S. ASSUME Same, InProgress = {}, pc # "mmap", pc' \notin {"mmap", "sbrk"} PROVE Exact'
    BY <1>S DEF Exact, HeapRun, AllChunks, ChunkRun, InProgress, heap_base
<1>2. ASSUME UNCHANGED vars PROVE Exact'
    <2>1. UNCHANGED <<pc, mapped, tabled, frames, held, heap_top, chunks, i, start, req>>
        BY <1>2 DEF vars, local, system, dl
    <2> QED
        BY <2>1 DEF Exact, HeapRun, AllChunks, ChunkRun, InProgress, Reservation, MmapPages, heap_base
<1>3. ASSUME NEW n \in Requests, CallMalloc(n) PROVE Exact'
    BY <1>3, <1>S DEF CallMalloc, dl, system, InProgress
<1>4. CASE FromFastbin \/ FromBin \/ FromTop
    <2>1. Same /\ pc = "malloc" /\ pc' \notin {"mmap", "sbrk"}
        BY <1>4 DEF FromFastbin, FromBin, FromTop, GiveOut, Return, system
    <2> QED
        BY <1>S, <2>1 DEF InProgress
<1>5. ASSUME NEW k \in 0 .. HeapGranules, Consolidate(k) PROVE Exact'
    <2>1. Same /\ pc = "malloc" /\ pc' = pc
        BY <1>5 DEF Consolidate, local, system, NoSpace, MustConsolidate
    <2> QED
        BY <1>S, <2>1 DEF InProgress
<1>6. CASE Relay \/ ReserveFails \/ GiveUp \/ CallNew
    <2>1. Same /\ pc \notin {"mmap", "sbrk"} /\ pc' \notin {"mmap", "sbrk"}
        BY <1>6 DEF Relay, ReserveFails, GiveUp, CallNew, local, system, dl, NoSpace
    <2> QED
        BY <1>S, <2>1 DEF InProgress
<1>7. CASE SbrkRefuses \/ SbrkFails
    BY <1>7 DEF SbrkRefuses, SbrkFails, Fault, Doomed
<1>8. CASE MmapNoTable \/ MmapNoPage
    <2>1. pc = "mmap" /\ pc' = "grow" /\ frames' = 0 /\ UNCHANGED <<req, top>>
        BY <1>8 DEF MmapNoTable, MmapNoPage, local, dl
    <2>2. 2 * GrowPages' < Wrap
        BY <2>1, GrowIsPossible DEF GrowPages
    <2> QED
        BY <2>1, <2>2 DEF Doomed
<1>9. CASE ReserveRest \/ ReserveFromPool \/ ReserveFromHeap
    <2>1. /\ UNCHANGED <<mapped, tabled, frames, heap_top, chunks, req>> /\ pc' = "mmap" /\ pc = "reserve"
          /\ start' = Min(Starts) /\ i' = 0 /\ held' = held \cup Run(Min(Starts), MmapPages) /\ Starts # {}
        BY <1>9 DEF ReserveRest, ReserveFromPool, ReserveFromHeap, Reserve, dl, LockInv, StartsOf,
            Starts, MmapPages
    <2>2. Reservation' = Run(Min(Starts), MmapPages)
        BY <2>1 DEF Reservation, MmapPages
    <2>3. InProgress' = {} /\ InProgress = {}
        <3>1. start' \in Nat
            BY <2>1, ReservedWasFree DEF Area
        <3> QED
            BY <2>1, <3>1 DEF InProgress, Run
    <2>4. HeapRun' = HeapRun /\ AllChunks' = AllChunks
        BY <2>1 DEF HeapRun, AllChunks, ChunkRun
    <2>5. held' = (Run(heap_base, HeapPages) \cup AllChunks') \cup Reservation'
        BY <2>1, <2>2, <2>4 DEF Exact
    <2> QED
        BY <2>1, <2>3, <2>4, <2>5 DEF Exact, heap_base
<1>10. CASE MmapDone
    <2> DEFINE new == [start |-> start, pages |-> MmapPages]
    <2>1. /\ pc = "mmap" /\ chunks' = chunks \cup {new} /\ pc' \notin {"mmap", "sbrk"} /\ i = MmapPages
          /\ UNCHANGED <<frames, mapped, tabled, heap_top, held>>
        BY <1>10 DEF MmapDone, Count, Return, system
    <2>2. ChunkRun(new) = Reservation /\ InProgress = Reservation /\ InProgress' = {} /\ HeapRun' = HeapRun
        BY <2>1 DEF ChunkRun, Reservation, InProgress, HeapRun
    <2> HIDE DEF new
    <2>3. AllChunks' = AllChunks \cup Reservation
        BY <2>1, <2>2 DEF AllChunks, ChunkRun
    <2> QED
        BY <2>1, <2>2, <2>3 DEF Exact, heap_base
<1>11. CASE MapPage
    BY <1>11, MapPageAccounts
<1>12. CASE SbrkStart
    <2>1. Same /\ pc = "grow" /\ pc' = "sbrk" /\ i' = 0
        BY <1>12 DEF SbrkStart, system, dl
    <2>2. InProgress' = {} /\ InProgress = {}
        BY <2>1 DEF InProgress, Run, AmountsInv, heap_base
    <2> QED
        BY <2>1, <2>2 DEF Exact, HeapRun, AllChunks, ChunkRun, heap_base
<1>13. CASE SbrkDone
    <2>1. /\ pc = "sbrk" /\ pc' \notin {"mmap", "sbrk"} /\ heap_top' = heap_top + i
          /\ UNCHANGED <<frames, mapped, tabled, chunks, held>>
        BY <1>13 DEF SbrkDone, Count, GiveOut, Return
    <2>2. HeapRun' = HeapRun \cup InProgress
        BY <2>1 DEF HeapRun, InProgress, Run, ProgressInv, AmountsInv, heap_base
    <2>3. AllChunks' = AllChunks /\ InProgress' = {}
        BY <2>1 DEF AllChunks, ChunkRun, InProgress
    <2> QED
        BY <2>1, <2>2, <2>3 DEF Exact, heap_base
<1>17. ASSUME NEW n \in 1 .. MaxFast, FreeFast(n) PROVE Exact'
    BY <1>S, <1>17 DEF FreeFast, system, local, InProgress
<1>18. ASSUME NEW n \in 1 .. HeapGranules, NEW k \in 0 .. HeapGranules, NEW m \in 0 .. HeapGranules,
              NEW reachesTop \in BOOLEAN, Free(n, k, m, reachesTop)
       PROVE  Exact'
    <2>1. Same /\ pc = "idle" /\ pc' \in {"idle", "halted"}
        BY <1>18 DEF Free, system, local
    <2> QED
        BY <1>S, <2>1 DEF InProgress
<1>19. ASSUME NEW c \in chunks, FreeMmapped(c) PROVE Doomed'
    BY <1>19 DEF FreeMmapped, Doomed
<1>20. CASE Halted
    BY <1>2, <1>20 DEF Halted
<1> QED
    BY <1>2, <1>3, <1>4, <1>5, <1>6, <1>7, <1>8, <1>9, <1>10, <1>11, <1>12, <1>13,
       <1>17, <1>18, <1>19, <1>20 DEF Next, Step

-----------------------------------------------------------------------------
(* The theorems *)

LEMMA InitIInv == Init => IInv
<1> SUFFICES ASSUME Init PROVE IInv
    OBVIOUS
<1> USE DEF Init
<1>1. AmountsInv
    BY DEF AmountsInv, TopMeetsBreak, heap_base
<1>2. ControlInv
    <2>1. lock \in BOOLEAN
        OBVIOUS
    <2>2. nodes \in 0 .. Nodes
        OBVIOUS
    <2> QED
        BY <2>1, <2>2 DEF ControlInv, Inside
<1>3. LockInv
    BY DEF LockInv
<1>4. RangesInv
    <2>1. Run(heap_base, HeapPages) \subseteq Area
        <3>1. HeapPages < RangePages
            BY SizesAssumption
        <3> QED
            BY <3>1 DEF Run, heap_base, Area
    <2> QED
        BY <2>1 DEF RangesInv
<1>5. HeapRun = {} /\ AllChunks = {} /\ InProgress = {}
    BY DEF HeapRun, heap_base, AllChunks, InProgress
<1>6. ProgressInv
    BY <1>5 DEF ProgressInv, HandedOutIsMapped
<1>7. AccountInv
    <2>1. Cardinality({}) = 0
        BY FS_EmptySet
    <2> QED
        BY <1>5, <2>1 DEF AccountInv, Exact
<1> QED
    BY <1>1, <1>2, <1>3, <1>4, <1>6, <1>7 DEF IInv

\* The accounts, the ranges and the pages agree at every step of every call.
THEOREM InductiveInvariant == Spec => []IInv
<1>1. IInv /\ [Next]_vars => IInv'
    BY AmountsKept, ControlKept, LockKept, RangesKept, ProgressKept, AccountKept DEF IInv
<1> QED
    BY <1>1, InitIInv, PTL DEF Spec

\* Whatever malloc may hand out, of the heap or of its own mmap, is mapped.
THEOREM EverythingIsMapped == Spec => []HandedOutIsMapped
<1>1. IInv => HandedOutIsMapped
    BY DEF IInv, ProgressInv
<1> QED
    BY <1>1, InductiveInvariant, PTL

\* The granules dlmalloc accounts for are those that sbrk has given it, whatever is
\* allocated, freed and consolidated in between.
THEOREM TopAlwaysMeetsBreak == Spec => []TopMeetsBreak
<1>1. IInv => TopMeetsBreak
    BY DEF IInv, AmountsInv
<1> QED
    BY <1>1, InductiveInvariant, PTL

\* malloc under the allocator's lock never comes back for an address range.
THEOREM LockIsTakenOnce == Spec => []NoSelfDeadlock
<1>1. IInv => NoSelfDeadlock
    BY DEF IInv, LockInv, NoSelfDeadlock
<1> QED
    BY <1>1, InductiveInvariant, PTL

\* No malloc that ran for a list node has made the growth of the heap superfluous.
THEOREM GrowthIsAlwaysNeeded == Spec => []GrowthIsNeeded
<1>1. IInv => GrowthIsNeeded
    BY DEF IInv, ControlInv, GrowthIsNeeded
<1> QED
    BY <1>1, InductiveInvariant, PTL

\* The amounts are of the size of the heap.
LEMMA InvariantIsTyped == IInv => TypeOK
<1> SUFFICES ASSUME IInv PROVE TypeOK
    OBVIOUS
<1> USE DEF IInv
<1>1. HeapGranules \in Nat /\ {top, fast, binned, inUse, nodeUse} \subseteq 0 .. HeapGranules
    <2> DEFINE h == heap_top - heap_base
    <2>1. h \in Nat /\ h <= HeapPages
        BY DEF AmountsInv, heap_base
    <2>2. top + fast + binned + inUse + nodeUse = h * PageSize
        BY DEF AmountsInv, TopMeetsBreak
    <2> HIDE DEF h
    <2>3. h * PageSize \in Nat /\ HeapGranules \in Nat /\ h * PageSize <= HeapGranules
        BY <2>1, Scale DEF HeapGranules
    <2> DEFINE m == h * PageSize
    <2> HIDE DEF m
    <2>4. m \in Nat /\ m <= HeapGranules /\ top + fast + binned + inUse + nodeUse = m
        BY <2>2, <2>3 DEF m
    <2>5. top \in Nat /\ fast \in Nat /\ binned \in Nat /\ inUse \in Nat /\ nodeUse \in Nat
        BY DEF AmountsInv
    <2>6. top <= HeapGranules /\ fast <= HeapGranules /\ binned <= HeapGranules
          /\ inUse <= HeapGranules /\ nodeUse <= HeapGranules
        BY <2>3, <2>4, <2>5
    <2> QED
        BY <2>3, <2>5, <2>6
<1>2. /\ pc \in {"idle", "malloc", "reserve", "mmap", "grow", "sbrk", "halted"}
      /\ cause \in {"none", "fault", "munmap", "shrink"}
      /\ req \in Requests \cup {0, NodeSize} /\ outer \in Requests \cup {0}
      /\ took \in {"none", "pool", "heap"} /\ result \in {"chunk", "null"}
      /\ lock \in BOOLEAN /\ nodes \in 0 .. Nodes
    BY DEF ControlInv, Inside
<1>3. start \in Area \cup {0} /\ held \subseteq Area /\ chunks \subseteq [start : Area, pages : 1 .. RangePages]
    BY DEF RangesInv
<1>4. /\ i \in 0 .. Wrap /\ frames \in 0 .. Frames
      /\ mapped \subseteq 0 .. Wrap - 1 /\ tabled \subseteq 0 .. Wrap \div Span
    BY DEF ProgressInv
<1>5. heap_top \in heap_base .. heap_base + HeapPages
    BY DEF AmountsInv
<1> QED
    BY <1>1, <1>2, <1>3, <1>4, <1>5 DEF TypeOK

\* No call that returns has left an address reserved or a page taken that is neither the
\* heap's nor a chunk's, whichever step of it found nothing left.
THEOREM NothingIsLost == Spec => []MemoryAccounted
<1>1. IInv => MemoryAccounted
    <2> SUFFICES ASSUME IInv PROVE MemoryAccounted
        OBVIOUS
    <2>1. pc = "idle" => Exact
        BY DEF IInv, AccountInv, Doomed
    <2>2. RangesApart
        BY <2>1 DEF IInv, RangesInv, RangesApart, Exact, AllChunks
    <2>3. PagesAccounted
        <3> SUFFICES ASSUME pc = "idle" PROVE Frames - frames = Cardinality(HeapRun \cup AllChunks) + Cardinality(tabled)
            BY DEF PagesAccounted, AllChunks
        <3>1. mapped = HeapRun \cup AllChunks
            BY <2>1 DEF Exact, InProgress
        <3> QED
            BY <2>1, <3>1 DEF Exact
    <2> QED
        BY <2>2, <2>3, InvariantIsTyped DEF MemoryAccounted
<1> QED
    BY <1>1, InductiveInvariant, PTL

==============================================================================
