------------------------------ MODULE Dlmalloc -------------------------------
(***************************************************************************)
(* dlmalloc (lib/dlmalloc/malloc.c) at the level of its chunks: boundary   *)
(* tags, fastbins, the unsorted bin, small and large bins with their       *)
(* binmap, top, and chunks of their own mmap.                              *)
(*                                                                         *)
(* Chunks are measured in granules of MALLOC_ALIGNMENT (two words),        *)
(* requests in words.  A pointer to a chunk is the granule it starts at;   *)
(* the memory handed out starts a granule later.  Only the headers that    *)
(* mean something are kept: `size' of every chunk, `prev_size' of those    *)
(* whose predecessor is free.  Reading any other is an error of TLC.       *)
(*                                                                         *)
(* The kernel runs a call to its end before the next, so that a function   *)
(* of the code is an operator from a heap to a heap, and a call is one     *)
(* step.  Under it are sbrk, which extends the heap up to HeapEnd or, by   *)
(* answering 0, makes dlmalloc fault, and mmap (kernel/mm/heap.cpp).       *)
(***************************************************************************)
EXTENDS Integers, Sequences, SequencesExt, FiniteSets

CONSTANTS
    HeapBase, HeapEnd,      \* what sbrk can give
    MmapBase, MmapEnd,      \* what mmap can give
    PageSize,
    MaxFast,                \* request2size(DEFAULT_MXFAST)
    MinLarge,               \* MIN_LARGE_SIZE
    NBins,
    largebin_index(_),
    ConsolidateThreshold, TrimThreshold, MmapThreshold, MmapMax, TopPad,
    SizeLimit,              \* the words a size_t can count
    Requests,               \* bound: the sizes callers ask for
    Alignments,             \* bound: the alignments they ask for
    Counts,                 \* bound: the numbers of elements for calloc
    Lengths,                \* bound: those for the independent allocations
    Options,                \* bound: the calls of mallopt
    MaxBlocks               \* bound: the chunks that callers hold at a time

MinSize == 2                \* MINSIZE
Null == 0

MaxRequest == SizeLimit - 9 \* requests of more words are out of range
MaxLong == SizeLimit \div 4 \* a size from here on is negative as a long

Heap == HeapBase .. HeapEnd - 1

ASSUME SizesAssumption == SizeLimit % (2 * PageSize) = 0 /\ MmapEnd - MmapBase < MaxLong

ASSUME BinsAssumption ==
    /\ HeapBase > 0 /\ HeapEnd < MmapBase
    /\ MinSize < MinLarge /\ MinLarge < NBins
    /\ \A m, n \in MinLarge .. HeapEnd - HeapBase :
            /\ largebin_index(n) \in MinLarge .. NBins - 1
            /\ m <= n => largebin_index(m) <= largebin_index(n)

VARIABLES
    heap,       \* the malloc_state and the headers: see Init
    live        \* the chunks that callers hold

vars == <<heap, live>>

\* Names with a suffix _Without... or _With... are broken variants of the definition
\* they precede: see the README.

-----------------------------------------------------------------------------
(* Sizes, headers, bins.  p and q are chunks of the heap h. *)

\* Arithmetic on a size_t.  mALLOc, rEALLOc and mEMALIGn test what they are asked for;
\* products and sums elsewhere wrap.
Wrap(words) == words % SizeLimit

request2size_WithoutHeader(words) == Max({MinSize, Wrap(words + 1) \div 2})

request2size(words) == Max({MinSize, Wrap(words + 2) \div 2})

\* The request for which a chunk of n granules is just right, as n - MALLOC_ALIGN_MASK.
Refit(n) == 2 * n - 1

PageUp(n) == ((n + PageSize - 1) \div PageSize) * PageSize

in_smallbin_range(n) == n < MinLarge

bin_index(n) == IF in_smallbin_range(n) THEN n ELSE largebin_index(n)

\* Between malloc_init_state and the first sYSMALLOc, top is the unsorted bin, of size 0.
InitialTop == -1

TopSize(h) == IF h.top = InitialTop THEN 0 ELSE h.size[h.top]

prev_inuse(h, p) == p \in h.pinuse
inuse(h, p) == prev_inuse(h, p + h.size[p])

set(f, k, v) == [x \in DOMAIN f \cup {k} |-> IF x = k THEN v ELSE f[x]]
drop(f, S) == [x \in DOMAIN f \ S |-> f[x]]

\* set_head(p, n | PREV_INUSE).
set_head(h, p, n) == [h EXCEPT !.size = set(@, p, n), !.pinuse = @ \cup {p}]

set_foot(h, p, n) == [h EXCEPT !.prev_size = set(@, p + n, n)]

\* The chunk before q goes into use, and the word of its foot to its user.
set_inuse_before(h, q) == [h EXCEPT !.pinuse = @ \cup {q}, !.prev_size = drop(@, {q})]

unlink(h, p) == [h EXCEPT !.bins = [i \in DOMAIN @ |-> Remove(@[i], p)]]

result(h, p) == [heap |-> h, mem |-> p]

\* What is looked for elsewhere if it was not found.
OrElse(found, Elsewhere(_)) == IF found.mem # Null THEN found ELSE Elsewhere(found.heap)

\* hcf, or a fault that ends in it.
halt(h) == [h EXCEPT !.halted = TRUE]

-----------------------------------------------------------------------------
(* malloc_consolidate and free *)

malloc_init_state(h) ==
    [h EXCEPT !.top_pad = TopPad, !.n_mmaps_max = MmapMax, !.mmap_threshold = MmapThreshold,
              !.trim_threshold = TrimThreshold, !.max_fast = MaxFast, !.top = InitialTop]

\* The n granules from p on become one free chunk, of which some of the old chunks were
\* parts: it goes to the unsorted bin, or to top if that was one of them.
join(h, p, n, old) ==
    LET inner == {q \in old : p < q /\ q < p + n}
        joined == set_head([h EXCEPT !.size = drop(@, inner), !.prev_size = drop(@, inner),
                                     !.pinuse = @ \ old], p, n)
    IN  IF h.top \in old THEN result([joined EXCEPT !.top = p], p)
        ELSE result([set_foot(joined, p, n) EXCEPT !.bins[1] = <<p>> \o @], p)

\* The chunk p joins its free neighbours.
coalesce(h, p) ==
    LET next == p + h.size[p]
        before == IF prev_inuse(h, p) THEN 0 ELSE h.prev_size[p]
        after == IF next = h.top \/ ~inuse(h, next) THEN h.size[next] ELSE 0
    IN  join(unlink(unlink(h, p - before), next), p - before, before + h.size[p] + after, {p, next})

\* The first call finds max_fast still 0.
malloc_consolidate(h) ==
    IF h.max_fast = 0 THEN malloc_init_state(h)
    ELSE LET upTo == {n \in DOMAIN h.fastbins : n <= h.max_fast}
             chunks == FoldLeft(LAMBDA s, n : s \o h.fastbins[n], <<>>, SetToSortSeq(upTo, <))
         IN  FoldLeft(LAMBDA g, p : coalesce(g, p).heap,
                      [h EXCEPT !.fastchunks = FALSE,
                                !.fastbins = [n \in DOMAIN @ |-> IF n \in upTo THEN <<>> ELSE @[n]]],
                      chunks)

sweep(h) == IF h.fastchunks THEN malloc_consolidate(h) ELSE h

\* Shrinking the heap halts.
sYSTRIm(h, pad) ==
    IF (TopSize(h) - pad - MinSize + PageSize - 1) \div PageSize > 1 THEN halt(h) ELSE h

trim_if_large(h) == IF TopSize(h) < h.trim_threshold THEN h ELSE sYSTRIm(h, h.top_pad)

to_fastbin_WithoutFlag(h, p) == [h EXCEPT !.anychunks = TRUE, !.fastbins[h.size[p]] = <<p>> \o @]

\* set_fastchunks sets two bits.
to_fastbin(h, p) ==
    [h EXCEPT !.fastchunks = TRUE, !.anychunks = TRUE, !.fastbins[h.size[p]] = <<p>> \o @]

fREe(h, p) ==
    LET Finish(freed) ==
            IF freed.heap.size[freed.mem] < ConsolidateThreshold THEN freed.heap
            ELSE trim_if_large(sweep(freed.heap))
    IN  IF h.halted THEN h
        ELSE IF h.size[p] <= h.max_fast THEN to_fastbin(h, p)
        ELSE IF p \in h.mmapped THEN halt(h)
        ELSE Finish(coalesce([h EXCEPT !.anychunks = TRUE], p))

-----------------------------------------------------------------------------
(* malloc *)

split(h, p, nb) == set_head(set_head(h, p, nb), p + nb, h.size[p] - nb)

take_WithoutRest(h, p, nb) ==
    LET rest == h.size[p] - nb
    IN  IF rest < MinSize THEN set_inuse_before(h, p + h.size[p])
        ELSE set_foot(split(h, p, nb), p + nb, rest)

\* nb granules of the chunk p, which is on no list any more.
take(h, p, nb) ==
    LET rest == h.size[p] - nb
    IN  IF rest < MinSize THEN set_inuse_before(h, p + h.size[p])
        ELSE set_foot([split(h, p, nb) EXCEPT !.bins[1] = <<p + nb>>], p + nb, rest)

place_WithoutMark(h, p) ==
    [h EXCEPT !.bins[bin_index(h.size[p])] = IF in_smallbin_range(h.size[p]) THEN <<p>> \o @ ELSE Append(@, p)]

\* Large bins are sorted, largest first; the last chunk is the next one used.
place(h, p) ==
    LET n == h.size[p]
        bin == h.bins[bin_index(n)]
        at == IF in_smallbin_range(n) THEN 1
              ELSE IF bin = <<>> \/ n <= h.size[Last(bin)] THEN Len(bin) + 1
              ELSE SelectInSeq(bin, LAMBDA q : h.size[q] <= n)
    IN  [h EXCEPT !.bins[bin_index(n)] = InsertAt(@, at, p), !.binmap = @ \cup {bin_index(n)}]

\* One round of the loop over the unsorted bin.
sort(found, p, nb) ==
    LET h == found.heap
        n == h.size[p]
        g == [h EXCEPT !.bins[1] = Front(@)]
    IN  IF found.mem # Null THEN found
        ELSE IF /\ in_smallbin_range(nb)
                /\ h.bins[1] = <<p>> /\ p = h.last_remainder
                /\ n > nb + MinSize
        THEN result([take(g, p, nb) EXCEPT !.last_remainder = p + nb], p)
        ELSE IF n = nb THEN result(set_inuse_before(g, p + n), p)
        ELSE result(place(g, p), Null)

use_top(h, nb) ==
    IF TopSize(h) < nb + MinSize THEN result(h, Null)
    ELSE result([split(h, h.top, nb) EXCEPT !.top = @ + nb], h.top)

\* A large request looks through its own bin first; then the bins above, of which the
\* binmap tells which may not be empty.
search_bins(h, nb) ==
    LET idx == bin_index(nb)
        own == {i \in DOMAIN h.bins[idx] : h.size[h.bins[idx][i]] >= nb}
        above == {i \in h.binmap : i > idx /\ h.bins[i] # <<>>}
        passed == {i \in h.binmap : i > idx /\ h.bins[i] = <<>> /\ \A j \in above : i < j}
        g == [h EXCEPT !.binmap = @ \ passed]
    IN  IF own # {} /\ ~in_smallbin_range(nb)
        THEN LET p == h.bins[idx][Max(own)] IN result(take(unlink(h, p), p, nb), p)
        ELSE IF above = {} THEN use_top(g, nb)
        ELSE LET p == Last(h.bins[Min(above)])
                 remember == in_smallbin_range(nb) /\ h.size[p] - nb >= MinSize
             IN  result([take(unlink(g, p), p, nb) EXCEPT
                            !.last_remainder = IF remember THEN p + nb ELSE @], p)

\* The loop over the unsorted bin, from the oldest chunk on.
sort_all(h, nb) ==
    FoldLeft(LAMBDA found, p : sort(found, p, nb), result(h, Null), Reverse(h.bins[1]))

\* malloc up to the point where it relays to sYSMALLOc.
search(h, nb) ==
    IF ~h.anychunks THEN use_top(IF h.max_fast = 0 THEN malloc_consolidate(h) ELSE h, nb)
    ELSE IF nb <= h.max_fast /\ h.fastbins[nb] # <<>>
    THEN result([h EXCEPT !.fastbins[nb] = Tail(@)], Head(h.fastbins[nb]))
    ELSE IF in_smallbin_range(nb) /\ h.bins[nb] # <<>>
    THEN LET p == Last(h.bins[nb])
         IN  result(set_inuse_before([h EXCEPT !.bins[nb] = Front(@)], p + nb), p)
    ELSE OrElse(sort_all(IF in_smallbin_range(nb) THEN h ELSE sweep(h), nb),
                LAMBDA g : search_bins(g, nb))

CanMmap(h, nb) ==
    /\ nb >= h.mmap_threshold /\ h.n_mmaps < h.n_mmaps_max
    /\ h.mmap_top + PageUp(nb + 2) <= MmapEnd

map_chunk(h, nb) ==
    LET n == PageUp(nb + 2)
    IN  result([h EXCEPT !.size = set(@, h.mmap_top, n), !.prev_size = set(@, h.mmap_top, 0),
                         !.mmapped = @ \cup {h.mmap_top}, !.mmap_top = @ + n,
                         !.n_mmaps = @ + 1, !.mmapped_mem = @ + n], h.mmap_top)

\* sYSMALLOc once there are no fast chunks.  A size that is 0 or negative as a long is
\* not asked of sbrk; mmap, tried in its place, has no room for it.
sYSMALLOc(h, nb) ==
    LET grown == Wrap(2 * PageUp(nb + h.top_pad + MinSize - TopSize(h))) \div 2
        top == IF h.top = InitialTop THEN h.brk ELSE h.top
        larger == [set_head(h, top, TopSize(h) + grown) EXCEPT
                      !.top = top, !.brk = @ + grown, !.sbrked_mem = @ + grown]
    IN  IF CanMmap(h, nb) THEN map_chunk(h, nb)
        ELSE IF grown \notin 1 .. MaxLong - 1 THEN result(h, Null)
        ELSE IF h.brk + grown > HeapEnd THEN result(halt(h), Null)
        ELSE use_top(larger, nb)

mALLOc_WithoutRetry(h, words) ==
    LET nb == request2size(words)
    IN  IF h.halted \/ words > MaxRequest THEN result(h, Null)
        ELSE OrElse(search(h, nb), LAMBDA g : sYSMALLOc(g, nb))

\* sYSMALLOc, finding fast chunks, has malloc start again without them.
mALLOc(h, words) ==
    LET nb == request2size(words)
        Retry(g) == IF g.fastchunks THEN search(malloc_consolidate(g), nb) ELSE result(g, Null)
    IN  IF h.halted \/ words > MaxRequest THEN result(h, Null)
        ELSE OrElse(OrElse(search(h, nb), Retry), LAMBDA g : sYSMALLOc(g, nb))

-----------------------------------------------------------------------------
(* realloc, memalign, the independent allocations *)

fit_WithoutCut(h, p, n, nb) ==
    IF n - nb < MinSize THEN set_inuse_before([h EXCEPT !.size = set(@, p, n)], p + n)
    ELSE LET cut == set_inuse_before(set_head([h EXCEPT !.size = set(@, p, n)], p + nb, n - nb), p + n)
         IN  fREe(cut, p + nb)

\* Chunk p, in use, of n granules (its header may still say less), is cut down to nb.
fit(h, p, n, nb) ==
    IF n - nb < MinSize THEN set_inuse_before([h EXCEPT !.size = set(@, p, n)], p + n)
    ELSE LET cut == set_inuse_before(set_head([h EXCEPT !.size = set(@, p, nb)], p + nb, n - nb), p + n)
         IN  fREe(cut, p + nb)

\* The header of q disappears in the chunk before it.
swallow(h, q) == [h EXCEPT !.size = drop(@, {q}), !.prev_size = drop(@, {q}), !.pinuse = @ \ {q}]

\* realloc with a new chunk: its own second half, if that is where malloc found it.
move(r, oldp, oldsize, nb) ==
    LET g == r.heap
        next == oldp + oldsize
    IN  IF r.mem = Null THEN r
        ELSE IF oldp \notin g.mmapped /\ r.mem = next
        THEN result(fit(swallow(g, next), oldp, oldsize + g.size[next], nb), oldp)
        ELSE result(fREe(g, oldp), r.mem)

rEALLOc(h, oldp, words) ==
    LET nb == request2size(words)
        oldsize == h.size[oldp]
        next == oldp + oldsize
    IN  IF words > MaxRequest THEN result(h, Null)
        ELSE IF oldp \in h.mmapped /\ oldsize > nb THEN result(h, oldp)
        ELSE IF oldp \notin h.mmapped /\ oldsize >= nb THEN result(fit(h, oldp, oldsize, nb), oldp)
        ELSE IF oldp \notin h.mmapped /\ next = h.top /\ oldsize + TopSize(h) >= nb + MinSize
        THEN result([set_head([swallow(h, next) EXCEPT !.size[oldp] = nb],
                              oldp + nb, oldsize + TopSize(h) - nb) EXCEPT !.top = oldp + nb], oldp)
        ELSE IF /\ oldp \notin h.mmapped /\ next # h.top
                /\ ~inuse(h, next) /\ oldsize + h.size[next] >= nb
        THEN result(fit(swallow(unlink(h, next), next), oldp, oldsize + h.size[next], nb), oldp)
        ELSE move(mALLOc(h, Refit(nb)), oldp, oldsize, nb)

\* The words realloc copies when the chunk moves.
copysize(h, oldp) == 2 * h.size[oldp] - (IF oldp \in h.mmapped THEN 2 ELSE 1)

PowerOf2(n) == Min({a \in {2, 4, 8, 16, 32} : a >= n})

give_back_tail(h, p, nb) ==
    IF p \in h.mmapped \/ h.size[p] <= nb + MinSize THEN h
    ELSE fREe(set_head([h EXCEPT !.size[p] = nb], p + nb, h.size[p] - nb), p + nb)

\* Where in a chunk p an aligned one can start: at p, or with the chunk before it whole.
aligned_spot(p, a) ==
    LET spot == ((p + 1 + a - 1) \div a) * a - 1
    IN  IF spot = p \/ spot - p >= MinSize THEN spot ELSE spot + a

\* The aligned part newp of a chunk p, lead granules on, and the rest given back.
align(h, p, newp, lead, nb) ==
    LET n == h.size[p] - lead
        cut == [h EXCEPT !.size = set(set(@, p, lead), newp, n), !.pinuse = @ \cup {newp}]
    IN  IF lead = 0 THEN result(give_back_tail(h, p, nb), p)
        ELSE IF p \in h.mmapped
        THEN result([h EXCEPT !.size = set(drop(@, {p}), newp, n),
                              !.prev_size = set(drop(@, {p}), newp, @[p] + lead),
                              !.mmapped = (@ \ {p}) \cup {newp}], newp)
        ELSE result(give_back_tail(fREe(set_inuse_before(cut, newp + n), p), newp, nb), newp)

\* Worst case padding to hit alignment.
padded(a, words) == 2 * (request2size(words) + a + MinSize)

mEMALIGn(h, alignment, words) ==
    LET nb == request2size(words)
        a == PowerOf2(alignment)
        Align(r) == IF r.mem = Null THEN r
                    ELSE LET newp == aligned_spot(r.mem, a)
                         IN  align(r.heap, r.mem, newp, newp - r.mem, nb)
    IN  IF alignment <= 1 THEN mALLOc(h, words)
        ELSE IF words > MaxRequest THEN result(h, Null)
        ELSE Align(mALLOc(h, Wrap(padded(a, words))))

initialised(h) == IF h.max_fast = 0 THEN malloc_consolidate(h) ELSE h

vALLOc(h, words) == mEMALIGn(initialised(h), PageSize, words)

\* The largest sizes round up to 0.
pVALLOc(h, words) == mEMALIGn(initialised(h), PageSize, Wrap(2 * PageUp((words + 1) \div 2)))

\* Nothing tests the product.
cALLOc(h, n_elements, elem_size) == mALLOc(h, Wrap(n_elements * elem_size))

\* The words calloc clears: those of a chunk of its own mmap are taken to be 0.
clearsize(h, p) == IF p \in h.mmapped THEN 0 ELSE 2 * h.size[p] - 1

total(sized) == FoldLeft(+, 0, sized)

\* The chunk p is cut into chunks of the given sizes; what is too much goes to the last.
carve(h, p, sized) ==
    LET starts == [i \in DOMAIN sized |-> p + total(SubSeq(sized, 1, i - 1))]
        Cut(g, i) == set_head(g, starts[i], IF i = Len(sized) THEN p + h.size[p] - starts[i] ELSE sized[i])
    IN  [heap |-> FoldLeft(Cut, h, [i \in DOMAIN sized |-> i]), mems |-> starts]

\* The chunks for elements of the given sizes and, unless the caller provides it, for an
\* array of pointers to them.
pieces(sizes, provided) ==
    [i \in DOMAIN sizes |-> request2size(sizes[i])]
        \o IF provided THEN <<>> ELSE <<request2size(Len(sizes))>>

\* One chunk is cut into these pieces.  mmap is turned off meanwhile.
iALLOc(h, sizes, provided) ==
    LET g == initialised(h)
        sized == pieces(sizes, provided)
        Restored(r) == [r.heap EXCEPT !.n_mmaps_max = g.n_mmaps_max]
        Carve(r) == IF r.mem = Null THEN [heap |-> Restored(r), mems |-> <<>>]
                    ELSE carve(Restored(r), r.mem, sized)
        Empty(r) == [heap |-> r.heap, mems |-> <<r.mem>>]
    IN  IF sizes # <<>> THEN Carve(mALLOc([g EXCEPT !.n_mmaps_max = 0], Wrap(Refit(total(sized)))))
        ELSE IF provided THEN [heap |-> g, mems |-> <<>>]
        ELSE Empty(mALLOc(g, 0))

mUSABLe(h, p) ==
    IF p \in h.mmapped THEN 2 * h.size[p] - 2
    ELSE IF inuse(h, p) THEN 2 * h.size[p] - 1 ELSE 0

Binned(h) == UNION {ToSet(h.bins[i]) : i \in DOMAIN h.bins}
Fast(h) == UNION {ToSet(h.fastbins[n]) : n \in DOMAIN h.fastbins}

Granules(h, chunks) == MapThenSumSet(LAMBDA p : h.size[p], chunks)

mALLINFo(h) ==
    LET avail == TopSize(h) + Granules(h, Fast(h) \cup Binned(h))
    IN  [arena |-> h.sbrked_mem, hblks |-> h.n_mmaps, hblkhd |-> h.mmapped_mem,
         fordblks |-> avail, uordblks |-> h.sbrked_mem - avail]

mALLOPt(h, option) ==
    LET swept == malloc_consolidate(h)
        v == option.value
    IN  CASE option.param = "M_MXFAST" ->
                IF request2size(v) \in DOMAIN h.fastbins
                THEN [swept EXCEPT !.max_fast = request2size(v)] ELSE swept
          [] option.param = "M_TRIM_THRESHOLD" -> [swept EXCEPT !.trim_threshold = v]
          [] option.param = "M_TOP_PAD" -> [swept EXCEPT !.top_pad = v]
          [] option.param = "M_MMAP_THRESHOLD" -> [swept EXCEPT !.mmap_threshold = v]
          [] option.param = "M_MMAP_MAX" -> [swept EXCEPT !.n_mmaps_max = v]

-----------------------------------------------------------------------------
(* The calls *)

\* malloc_state is zero at first; the first call that needs it finds max_fast still 0.
Init ==
    /\ heap = [max_fast |-> 0, fastchunks |-> FALSE, anychunks |-> FALSE,
               fastbins |-> [n \in MinSize .. MaxFast |-> <<>>],
               bins |-> [i \in 1 .. NBins - 1 |-> <<>>], binmap |-> {},
               top |-> Null, last_remainder |-> Null,
               top_pad |-> 0, trim_threshold |-> 0, mmap_threshold |-> 0,
               n_mmaps |-> 0, n_mmaps_max |-> 0, mmapped_mem |-> 0, sbrked_mem |-> 0,
               size |-> <<>>, pinuse |-> {}, prev_size |-> <<>>, mmapped |-> {},
               brk |-> HeapBase, mmap_top |-> MmapBase, halted |-> FALSE]
    /\ live = {}

Running == ~heap.halted

Room(n) == Cardinality(live) + n <= MaxBlocks

\* 0 is no chunk.
Return(r) == Running /\ heap' = r.heap /\ live' = live \cup ({r.mem} \ {Null})

CallMalloc(n) == Return(mALLOc(heap, n))

CallMemalign(a, n) == Return(mEMALIGn(heap, a, n))

CallValloc(n) == Return(vALLOc(heap, n))

CallPvalloc(n) == Return(pVALLOc(heap, n))

CallCalloc(n, elem) == Return(cALLOc(heap, n, elem))

CallIndependent(sizes, provided) ==
    \E r \in {iALLOc(heap, sizes, provided)} :
        Running /\ heap' = r.heap /\ live' = live \cup (ToSet(r.mems) \ {Null})

CallFree(p) == Running /\ heap' = fREe(heap, p) /\ live' = live \ {p}

CallRealloc(p, n) ==
    \E r \in {rEALLOc(heap, p, n)} :
        Running /\ heap' = r.heap /\ live' = IF r.mem = Null THEN live ELSE (live \ {p}) \cup {r.mem}

Call(h) ==
    /\ Running
    /\ heap' = h
    /\ UNCHANGED live

CallTrim(pad) == Call(sYSTRIm(malloc_consolidate(heap), pad))

CallMallinfo == Call(IF heap.top = Null THEN malloc_consolidate(heap) ELSE heap)

CallMallopt(option) == Call(mALLOPt(heap, option))

\* Bound: where a sum that wraps would have memalign or an independent allocation cut
\* more from a chunk than there is, it is not called.
SumFits(words) == words < SizeLimit

PaddingFits(a, n) == n > MaxRequest \/ SumFits(padded(PowerOf2(a), n))

PiecesFit(sizes, provided) ==
    /\ \A i \in DOMAIN sizes : SumFits(sizes[i] + 2)
    /\ SumFits(2 * total(pieces(sizes, provided)))

Next ==
    \/ \E n \in Requests : Room(1) /\ (CallMalloc(n) \/ CallPvalloc(n))
    \/ \E n \in Requests : Room(1) /\ PaddingFits(PageSize, n) /\ CallValloc(n)
    \/ \E n \in Requests, a \in Alignments : Room(1) /\ PaddingFits(a, n) /\ CallMemalign(a, n)
    \/ \E n \in Requests, k \in Counts : Room(1) /\ CallCalloc(k, n)
    \/ \E k \in Lengths, provided \in BOOLEAN : \E sizes \in [1 .. k -> Requests] :
            Room(IF provided THEN k ELSE k + 1) /\ PiecesFit(sizes, provided) /\ CallIndependent(sizes, provided)
    \/ \E p \in live : CallFree(p) \/ \E n \in Requests : CallRealloc(p, n)
    \/ CallTrim(TopPad) \/ CallMallinfo
    \/ \E option \in Options : CallMallopt(option)

Spec == Init /\ [][Next]_vars

-----------------------------------------------------------------------------
(* The checks that malloc.c makes of itself with DL_DEBUG *)

do_check_chunk(h, p) ==
    IF p \in h.mmapped
    THEN /\ p \notin HeapBase .. h.brk
         /\ (h.prev_size[p] + h.size[p]) % PageSize = 0
    ELSE IF p = h.top THEN h.size[p] >= MinSize /\ prev_inuse(h, p)
    ELSE p >= h.brk - h.sbrked_mem /\ p + h.size[p] <= h.top

do_check_free_chunk(h, p) ==
    LET next == p + h.size[p]
    IN  /\ do_check_chunk(h, p)
        /\ ~inuse(h, p) /\ p \notin h.mmapped
        /\ next \in DOMAIN h.prev_size /\ h.prev_size[next] = h.size[p]
        /\ prev_inuse(h, p)
        /\ next = h.top \/ inuse(h, next)

do_check_inuse_chunk(h, p) ==
    LET next == p + h.size[p]
    IN  /\ do_check_chunk(h, p)
        /\ p \notin h.mmapped =>
            /\ inuse(h, p)
            /\ ~prev_inuse(h, p) =>
                    /\ p \in DOMAIN h.prev_size
                    /\ LET prv == p - h.prev_size[p]
                       IN  /\ prv \in DOMAIN h.size /\ prv + h.size[prv] = p
                           /\ do_check_free_chunk(h, prv)
            /\ IF next = h.top THEN prev_inuse(h, next) /\ h.size[next] >= MinSize
               ELSE inuse(h, next) \/ do_check_free_chunk(h, next)

do_check_remalloced_chunk(h, p, nb) ==
    /\ do_check_inuse_chunk(h, p)
    /\ h.size[p] - nb \in 0 .. MinSize - 1

do_check_malloced_chunk(h, p, nb) == do_check_remalloced_chunk(h, p, nb) /\ prev_inuse(h, p)

do_check_malloc_state(h) ==
    /\ h.max_fast <= MaxFast
    /\ \A n \in DOMAIN h.fastbins :
            /\ n > h.max_fast => h.fastbins[n] = <<>>
            /\ \A p \in ToSet(h.fastbins[n]) : do_check_inuse_chunk(h, p) /\ h.size[p] = n
    /\ Fast(h) # {} => h.fastchunks
    /\ \A i \in DOMAIN h.bins :
            /\ i >= 2 /\ h.bins[i] # <<>> => i \in h.binmap
            /\ \A p \in ToSet(h.bins[i]) :
                    do_check_free_chunk(h, p) /\ (i >= 2 => bin_index(h.size[p]) = i)
            /\ \A p \in ToSet(h.bins[i]), q \in DOMAIN h.size \ (Binned(h) \cup {h.top}) :
                    p < q /\ q < h.top => do_check_inuse_chunk(h, q)
            /\ i >= MinLarge =>
                    \A j, k \in DOMAIN h.bins[i] : j < k => h.size[h.bins[i][j]] >= h.size[h.bins[i][k]]
    /\ do_check_chunk(h, h.top)

-----------------------------------------------------------------------------
(* Properties *)

\* Chunks of the heap, and those among them that are on some list, once for each time.
Chunks == DOMAIN heap.size \ heap.mmapped

Listed == FoldLeft(\o, <<>>, [i \in 1 .. NBins - 1 |-> heap.bins[i]])
              \o FoldLeft(LAMBDA l, n : l \o heap.fastbins[n], <<>>, [i \in 1 .. MaxFast - 1 |-> i + 1])

SetUp == heap.top \notin {Null, InitialTop}

\* Every variable has a value of its type.
TypeOK ==
    /\ heap.max_fast \in {0} \cup MinSize .. MaxFast
    /\ {heap.fastchunks, heap.anychunks, heap.halted} \subseteq BOOLEAN
    /\ DOMAIN heap.size \subseteq Heap \cup MmapBase .. MmapEnd
    /\ heap.pinuse \subseteq Chunks /\ heap.mmapped \subseteq DOMAIN heap.size
    /\ DOMAIN heap.prev_size \subseteq DOMAIN heap.size
    /\ heap.top \in Chunks \cup {Null, InitialTop} /\ heap.last_remainder \in Heap \cup {Null}
    /\ heap.brk \in HeapBase .. HeapEnd /\ heap.mmap_top \in MmapBase .. MmapEnd
    /\ heap.binmap \subseteq MinSize .. NBins - 1
    /\ live \subseteq DOMAIN heap.size

\* From the start of the heap to the break every granule is in one chunk, and every
\* chunk in one place: with a caller, on one list once, or top.  No sequence of calls
\* loses memory or has it twice.
NothingLost ==
    SetUp =>
        /\ Granules(heap, Chunks) = heap.brk - HeapBase
        /\ \A p \in Chunks : p + heap.size[p] \in Chunks \cup {heap.brk}
        /\ HeapBase \in Chunks /\ heap.top + heap.size[heap.top] = heap.brk
        /\ Chunks = (live \ heap.mmapped) \cup ToSet(Listed) \cup {heap.top}
        /\ Cardinality(Chunks) = Cardinality(live \ heap.mmapped) + Len(Listed) + 1

\* Freed chunks are merged at once: no two of them are neighbours, and none is top's.
\* Only chunks in fastbins wait.
FreeChunksApart ==
    \A p \in Binned(heap) : p + heap.size[p] \notin Binned(heap) \cup {heap.top}

\* mallinfo: what it calls in use is what callers hold.
MallinfoAddsUp ==
    SetUp => mALLINFo(heap).uordblks = Granules(heap, live \ heap.mmapped)

\* Every granule is somewhere, once; free ones are as few chunks as they can be; and
\* mallinfo tells the callers' share from the rest.
HeapAccounted == TypeOK /\ NothingLost /\ FreeChunksApart /\ MallinfoAddsUp

\* malloc.c: its debugging checks "should be true at all times".
CheckMallocState == SetUp => do_check_malloc_state(heap)

\* What the next malloc would hand out passes check_malloced_chunk, or, if it comes
\* from a fastbin, check_remalloced_chunk.
HandsOutChecked ==
    \A n \in Requests : \A r \in {mALLOc(heap, n)} :
        LET nb == request2size(n)
            recycled == nb <= heap.max_fast /\ heap.fastbins[nb] # <<>>
        IN  r.mem \notin {Null} \cup r.heap.mmapped =>
                IF recycled THEN do_check_remalloced_chunk(r.heap, r.mem, nb)
                ELSE do_check_malloced_chunk(r.heap, r.mem, nb)

\* malloc.c: "strictly by best-fit; i.e., the smallest chunk that fits is selected",
\* apart from chunks in fastbins and the last remainder of a small request.
BestFit ==
    \A n \in Requests :
        LET nb == request2size(n)
            swept == IF in_smallbin_range(nb) THEN heap ELSE sweep(heap)
            p == search(heap, nb).mem
        IN  /\ SetUp /\ p # Null /\ p \notin Fast(swept)
            /\ ~(in_smallbin_range(nb) /\ p = heap.last_remainder)
            => \A q \in Binned(swept) :
                    swept.size[q] >= nb => p \in Binned(swept) /\ swept.size[p] <= swept.size[q]

\* The runs of granules that are free once all fastbins are emptied.
FreeRuns(h) == LET swept == malloc_consolidate(h) IN {swept.size[p] : p \in Binned(swept)}

\* malloc goes to the system, or fails, only if no run of free granules, however it is
\* spread over fastbins and bins, would do.
GrowsOnlyWhenFull ==
    SetUp /\ Running => \A n \in Requests : \A r \in {mALLOc(heap, n)} :
        r.mem = Null \/ r.heap.brk # heap.brk \/ r.heap.mmap_top # heap.mmap_top =>
            /\ \A m \in FreeRuns(heap) : m < request2size(n)
            /\ TopSize(malloc_consolidate(heap)) < request2size(n) + MinSize

\* Whichever call it is for, and wherever it is found, a chunk has room for the request;
\* also for the largest ones, except where malloc.c itself lets a sum or product wrap.
RoomForRequests ==
    \A n \in Requests :
        LET Holds(r, words) == r.mem # Null => mUSABLe(r.heap, r.mem) >= words
            Fits(r) == Holds(r, n)
            AllFit(r) == \A i \in DOMAIN r.mems : mUSABLe(r.heap, r.mems[i]) >= (IF i = 3 THEN 2 ELSE n)
        IN  Running =>
                /\ Fits(mALLOc(heap, n))
                /\ SumFits(2 * PageUp((n + 1) \div 2)) => Fits(pVALLOc(heap, n))
                /\ PaddingFits(PageSize, n) => Fits(vALLOc(heap, n))
                /\ \A a \in Alignments : PaddingFits(a, n) => Fits(mEMALIGn(heap, a, n))
                /\ \A k \in Counts : SumFits(k * n) => Holds(cALLOc(heap, k, n), k * n)
                /\ \A p \in live : \A r \in {rEALLOc(heap, p, n)} : r.heap.halted \/ Fits(r)
                /\ PiecesFit(<<n, n>>, FALSE) => AllFit(iALLOc(heap, <<n, n>>, FALSE))

\* A realloc that moves copies all that the old chunk can hold, or all that was asked
\* for; neither it nor calloc writes beyond the new one.
WritesFit ==
    Running => \A n \in Requests :
        /\ \A p \in live : \A r \in {rEALLOc(heap, p, n)} :
                r.mem \notin {Null, p} /\ ~r.heap.halted =>
                    copysize(heap, p) \in Min({mUSABLe(heap, p), n}) .. mUSABLe(r.heap, r.mem)
        /\ \A r \in {mALLOc(heap, n)} : r.mem # Null => clearsize(r.heap, r.mem) <= mUSABLe(r.heap, r.mem)

\* memalign's chunk is aligned, also where the first spot is too near to the front.
\* (Addresses count from the start of a granule; memory starts one later.)
AlignmentKept ==
    \A n \in Requests, a \in (Alignments \cup {PageSize}) \ 0 .. 1 :
        LET mem == mEMALIGn(heap, a, n).mem
        IN  PaddingFits(a, n) /\ mem # Null => (mem + 1) % PowerOf2(a) = 0

\* What any of the calls hands out is a proper chunk, large enough, aligned as asked, and
\* with room for what the call itself writes into it.
HandedOutFits == HandsOutChecked /\ RoomForRequests /\ WritesFit /\ AlignmentKept

Blocks == INSTANCE BlockStore WITH
    Memory <- Heap \cup MmapBase .. MmapEnd - 1,
    blocks <- [p \in live |-> heap.size[p]]

\* Seen from the callers, the heap is a store of blocks that do not overlap.
ImplementsBlockStore == Blocks!Spec

==============================================================================
