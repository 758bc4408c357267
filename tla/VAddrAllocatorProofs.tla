------------------------ MODULE VAddrAllocatorProofs -------------------------
(***************************************************************************)
(* Safety of VAddrAllocator for every size of the range, of the node pool  *)
(* and of the heap.                                                        *)
(***************************************************************************)
EXTENDS VAddrAllocator, NumberTheorems, FiniteSetTheorems, TLAPS

USE ConstantsAssumption

LEMMA AlignUpBounds ==
    ASSUME NEW v \in Nat, NEW a \in Nat \ {0}
    PROVE  AlignUp(v, a) \in Nat /\ v <= AlignUp(v, a) /\ AlignUp(v, a) < v + a
BY DEF AlignUp

\* The types of the fields of a node.
FieldsOK ==
    /\ live \subseteq Node
    /\ is_free \in [Node -> BOOLEAN]
    /\ start \in [Node -> Nat] /\ npages \in [Node -> Nat]
    /\ prev \in [Node -> Node \cup {Null}] /\ next \in [Node -> Node \cup {Null}]
    /\ head \in Node
    /\ free_stack \in Seq(PoolNodes)

\* The part of PoolNodesAccounted that is inductive, of any stack and set of nodes.
Accounted(stack, nodes) ==
    /\ \A i, j \in DOMAIN stack : stack[i] = stack[j] => i = j
    /\ \A n \in PoolNodes : n \in nodes <=> \A i \in DOMAIN stack : stack[i] # n

StackAccounted == Accounted(free_stack, live)

\* allocate_node returns a node that is not on the list.
LEMMA AllocatedNodeIsFresh ==
    ASSUME FieldsOK, StackAccounted, NEW r \in Node, AllocateNode(r)
    PROVE  r \notin live /\ free_stack' \in Seq(PoolNodes)
<1>1. CASE free_stack # <<>>
    <2>1. Len(free_stack) \in DOMAIN free_stack /\ free_stack[Len(free_stack)] \in PoolNodes
        BY <1>1 DEF FieldsOK
    <2>2. r = free_stack[Len(free_stack)]
        BY <1>1 DEF AllocateNode
    <2>3. r \notin live
        BY <2>1, <2>2 DEF StackAccounted, Accounted
    <2>4. SubSeq(free_stack, 1, Len(free_stack) - 1) \in Seq(PoolNodes)
        BY <1>1 DEF FieldsOK
    <2> QED
        BY <1>1, <2>3, <2>4 DEF AllocateNode
<1>2. CASE free_stack = <<>>
    BY <1>2 DEF FieldsOK, AllocateNode
<1> QED
    BY <1>1, <1>2

\* A split with two non-empty parts keeps the types.
LEMMA SplitFields ==
    ASSUME FieldsOK, StackAccounted,
           NEW orig \in live, NEW left \in 1 .. npages[orig] - 1,
           NEW r \in Node, NEW f \in BOOLEAN,
           Split(orig, left, r, f), head' = head
    PROVE  FieldsOK' /\ r \notin live
<1>1. r \notin live /\ free_stack' \in Seq(PoolNodes)
    BY AllocatedNodeIsFresh DEF Split
<1>2. npages[orig] \in Nat /\ start[orig] \in Nat
    BY DEF FieldsOK
<1>3. npages[orig] - left \in Nat /\ start[orig] + left \in Nat /\ left \in Nat
    BY <1>2
<1> QED
    BY <1>1, <1>3 DEF FieldsOK, Split

\* A split keeps the list a tiling of the range.
LEMMA SplitTiles ==
    ASSUME FieldsOK, StackAccounted, ListTilesRange,
           NEW orig \in live, NEW left \in 1 .. npages[orig] - 1,
           NEW r \in Node, NEW f \in BOOLEAN,
           Split(orig, left, r, f), head' = head
    PROVE  ListTilesRange'
<1>1. r \notin live /\ FieldsOK'
    BY SplitFields
<1> USE DEF FieldsOK
<1> orig \in Node /\ npages[orig] \in Nat /\ start[orig] \in Nat
    OBVIOUS
<1>a. npages'[r] = npages[orig] - left /\ npages'[orig] = left
    BY <1>1 DEF Split
<1>b. start'[r] = start[orig] + left /\ start'[orig] = start[orig]
    BY <1>1 DEF Split
<1>c. \A n \in live \ {orig} : start'[n] = start[n] /\ npages'[n] = npages[n]
    <2>1. /\ start' = [start EXCEPT ![r] = start[orig] + left]
          /\ npages' = [npages EXCEPT ![r] = npages[orig] - left, ![orig] = left]
        BY DEF Split
    <2> QED
        BY <1>1, <2>1
<1>d. live' = live \cup {r}
    BY DEF Split
<1>e. End(r)' = End(orig) /\ End(orig)' = start[orig] + left
    BY <1>a, <1>b DEF End
<1>f. \A n \in live \ {orig} : End(n)' = End(n)
    BY <1>c DEF End
<1>g. next'[r] = next[orig] /\ next'[orig] = r /\ \A n \in live \ {orig} : next'[n] = next[n]
    BY <1>1 DEF Split
<1>h. prev'[r] = orig /\ \A n \in live : prev'[n] = IF n = next[orig] THEN r ELSE prev[n]
    BY <1>1 DEF Split
<1>i. orig # Null /\ r # Null /\ head # r /\ head \in live
    BY <1>1 DEF ListTilesRange, NodesLinked, ConstantsAssumption
<1>3. NodesLinked'
    <2>1. (head \in live /\ start[head] = 0)'
        BY <1>b, <1>c, <1>d, <1>i DEF ListTilesRange, NodesLinked
    <2>2. ASSUME NEW n \in live'
          PROVE  IF n = head THEN prev'[n] = Null
                 ELSE prev'[n] \in live' /\ next'[prev'[n]] = n
        <3>1. CASE n = r
            BY <3>1, <1>d, <1>g, <1>h, <1>i
        <3>2. CASE n \in live /\ n = next[orig]
            <4>1. n # head /\ n # Null
                BY <3>2 DEF ListTilesRange, NodesLinked
            <4> QED
                BY ONLY <3>2, <4>1, <1>d, <1>g, <1>h, <1>i
        <3>3. CASE n \in live /\ n # next[orig]
            <4>1. n # head => prev[n] \in live \ {orig} /\ next[prev[n]] = n
                BY <3>3 DEF ListTilesRange, NodesLinked
            <4>2. n = head => prev[n] = Null
                BY <3>3 DEF ListTilesRange, NodesLinked
            <4>3. prev'[n] = prev[n]
                BY <3>3, <1>h
            <4> QED
                BY <4>1, <4>2, <4>3, <1>d, <1>g
        <3> QED
            BY <3>1, <3>2, <3>3, <1>d
    <2>3. ASSUME NEW n \in live'
          PROVE  IF next'[n] = Null THEN End(n)' = TotalPages
                 ELSE /\ next'[n] \in live' /\ prev'[next'[n]] = n
                      /\ start'[next'[n]] = End(n)'
        <3>1. CASE n = r
            BY <3>1, <1>b, <1>c, <1>d, <1>e, <1>g, <1>h, <1>i DEF ListTilesRange, NodesLinked
        <3>2. CASE n = orig
            BY <3>2, <1>b, <1>d, <1>e, <1>g, <1>h, <1>i
        <3>3. CASE n \in live \ {orig}
            <4>1. next[n] # Null => next[n] # next[orig]
                BY <3>3 DEF ListTilesRange, NodesLinked
            <4> QED
                BY <3>3, <4>1, <1>1, <1>b, <1>c, <1>d, <1>f, <1>g, <1>h, <1>i, SMTT(30)
                   DEF ListTilesRange, NodesLinked
        <3> QED
            BY <3>1, <3>2, <3>3, <1>d
    <2> QED
        BY <2>1, <2>2, <2>3, head' = head DEF NodesLinked
<1>4. NodesInRange'
    <2>1. \A n \in live \ {orig} : npages'[n] > 0 /\ End(n)' <= TotalPages
        BY <1>c, <1>f DEF ListTilesRange, NodesInRange
    <2>2. npages'[orig] > 0 /\ End(orig)' <= TotalPages /\ npages'[r] > 0 /\ End(r)' <= TotalPages
        BY <1>a, <1>e, ConstantsAssumption
           DEF ListTilesRange, NodesInRange, End, ConstantsAssumption
    <2> QED
        BY <2>1, <2>2, <1>d DEF NodesInRange
<1>5. NodesOrdered'
    <2>1. \A k \in live \ {orig} : End(k) <= start[orig] \/ End(orig) <= start[k]
        BY DEF ListTilesRange, NodesOrdered
    <2>2. start'[r] = End(orig)' /\ End(orig)' <= End(orig) /\ start[orig] <= start'[r]
        BY <1>b, <1>e DEF End
    <2>3. \A k \in live \ {orig} :
            /\ start'[k] \in Nat /\ End(k)' \in Nat
            /\ End(k)' <= start'[orig] \/ End(r)' <= start'[k]
        BY <2>1, <1>b, <1>c, <1>e, <1>f DEF End
    <2>4. /\ start'[r] \in Nat /\ start'[orig] \in Nat /\ End(orig)' \in Nat /\ End(r)' \in Nat
          /\ start'[orig] <= start'[r] /\ End(orig)' <= End(r)'
        BY <1>b, <1>e, <2>2 DEF End
    <2>5. \A k \in live \ {orig} :
            /\ End(k)' <= start'[orig] \/ End(orig)' <= start'[k]
            /\ End(k)' <= start'[r] \/ End(r)' <= start'[k]
        BY <2>3, <2>4, SMTT(30)
    <2>6. \A j, k \in live \ {orig} : j = k \/ End(j)' <= start'[k] \/ End(k)' <= start'[j]
        BY <1>c, <1>f DEF ListTilesRange, NodesOrdered
    <2>7. End(orig)' <= start'[r]
        BY <2>2, <2>4
    <2>8. ASSUME NEW j \in live', NEW k \in live', j # k
          PROVE  End(j)' <= start'[k] \/ End(k)' <= start'[j]
        <3>1. CASE j \in live \ {orig} /\ k \in live \ {orig}
            BY <3>1, <2>6, <2>8
        <3>2. CASE j \in live \ {orig} /\ k \in {orig, r}
            BY <3>2, <2>5
        <3>3. CASE j \in {orig, r} /\ k \in live \ {orig}
            BY <3>3, <2>5
        <3>4. CASE j \in {orig, r} /\ k \in {orig, r}
            BY <3>4, <2>7, <2>8
        <3> QED
            BY <3>1, <3>2, <3>3, <3>4, <1>d
    <2> QED
        BY <2>8 DEF NodesOrdered
<1> QED
    BY <1>3, <1>4, <1>5 DEF ListTilesRange


\* The neighbours of a node on the list.
LEMMA Neighbours ==
    ASSUME FieldsOK, ListTilesRange, NEW n \in live
    PROVE  /\ n # head => /\ prev[n] \in live /\ next[prev[n]] = n /\ End(prev[n]) = start[n]
                          /\ start[prev[n]] < start[n]
           /\ n = head => prev[n] = Null
           /\ next[n] # Null => /\ next[n] \in live /\ prev[next[n]] = n /\ next[n] # head
                                /\ start[next[n]] = End(n) /\ start[n] < start[next[n]]
           /\ next[n] = Null => End(n) = TotalPages
<1>1. n # Null
    BY ConstantsAssumption DEF FieldsOK, ConstantsAssumption
<1>2. next[n] # Null => /\ next[n] \in live /\ prev[next[n]] = n /\ start[next[n]] = End(n)
                        /\ next[n] # head
    BY <1>1 DEF ListTilesRange, NodesLinked
<1>3. n # head => prev[n] \in live /\ next[prev[n]] = n /\ start[n] = End(prev[n])
    BY <1>1 DEF ListTilesRange, NodesLinked
<1>4. \A k \in live : start[k] \in Nat /\ npages[k] \in Nat /\ npages[k] > 0
    BY DEF FieldsOK, ListTilesRange, NodesInRange
<1>5. \A k \in live : start[k] < End(k)
    BY <1>4 DEF End
<1> QED
    BY <1>2, <1>3, <1>5 DEF ListTilesRange, NodesLinked

\* What coalesce does, in terms of the node that remains (s), the last one merged
\* (last), the absorbed ones (gone) and the one that follows (tail).
CoalesceEffect(n, s, last, gone, tail) ==
    /\ s \in live /\ last \in live /\ gone \subseteq live /\ head \notin gone
    /\ s \notin gone /\ last \in gone \cup {s} /\ n \in gone \cup {s}
    /\ gone \cup {s} = {n} \cup ({prev[n], next[n]} \cap FreeNodes)
    /\ s = IF prev[n] \in FreeNodes THEN prev[n] ELSE n
    /\ last = IF next[n] \in FreeNodes THEN next[n] ELSE n
    /\ tail = next[last]
    /\ start[s] <= start[n] /\ start[n] <= start[last]
    /\ live' = live \ gone
    /\ is_free'[s] /\ start'[s] = start[s] /\ End(s)' = End(last) /\ npages'[s] \in Nat
    /\ next'[s] = tail /\ prev'[s] = prev[s]
    /\ tail # Null => tail \in live' \ {s}
    /\ \A k \in live' \ {s} :
        /\ start'[k] = start[k] /\ npages'[k] = npages[k] /\ is_free'[k] = is_free[k]
        /\ next'[k] = next[k]
        /\ prev'[k] = IF k = tail THEN s ELSE prev[k]

LEMMA CoalesceHasEffect ==
    ASSUME FieldsOK, ListTilesRange, NEW n \in live, ~is_free[n], Coalesce(n)
    PROVE  \E s, last, gone, tail : CoalesceEffect(n, s, last, gone, tail)
<1>0. PICK p, x, s, last, tail, gone :
        /\ p = prev[n] /\ x = next[n]
        /\ s = IF p \in FreeNodes THEN p ELSE n
        /\ last = IF x \in FreeNodes THEN x ELSE n
        /\ tail = IF x \in FreeNodes THEN next[x] ELSE x
        /\ gone = ({n, x} \cap (FreeNodes \cup {n})) \ {s}
    OBVIOUS
<1>1. n \in Node /\ FreeNodes \subseteq live /\ Null \notin FreeNodes /\ n \notin FreeNodes
    BY ConstantsAssumption DEF FieldsOK, FreeNodes, ConstantsAssumption
<1>2. p \in FreeNodes => n # head /\ End(p) = start[n] /\ next[p] = n /\ start[p] < start[n]
    BY <1>0, <1>1, Neighbours
<1>3. x \in FreeNodes => x # head /\ End(n) = start[x] /\ prev[x] = n /\ start[n] < start[x]
    BY <1>0, <1>1, Neighbours
<1>4. PICK size : size = (IF p \in FreeNodes THEN npages[p] ELSE 0) + npages[n]
                            + (IF x \in FreeNodes THEN npages[x] ELSE 0)
    OBVIOUS
<1>5. /\ live' = live \ gone
      /\ is_free' = [m \in Node |-> m = s \/ (is_free[m] /\ m \notin gone)]
      /\ start' = [m \in Node |-> IF m \in gone THEN 0 ELSE start[m]]
      /\ npages' = [m \in Node |-> IF m = s THEN size ELSE IF m \in gone THEN 0 ELSE npages[m]]
      /\ next' = [m \in Node |-> IF m = s THEN tail ELSE IF m \in gone THEN Null ELSE next[m]]
      /\ prev' = [m \in Node |-> IF m = tail THEN s ELSE IF m \in gone THEN Null ELSE prev[m]]
    BY <1>0, <1>4, Zenon DEF Coalesce
<1>6. s \in live /\ s \notin gone /\ gone \subseteq live /\ head \notin gone /\ s \in Node
    BY <1>0, <1>1, <1>2, <1>3 DEF FieldsOK
<1>7. \A k \in live : start[k] \in Nat /\ npages[k] \in Nat
    BY DEF FieldsOK
<1>8. start'[s] = start[s] /\ npages'[s] = size /\ next'[s] = tail /\ is_free'[s] /\ size \in Nat
    <2>1. size \in Nat
        <3>1. (p \in FreeNodes => npages[p] \in Nat) /\ (x \in FreeNodes => npages[x] \in Nat)
              /\ npages[n] \in Nat
            BY <1>1, <1>7
        <3> QED
            BY <1>4, <3>1
    <2> QED
        BY <2>1, <1>5, <1>6
<1>9. tail # Null => tail \in live' \ {s} /\ start[s] < start[tail]
    <2>1. CASE x \in FreeNodes
        <3>1. tail # Null => tail \in live /\ start[x] < start[tail]
            BY <2>1, <1>0, <1>1, Neighbours
        <3> QED
            BY <2>1, <3>1, <1>0, <1>1, <1>2, <1>3, <1>5, <1>7
    <2>2. CASE x \notin FreeNodes
        <3>1. tail # Null => tail \in live /\ start[n] < start[tail]
            BY <2>2, <1>0, Neighbours
        <3> QED
            BY <2>2, <3>1, <1>0, <1>1, <1>2, <1>5, <1>7
    <2> QED
        BY <2>1, <2>2
<1>10. prev'[s] = prev[s]
    BY <1>5, <1>6, <1>9, ConstantsAssumption DEF ConstantsAssumption
<1>11. \A k \in live' \ {s} : /\ start'[k] = start[k] /\ npages'[k] = npages[k]
                              /\ next'[k] = next[k] /\ is_free'[k] = is_free[k]
                              /\ prev'[k] = IF k = tail THEN s ELSE prev[k]
    BY <1>5 DEF FieldsOK
<1>12. gone \cup {s} = {n} \cup ({p, x} \cap FreeNodes) /\ last \in gone \cup {s}
    BY <1>0
<1>13. tail = next[last] /\ last \in live
    BY <1>0, <1>1
<1>14. start[s] <= start[n] /\ start[n] <= start[last]
    BY <1>0, <1>1, <1>2, <1>3, <1>7
<1>15. End(s)' = End(last)
    <2>1. End(s)' = start[s] + size
        BY <1>8 DEF End
    <2>2. start[s] + size = End(last)
        <3>1. start[n] \in Nat /\ npages[n] \in Nat
            BY <1>7
        <3>2. CASE p \in FreeNodes /\ x \in FreeNodes
            BY <3>1, <3>2, <1>0, <1>1, <1>2, <1>3, <1>4, <1>7 DEF End
        <3>3. CASE p \in FreeNodes /\ x \notin FreeNodes
            BY <3>1, <3>3, <1>0, <1>1, <1>2, <1>4, <1>7 DEF End
        <3>4. CASE p \notin FreeNodes /\ x \in FreeNodes
            BY <3>1, <3>4, <1>0, <1>1, <1>3, <1>4, <1>7 DEF End
        <3>5. CASE p \notin FreeNodes /\ x \notin FreeNodes
            BY <3>1, <3>5, <1>0, <1>4 DEF End
        <3> QED
            BY <3>2, <3>3, <3>4, <3>5
    <2> QED
        BY <2>1, <2>2
<1>16. /\ s \in live /\ last \in live /\ gone \subseteq live /\ head \notin gone
       /\ s \notin gone /\ last \in gone \cup {s} /\ n \in gone \cup {s}
       /\ gone \cup {s} = {n} \cup ({prev[n], next[n]} \cap FreeNodes)
       /\ s = IF prev[n] \in FreeNodes THEN prev[n] ELSE n
       /\ last = IF next[n] \in FreeNodes THEN next[n] ELSE n
       /\ tail = next[last]
    BY <1>0, <1>6, <1>12, <1>13
<1>17. /\ live' = live \ gone
       /\ is_free'[s] /\ start'[s] = start[s] /\ End(s)' = End(last) /\ npages'[s] \in Nat
       /\ next'[s] = tail /\ prev'[s] = prev[s]
    BY <1>5, <1>8, <1>10, <1>15
<1>18. /\ tail # Null => tail \in live' \ {s}
       /\ start[s] <= start[n] /\ start[n] <= start[last]
    BY <1>9, <1>14
<1>19. CoalesceEffect(n, s, last, gone, tail)
    BY <1>11, <1>16, <1>17, <1>18, SMTT(60) DEF CoalesceEffect
<1> QED
    BY <1>19

\* Merging a node with its free neighbours keeps the list a tiling of the range.
LEMMA CoalesceTiles ==
    ASSUME FieldsOK, ListTilesRange, NEW n \in live, ~is_free[n], Coalesce(n), head' = head
    PROVE  ListTilesRange'
<1>1. PICK s, last, gone, tail : CoalesceEffect(n, s, last, gone, tail)
    BY CoalesceHasEffect
<1>2. \A k \in live : /\ start[k] \in Nat /\ End(k) \in Nat /\ start[k] < End(k)
                      /\ End(k) <= TotalPages
    BY DEF FieldsOK, ListTilesRange, NodesInRange, End
<1>3. n \in live' => n = s
    BY <1>1 DEF CoalesceEffect
<1>4. last \in live' => last = s
    BY <1>1 DEF CoalesceEffect
<1>5. NodesLinked'
    <2>1. (head \in live /\ start[head] = 0)'
        BY <1>1 DEF CoalesceEffect, ListTilesRange, NodesLinked
    <2>2. ASSUME NEW k \in live'
          PROVE  IF k = head THEN prev'[k] = Null
                 ELSE prev'[k] \in live' /\ next'[prev'[k]] = k
        <3>1. k \in live
            BY <1>1 DEF CoalesceEffect
        <3>2. CASE k = s
            <4>1. s # head => prev[s] \notin gone \cup {s}
                <5>1. s # head => start[prev[s]] < start[s] /\ prev[s] \in live
                    BY <1>1, Neighbours DEF CoalesceEffect
                <5>2. \A g \in gone \cup {s} : start[s] <= start[g]
                    BY <1>1, <1>2, Neighbours DEF CoalesceEffect
                <5> QED
                    BY <5>1, <5>2, <1>1, <1>2 DEF CoalesceEffect
            <4> QED
                BY <1>1, <3>2, <4>1, Neighbours DEF CoalesceEffect
        <3>3. CASE k # s /\ k = tail
            <4>1. k # head
                BY <1>1, <3>1, <3>3, Neighbours, ConstantsAssumption DEF CoalesceEffect, FieldsOK, ConstantsAssumption
            <4> QED
                BY <1>1, <3>3, <4>1 DEF CoalesceEffect
        <3>4. CASE k # s /\ k # tail
            <4>1. k # head => prev[k] \in live /\ next[prev[k]] = k
                BY <3>1, Neighbours
            <4>2. k # head => prev[k] \notin gone \cup {s}
                BY <1>1, <3>1, <3>4, <4>1, Neighbours DEF CoalesceEffect
            <4> QED
                BY <1>1, <3>1, <3>4, <4>1, <4>2, Neighbours DEF CoalesceEffect
        <3> QED
            BY <3>2, <3>3, <3>4
    <2>3. ASSUME NEW k \in live'
          PROVE  IF next'[k] = Null THEN End(k)' = TotalPages
                 ELSE /\ next'[k] \in live' /\ prev'[next'[k]] = k
                      /\ start'[next'[k]] = End(k)'
        <3>1. k \in live
            BY <1>1 DEF CoalesceEffect
        <3>2. CASE k = s
            BY <1>1, <3>2, Neighbours DEF CoalesceEffect
        <3>3. CASE k # s
            <4>1. next'[k] = next[k] /\ End(k)' = End(k)
                BY <1>1, <3>3 DEF CoalesceEffect, End
            <4>2. next[k] # Null => /\ next[k] \in live /\ prev[next[k]] = k
                                    /\ start[next[k]] = End(k)
                BY <3>1, Neighbours
            <4>3. next[k] = Null => End(k) = TotalPages
                BY <3>1, Neighbours
            <4>4. next[k] # Null => next[k] \notin gone
                BY <1>1, <3>1, <3>3, <4>2, Neighbours DEF CoalesceEffect
            <4>5. next[k] # Null => next[k] # tail
                BY <1>1, <3>3, <4>2, <1>4, Neighbours DEF CoalesceEffect
            <4> QED
                BY <1>1, <4>1, <4>2, <4>3, <4>4, <4>5 DEF CoalesceEffect
        <3> QED
            BY <3>2, <3>3
    <2> QED
        BY <2>1, <2>2, <2>3 DEF NodesLinked
<1>6. NodesInRange'
    <2>1. \A k \in live' \ {s} : npages'[k] > 0 /\ End(k)' <= TotalPages
        BY <1>1 DEF CoalesceEffect, ListTilesRange, NodesInRange, End
    <2>2. start'[s] < End(s)' /\ End(s)' <= TotalPages
        BY <1>1, <1>2 DEF CoalesceEffect
    <2>3. npages'[s] > 0
        BY <2>2, <1>1, <1>2 DEF CoalesceEffect, End
    <2> QED
        BY <2>1, <2>2, <2>3 DEF NodesInRange
<1>7. NodesOrdered'
    <2>1. ASSUME NEW k \in live' \ {s}
          PROVE  End(k) <= start[s] \/ End(last) <= start[k]
        <3>1. k \in live /\ k # n /\ k # s /\ k # last
            BY <1>1 DEF CoalesceEffect
        <3>2. /\ End(k) <= start[n] \/ End(n) <= start[k]
              /\ End(k) <= start[s] \/ End(s) <= start[k]
              /\ End(k) <= start[last] \/ End(last) <= start[k]
            BY <1>1, <3>1 DEF CoalesceEffect, ListTilesRange, NodesOrdered
        <3>3. s = n \/ End(s) = start[n]
            BY <1>1, Neighbours, ConstantsAssumption, SMTT(30)
               DEF CoalesceEffect, FreeNodes, FieldsOK, ConstantsAssumption
        <3>4. last = n \/ End(n) = start[last]
            BY <1>1, Neighbours, ConstantsAssumption, SMTT(30)
               DEF CoalesceEffect, FreeNodes, FieldsOK, ConstantsAssumption
        <3> QED
            BY <1>1, <1>2, <3>1, <3>2, <3>3, <3>4 DEF CoalesceEffect
    <2>2. \A j, k \in live' \ {s} : j = k \/ End(j)' <= start'[k] \/ End(k)' <= start'[j]
        BY <1>1 DEF CoalesceEffect, ListTilesRange, NodesOrdered, End
    <2>3. \A k \in live' \ {s} : End(k)' <= start'[s] \/ End(s)' <= start'[k]
        BY <1>1, <2>1 DEF CoalesceEffect, End
    <2> QED
        BY <1>1, <2>2, <2>3 DEF NodesOrdered
<1> QED
    BY <1>5, <1>6, <1>7 DEF ListTilesRange

\* Merging keeps the types of the fields.
LEMMA CoalesceFields ==
    ASSUME FieldsOK, ListTilesRange, NEW n \in live, ~is_free[n], Coalesce(n), head' = head
    PROVE  FieldsOK'
<1>1. n \in Node /\ FreeNodes \subseteq Node /\ next[n] \in Node \cup {Null}
    BY DEF FieldsOK, FreeNodes
<1>2. live' \subseteq Node /\ is_free' \in [Node -> BOOLEAN] /\ start' \in [Node -> Nat]
    BY <1>1 DEF FieldsOK, Coalesce
<1>3. npages' \in [Node -> Nat]
    BY <1>1 DEF FieldsOK, Coalesce
<1>4. prev' \in [Node -> Node \cup {Null}]
    BY <1>1 DEF FieldsOK, Coalesce
<1>5. next' \in [Node -> Node \cup {Null}]
    BY <1>1 DEF FieldsOK, Coalesce
<1>6. free_stack' \in Seq(PoolNodes)
    BY <1>1 DEF FieldsOK, Coalesce, FreeNode
<1> QED
    BY <1>2, <1>3, <1>4, <1>5, <1>6 DEF FieldsOK

\* A pool node leaves free_stack when a split takes it.
LEMMA SplitStack ==
    ASSUME FieldsOK, StackAccounted, NEW orig \in live, NEW left \in Nat,
           NEW r \in Node, NEW f \in BOOLEAN, Split(orig, left, r, f)
    PROVE  StackAccounted'
<1>1. live' = live \cup {r} /\ AllocateNode(r)
    BY DEF Split
<1>2. CASE free_stack # <<>>
    <2>0. PICK k : k = Len(free_stack)
        OBVIOUS
    <2>1. /\ k \in Nat \ {0} /\ DOMAIN free_stack = 1 .. k
          /\ r = free_stack[k] /\ free_stack' = SubSeq(free_stack, 1, k - 1)
        BY <1>1, <1>2, <2>0 DEF FieldsOK, AllocateNode
    <2>2. DOMAIN free_stack' = 1 .. k - 1 /\ \A i \in 1 .. k - 1 : free_stack'[i] = free_stack[i]
        BY <2>1 DEF FieldsOK
    <2>3. \A i, j \in DOMAIN free_stack' : free_stack'[i] = free_stack'[j] => i = j
        BY <2>1, <2>2 DEF StackAccounted, Accounted
    <2>4. \A i \in 1 .. k - 1 : free_stack[i] # r
        BY <2>1 DEF StackAccounted, Accounted
    <2>5. ASSUME NEW m \in PoolNodes
          PROVE  m \in live' <=> \A i \in DOMAIN free_stack' : free_stack'[i] # m
        <3>1. CASE m = r
            BY <1>1, <2>2, <2>4, <3>1
        <3>2. CASE m # r
            <4>1. m \in live' <=> m \in live
                BY <1>1, <3>2
            <4>2. \A i : i \in 1 .. k <=> i = k \/ i \in 1 .. k - 1
                BY <2>1
            <4>3. m \in live <=> \A i \in 1 .. k : free_stack[i] # m
                BY <2>1 DEF StackAccounted, Accounted
            <4>4. (\A i \in 1 .. k : free_stack[i] # m) <=> \A i \in 1 .. k - 1 : free_stack[i] # m
                BY <2>1, <3>2, <4>2, Zenon
            <4>5. (\A i \in 1 .. k - 1 : free_stack[i] # m)
                    <=> \A i \in DOMAIN free_stack' : free_stack'[i] # m
                BY <2>2
            <4> QED
                BY <4>1, <4>3, <4>4, <4>5
        <3> QED
            BY <3>1, <3>2
    <2> QED
        BY <2>3, <2>5 DEF StackAccounted, Accounted
<1>3. CASE free_stack = <<>>
    BY <1>1, <1>3, ConstantsAssumption DEF StackAccounted, Accounted, AllocateNode, ConstantsAssumption
<1> QED
    BY <1>2, <1>3

\* free_node puts a pool node on top of the stack.
LEMMA FreeNodeAccounted ==
    ASSUME NEW stack \in Seq(PoolNodes), NEW nodes, Accounted(stack, nodes), NEW m \in nodes
    PROVE  FreeNode(stack, m) \in Seq(PoolNodes) /\ Accounted(FreeNode(stack, m), nodes \ {m})
<1>1. CASE m \in PoolNodes
    <2>1. PICK k : k = Len(stack)
        OBVIOUS
    <2>2. k \in Nat /\ DOMAIN stack = 1 .. k
        BY <2>1
    <2>3. PICK new : new = Append(stack, m)
        OBVIOUS
    <2>4. /\ new \in Seq(PoolNodes) /\ DOMAIN new = 1 .. k + 1 /\ new[k + 1] = m
          /\ \A i \in 1 .. k : new[i] = stack[i]
        BY <1>1, <2>1, <2>2, <2>3
    <2>5. \A i \in 1 .. k + 1 : i \in 1 .. k \/ i = k + 1
        BY <2>2
    <2>6. \A i \in 1 .. k : stack[i] # m /\ i \in 1 .. k + 1 /\ i # k + 1
        BY <1>1, <2>2 DEF Accounted
    <2>7. \A i, j \in 1 .. k + 1 : new[i] = new[j] => i = j
        BY <2>2, <2>4, <2>5, <2>6 DEF Accounted
    <2>8. \A n \in PoolNodes : n \in nodes \ {m} <=> \A i \in 1 .. k + 1 : new[i] # n
        BY <2>2, <2>4, <2>5, <2>6 DEF Accounted
    <2> QED
        BY <1>1, <2>3, <2>4, <2>7, <2>8 DEF FreeNode, Accounted
<1>2. CASE m \notin PoolNodes
    BY <1>2 DEF FreeNode, Accounted
<1> QED
    BY <1>1, <1>2

\* The nodes that coalesce frees go back on free_stack.
LEMMA CoalesceStack ==
    ASSUME FieldsOK, StackAccounted, ListTilesRange, NEW n \in live, ~is_free[n], Coalesce(n)
    PROVE  StackAccounted'
<1>1. PICK x, gone, stack :
        /\ x = next[n]
        /\ gone = ({n, x} \cap (FreeNodes \cup {n})) \ {IF prev[n] \in FreeNodes THEN prev[n] ELSE n}
        /\ stack = IF n \in gone THEN FreeNode(free_stack, n) ELSE free_stack
    OBVIOUS
<1>2. live' = live \ gone /\ free_stack' = IF x \in gone THEN FreeNode(stack, x) ELSE stack
    BY <1>1, Zenon DEF Coalesce
<1>3. gone \subseteq {n, x} /\ gone \subseteq live
    BY <1>1 DEF FreeNodes
<1>4. x # n
    <2>1. start[n] \in Nat /\ (x # Null => start[n] < start[x]) /\ n # Null
        BY <1>1, Neighbours, ConstantsAssumption DEF FieldsOK, ConstantsAssumption
    <2> QED
        BY <2>1
<1>5. stack \in Seq(PoolNodes) /\ Accounted(stack, live \ (gone \cap {n}))
    <2>1. CASE n \in gone
        <3>1. live \ (gone \cap {n}) = live \ {n}
            BY <2>1
        <3> QED
            BY <2>1, <3>1, <1>1, FreeNodeAccounted DEF StackAccounted, FieldsOK
    <2>2. CASE n \notin gone
        <3>1. live \ (gone \cap {n}) = live
            BY <2>2
        <3> QED
            BY <2>2, <3>1, <1>1 DEF StackAccounted, FieldsOK
    <2> QED
        BY <2>1, <2>2
<1>6. CASE x \in gone
    <2>1. x \in live \ (gone \cap {n}) /\ (live \ (gone \cap {n})) \ {x} = live \ gone
        BY <1>3, <1>4, <1>6
    <2> QED
        BY <1>2, <1>5, <1>6, <2>1, FreeNodeAccounted DEF StackAccounted
<1>7. CASE x \notin gone
    <2>1. live \ (gone \cap {n}) = live \ gone
        BY <1>3, <1>7
    <2> QED
        BY <1>2, <1>5, <1>7, <2>1 DEF StackAccounted
<1> QED
    BY <1>6, <1>7

\* A split of a node whose parts both keep its state moves no page.
LEMMA SplitUsed ==
    ASSUME FieldsOK, StackAccounted,
           NEW orig \in live, NEW left \in 1 .. npages[orig] - 1, NEW r \in Node,
           NEW f \in BOOLEAN, f = is_free[orig], Split(orig, left, r, f), head' = head
    PROVE  UsedPages' = UsedPages
<1>1. r \notin live /\ FieldsOK'
    BY SplitFields
<1> orig \in Node
    BY DEF FieldsOK
<1>2. live' = live \cup {r}
    BY DEF Split
<1>3. \A k \in live \ {orig} : start'[k] = start[k] /\ End(k)' = End(k) /\ is_free'[k] = is_free[k]
    BY <1>1 DEF Split, FieldsOK, End
<1>4. is_free'[orig] = is_free[orig] /\ is_free'[r] = is_free[orig]
    BY <1>1, ZenonT(60) DEF Split, FieldsOK
<1>5. start'[orig] = start[orig] /\ start'[r] = start[orig] + left
    BY <1>1 DEF Split, FieldsOK
<1>6. npages'[orig] = left /\ npages'[r] = npages[orig] - left
    BY <1>1 DEF Split, FieldsOK
<1>7. start[orig] \in Nat /\ npages[orig] \in Nat
    BY DEF FieldsOK
<1>8. End(orig)' = start[orig] + left /\ End(r)' = End(orig)
    BY <1>5, <1>6, <1>7 DEF End
<1>9. \A q \in Page : start[orig] <= q /\ q < End(orig)
        <=> \/ start'[orig] <= q /\ q < End(orig)'
            \/ start'[r] <= q /\ q < End(r)'
    BY <1>5, <1>7, <1>8 DEF Page, End
<1>10. \A q \in Page : (\E k \in live : ~is_free[k] /\ start[k] <= q /\ q < End(k))
                <=> \E k \in live' : ~is_free'[k] /\ start'[k] <= q /\ q < End(k)'
    BY <1>1, <1>2, <1>3, <1>4, <1>9, Zenon
<1> QED
    BY <1>10 DEF UsedPages

\* The left part of a free node is marked used.
LEMMA TrimUsed ==
    ASSUME FieldsOK, StackAccounted, ListTilesRange,
           NEW orig \in live, NEW left \in 1 .. npages[orig] - 1, is_free[orig],
           NEW r \in Node, Split(orig, left, r, FALSE), head' = head
    PROVE  UsedPages' = UsedPages \cup PagesOf(start[orig], left)
<1>1. r \notin live /\ FieldsOK'
    BY SplitFields
<1> orig \in Node
    BY DEF FieldsOK
<1>2. live' = live \cup {r}
    BY DEF Split
<1>3. \A k \in live \ {orig} : start'[k] = start[k] /\ End(k)' = End(k) /\ is_free'[k] = is_free[k]
    <2> TAKE k \in live \ {orig}
    <2>1. k \in Node /\ k # orig /\ k # r
        BY <1>1 DEF FieldsOK
    <2>2. start'[k] = start[k] /\ npages'[k] = npages[k] /\ is_free'[k] = is_free[k]
        BY <2>1 DEF Split, FieldsOK
    <2> QED
        BY ONLY <2>2 DEF End
<1>4. ~is_free'[orig] /\ is_free'[r]
    BY <1>1, ZenonT(60) DEF Split, FieldsOK
<1>5. start'[orig] = start[orig] /\ npages'[orig] = left
    BY <1>1 DEF Split, FieldsOK
<1>6. start[orig] \in Nat /\ End(orig) <= TotalPages /\ TotalPages \in Nat /\ npages[orig] \in Nat
    BY ConstantsAssumption DEF FieldsOK, ListTilesRange, NodesInRange, ConstantsAssumption
<1>7. PagesOf(start[orig], left) \subseteq Page
    BY <1>6 DEF PagesOf, Page, End
<1>8. \A q \in Page : q \in PagesOf(start[orig], left) <=> start'[orig] <= q /\ q < End(orig)'
    BY <1>5, <1>6 DEF PagesOf, Page, End
<1>9. \A q \in Page : (\E k \in live' : ~is_free'[k] /\ start'[k] <= q /\ q < End(k)')
            <=> \/ \E k \in live : ~is_free[k] /\ start[k] <= q /\ q < End(k)
                \/ q \in PagesOf(start[orig], left)
    BY <1>1, <1>2, <1>3, <1>4, <1>8, Zenon
<1> QED
    BY <1>7, <1>9 DEF UsedPages

\* The pages of two nodes are apart.
LEMMA NodesApart ==
    ASSUME FieldsOK, ListTilesRange, NEW k \in live, NEW n \in live, k # n,
           NEW q \in Page, start[k] <= q, q < End(k)
    PROVE  q \notin PagesOf(start[n], npages[n])
<1>1. End(k) <= start[n] \/ End(n) <= start[k]
    BY DEF ListTilesRange, NodesOrdered
<1>2. start[k] \in Nat /\ start[n] \in Nat /\ npages[k] \in Nat /\ npages[n] \in Nat
    BY DEF FieldsOK
<1> QED
    BY <1>1, <1>2 DEF PagesOf, Page, End

\* Merging a node that was used gives up its pages and no other.
LEMMA CoalesceUsed ==
    ASSUME FieldsOK, ListTilesRange, NEW n \in live, ~is_free[n], Coalesce(n), head' = head
    PROVE  UsedPages' = UsedPages \ PagesOf(start[n], npages[n])
<1>1. PICK s, last, gone, tail : CoalesceEffect(n, s, last, gone, tail)
    BY CoalesceHasEffect
<1>2. FieldsOK'
    BY CoalesceFields
<1>3. \A k : k \in live' /\ ~is_free'[k] <=> k \in live /\ ~is_free[k] /\ k # n
    BY <1>1, <1>2 DEF CoalesceEffect, FreeNodes
<1>4. \A k \in live : ~is_free[k] /\ k # n => start'[k] = start[k] /\ End(k)' = End(k)
    BY <1>1, <1>3 DEF CoalesceEffect, End
<1>5. start[n] \in Nat /\ npages[n] \in Nat
    BY DEF FieldsOK
<1>6. \A q \in Page : q \in PagesOf(start[n], npages[n]) <=> start[n] <= q /\ q < End(n)
    BY <1>5 DEF PagesOf, Page, End
<1>7. \A q \in Page : (\E k \in live' : ~is_free'[k] /\ start'[k] <= q /\ q < End(k)')
            <=> /\ \E k \in live : ~is_free[k] /\ start[k] <= q /\ q < End(k)
                /\ q \notin PagesOf(start[n], npages[n])
    BY <1>3, <1>4, <1>6, NodesApart
<1> QED
    BY <1>7 DEF UsedPages

\* A free node holds no used page.
LEMMA FreeNodeUnused ==
    ASSUME FieldsOK, ListTilesRange, NEW n \in live, is_free[n]
    PROVE  PagesOf(start[n], npages[n]) \cap UsedPages = {}
BY NodesApart DEF UsedPages

-----------------------------------------------------------------------------
(* The inductive invariant. *)

\* The variables of the running call.
CallOK ==
    /\ lock \in BOOLEAN /\ call \in {"idle", "alloc", "free"}
    /\ cur \in live \cup {Null}
    /\ page \in Nat /\ want \in Nat /\ align \in Nat \ {0}
    /\ call # "idle" => want \in 1 .. MaxRequest

HistoryOK ==
    /\ held \subseteq Page
    /\ intact \subseteq Page \X (1 .. MaxRequest)
    /\ starved \in BOOLEAN

IInv == FieldsOK /\ StackAccounted /\ ListTilesRange /\ UsedIsHeld /\ CallOK /\ HistoryOK

LEMMA InitIInv == Init => IInv
<1> SUFFICES ASSUME Init PROVE IInv
    OBVIOUS
<1>1. 0 \in PoolNodes /\ 0 \in Node /\ 0 # Null
    BY ConstantsAssumption DEF PoolNodes, Node, ConstantsAssumption
<1>2. FieldsOK
    BY <1>1, ConstantsAssumption DEF Init, FieldsOK, ConstantsAssumption, PoolNodes
<1>3. StackAccounted
    BY <1>1, ConstantsAssumption DEF Init, StackAccounted, Accounted, ConstantsAssumption, PoolNodes
<1>4. ListTilesRange
    BY <1>1, ConstantsAssumption
       DEF Init, ListTilesRange, NodesLinked, NodesInRange, NodesOrdered, End, ConstantsAssumption
<1>5. UsedIsHeld
    BY <1>1 DEF Init, UsedIsHeld, UsedPages
<1>6. CallOK /\ HistoryOK
    <2>1. lock \in BOOLEAN /\ starved \in BOOLEAN
        BY Zenon DEF Init
    <2> QED
        BY <1>1, <2>1 DEF Init, CallOK, HistoryOK
<1> QED
    BY <1>2, <1>3, <1>4, <1>5, <1>6 DEF IInv

\* A step that leaves the list alone keeps what is said of it.
LEMMA ListUnchanged ==
    ASSUME IInv, UNCHANGED <<live, fields, head, free_stack>>
    PROVE  FieldsOK' /\ StackAccounted' /\ ListTilesRange' /\ UsedPages' = held
<1> USE DEF fields
<1>1. FieldsOK'
    BY DEF IInv, FieldsOK
<1>2. StackAccounted'
    BY DEF IInv, StackAccounted, Accounted
<1>3. NodesLinked' /\ NodesInRange' /\ NodesOrdered'
    BY DEF IInv, ListTilesRange, NodesLinked, NodesInRange, NodesOrdered, End
<1>4. UsedPages' = held
    BY DEF IInv, UsedPages, UsedIsHeld, End
<1> QED
    BY <1>1, <1>2, <1>3, <1>4 DEF ListTilesRange

\* A split with both parts keeping the node's state.
LEMMA SplitKeeps ==
    ASSUME IInv, NEW orig \in live, NEW left \in 1 .. npages[orig] - 1, NEW r \in Node,
           NEW f \in BOOLEAN, f = is_free[orig], Split(orig, left, r, f), head' = head
    PROVE  /\ FieldsOK' /\ StackAccounted' /\ ListTilesRange' /\ UsedPages' = held
           /\ live' = live \cup {r}
<1>1. left \in Nat
    BY DEF IInv, FieldsOK
<1>2. FieldsOK' /\ ListTilesRange' /\ UsedPages' = UsedPages
    BY SplitFields, SplitTiles, SplitUsed DEF IInv
<1>3. StackAccounted'
    BY <1>1, SplitStack DEF IInv
<1> QED
    BY <1>2, <1>3 DEF IInv, UsedIsHeld, Split

\* The arguments of a call are forgotten when it returns.
LEMMA ReturnKeeps ==
    ASSUME Return PROVE CallOK'
<1>1. lock' \in BOOLEAN
    BY Zenon DEF Return
<1> QED
    BY <1>1 DEF Return, CallOK

\* The next node is on the list.
LEMMA NextOnList ==
    ASSUME IInv, cur # Null
    PROVE  cur \in live /\ next[cur] \in live \cup {Null}
<1>1. cur \in live
    BY DEF IInv, CallOK
<1> QED
    BY <1>1, Neighbours DEF IInv

\* Where a node that fits lies.
LEMMA FitBounds ==
    ASSUME IInv, cur # Null, call = "alloc", Fits(cur)
    PROVE  /\ cur \in live /\ is_free[cur] /\ start[cur] \in Nat /\ npages[cur] \in Nat
           /\ want \in 1 .. MaxRequest /\ want \in Nat
           /\ Padding(cur) \in Nat /\ Padding(cur) + want <= npages[cur]
           /\ End(cur) <= TotalPages
<1>1. cur \in live /\ want \in 1 .. MaxRequest /\ want \in Nat /\ align \in Nat \ {0}
    BY DEF IInv, CallOK
<1>2. start[cur] \in Nat /\ npages[cur] \in Nat /\ End(cur) <= TotalPages
    BY <1>1 DEF IInv, FieldsOK, ListTilesRange, NodesInRange
<1>3. AlignUp(start[cur], align) \in Nat /\ start[cur] <= AlignUp(start[cur], align)
    BY <1>1, <1>2, AlignUpBounds
<1>4. Padding(cur) \in Nat
    BY <1>2, <1>3 DEF Padding
<1> QED
    BY <1>1, <1>2, <1>4 DEF Fits

\* Where a node that holds the page to be freed lies.
LEMMA HoldBounds ==
    ASSUME IInv, cur # Null, call = "free", Holds(cur)
    PROVE  /\ cur \in live /\ ~is_free[cur] /\ start[cur] \in Nat /\ npages[cur] \in Nat
           /\ want \in 1 .. MaxRequest /\ want \in Nat /\ page \in Nat
           /\ start[cur] <= page /\ page < End(cur)
           /\ End(cur) = start[cur] + npages[cur]
BY DEF IInv, CallOK, FieldsOK, Holds, End

\* Marking a free node used, as an exact fit does.
LEMMA MarkUsed ==
    ASSUME FieldsOK, ListTilesRange, StackAccounted, NEW n \in live, is_free[n],
           is_free' = [is_free EXCEPT ![n] = FALSE],
           UNCHANGED <<live, start, npages, prev, next, head, free_stack>>
    PROVE  /\ FieldsOK' /\ ListTilesRange' /\ StackAccounted'
           /\ UsedPages' = UsedPages \cup PagesOf(start[n], npages[n])
<1>1. FieldsOK'
    BY DEF FieldsOK
<1>2. StackAccounted'
    BY DEF StackAccounted, Accounted
<1>3. NodesLinked' /\ NodesInRange' /\ NodesOrdered'
    BY DEF ListTilesRange, NodesLinked, NodesInRange, NodesOrdered, End
<1>4. /\ start[n] \in Nat /\ npages[n] \in Nat /\ End(n) <= TotalPages
      /\ TotalPages \in Nat /\ n \in Node
    BY ConstantsAssumption DEF FieldsOK, ListTilesRange, NodesInRange, ConstantsAssumption
<1>5. PagesOf(start[n], npages[n]) \subseteq Page
    BY <1>4 DEF PagesOf, Page, End
<1>6. \A q \in Page : q \in PagesOf(start[n], npages[n]) <=> start[n] <= q /\ q < End(n)
    BY <1>4 DEF PagesOf, Page, End
<1>7. ~is_free'[n] /\ \A k \in live \ {n} : is_free'[k] = is_free[k]
    BY <1>4, Zenon DEF FieldsOK
<1>8. \A k \in live : start'[k] = start[k] /\ End(k)' = End(k)
    BY DEF End
<1>9. \A q \in Page : (\E k \in live' : ~is_free'[k] /\ start'[k] <= q /\ q < End(k)')
            <=> \/ \E k \in live : ~is_free[k] /\ start[k] <= q /\ q < End(k)
                \/ q \in PagesOf(start[n], npages[n])
    BY <1>6, <1>7, <1>8, Zenon
<1>10. UsedPages' = UsedPages \cup PagesOf(start[n], npages[n])
    BY <1>5, <1>9 DEF UsedPages
<1> QED
    BY <1>1, <1>2, <1>3, <1>10 DEF ListTilesRange

\* What alloc_pages hands out lies in the range.
LEMMA HandOutKeeps ==
    ASSUME IInv, cur # Null, call = "alloc", Fits(cur), Padding(cur) = 0, HandOut(start[cur])
    PROVE  HistoryOK'
<1>1. start[cur] \in Page /\ PagesOf(start[cur], want) \subseteq Page /\ want \in 1 .. MaxRequest
    BY FitBounds, ConstantsAssumption DEF Page, PagesOf, End, ConstantsAssumption
<1>2. starved' \in BOOLEAN
    BY Zenon DEF IInv, HistoryOK, HandOut
<1> QED
    BY <1>1, <1>2 DEF IInv, HistoryOK, HandOut

\* Every step keeps the invariant.
LEMMA NextIInv ==
    ASSUME IInv, [Next]_vars
    PROVE  IInv'
<1>1. CASE UNCHANGED vars
    <2>1. FieldsOK' /\ StackAccounted' /\ ListTilesRange' /\ UsedPages' = held
        BY <1>1, ListUnchanged DEF vars
    <2>2. UsedIsHeld' /\ CallOK' /\ HistoryOK'
        BY <1>1, <2>1 DEF vars, args, history, IInv, UsedIsHeld, CallOK, HistoryOK
    <2> QED
        BY <2>1, <2>2 DEF IInv
<1>2. ASSUME NEW n \in 1 .. MaxRequest, NEW a \in Aligns, CallAlloc(n, a)
      PROVE  IInv'
    <2>1. FieldsOK' /\ StackAccounted' /\ ListTilesRange' /\ UsedPages' = held
        BY <1>2, ListUnchanged DEF CallAlloc
    <2>2. lock' \in BOOLEAN
        BY <1>2, Zenon DEF CallAlloc
    <2>3. CallOK'
        BY <1>2, <2>2, ConstantsAssumption
           DEF CallAlloc, IInv, CallOK, ListTilesRange, NodesLinked, ConstantsAssumption
    <2>4. UsedIsHeld' /\ HistoryOK'
        BY <1>2, <2>1 DEF CallAlloc, history, IInv, UsedIsHeld, HistoryOK
    <2> QED
        BY <2>1, <2>3, <2>4 DEF IInv
<1>3. ASSUME NEW n \in 1 .. MaxRequest, NEW p \in 0 .. TotalPages, CallFree(p, n)
      PROVE  IInv'
    <2>1. FieldsOK' /\ StackAccounted' /\ ListTilesRange' /\ UsedPages' = held
        BY <1>3, ListUnchanged DEF CallFree
    <2>2. lock' \in BOOLEAN
        BY <1>3, Zenon DEF CallFree
    <2>3. CallOK'
        BY <1>3, <2>2, ConstantsAssumption
           DEF CallFree, IInv, CallOK, ListTilesRange, NodesLinked, ConstantsAssumption
    <2>4. UsedIsHeld' /\ HistoryOK'
        BY <1>3, <2>1 DEF CallFree, history, IInv, UsedIsHeld, HistoryOK
    <2> QED
        BY <2>1, <2>3, <2>4 DEF IInv
<1>4. CASE AllocSkip
    <2>1. FieldsOK' /\ StackAccounted' /\ ListTilesRange' /\ UsedPages' = held
        BY <1>4, ListUnchanged DEF AllocSkip
    <2>2. CallOK'
        BY <1>4, NextOnList DEF AllocSkip, args, IInv, CallOK
    <2>3. UsedIsHeld' /\ HistoryOK'
        BY <1>4, <2>1 DEF AllocSkip, history, IInv, UsedIsHeld, HistoryOK
    <2> QED
        BY <2>1, <2>2, <2>3 DEF IInv
<1>5. CASE FreeSkip
    <2>1. FieldsOK' /\ StackAccounted' /\ ListTilesRange' /\ UsedPages' = held
        BY <1>5, ListUnchanged DEF FreeSkip
    <2>2. CallOK'
        BY <1>5, NextOnList DEF FreeSkip, args, IInv, CallOK
    <2>3. UsedIsHeld' /\ HistoryOK'
        BY <1>5, <2>1 DEF FreeSkip, history, IInv, UsedIsHeld, HistoryOK
    <2> QED
        BY <2>1, <2>2, <2>3 DEF IInv
<1>6. CASE AllocFail
    <2>1. FieldsOK' /\ StackAccounted' /\ ListTilesRange' /\ UsedPages' = held
        BY <1>6, ListUnchanged DEF AllocFail
    <2>2. CallOK'
        BY <1>6, ReturnKeeps DEF AllocFail
    <2>3. UsedIsHeld' /\ HistoryOK'
        BY <1>6, <2>1 DEF AllocFail, history, IInv, UsedIsHeld, HistoryOK
    <2> QED
        BY <2>1, <2>2, <2>3 DEF IInv
<1>7. CASE FreeReject
    <2>1. FieldsOK' /\ StackAccounted' /\ ListTilesRange' /\ UsedPages' = held
        BY <1>7, ListUnchanged DEF FreeReject
    <2>2. CallOK'
        BY <1>7, ReturnKeeps DEF FreeReject
    <2>3. UsedIsHeld' /\ HistoryOK'
        BY <1>7, <2>1 DEF FreeReject, history, IInv, UsedIsHeld, HistoryOK
    <2> QED
        BY <2>1, <2>2, <2>3 DEF IInv
<1>8. CASE FreeMiss
    <2>1. FieldsOK' /\ StackAccounted' /\ ListTilesRange' /\ UsedPages' = held
        BY <1>8, ListUnchanged DEF FreeMiss
    <2>2. CallOK'
        BY <1>8, ReturnKeeps DEF FreeMiss
    <2>3. UsedIsHeld' /\ HistoryOK'
        BY <1>8, <2>1 DEF FreeMiss, history, IInv, UsedIsHeld, HistoryOK
    <2> QED
        BY <2>1, <2>2, <2>3 DEF IInv
<1>9. CASE AllocSplitFails
    <2>1. FieldsOK' /\ StackAccounted' /\ ListTilesRange' /\ UsedPages' = held
        BY <1>9, ListUnchanged DEF AllocSplitFails
    <2>2. CallOK'
        BY <1>9, NextOnList DEF AllocSplitFails, args, IInv, CallOK
    <2>3. starved' \in BOOLEAN
        BY <1>9, Zenon DEF AllocSplitFails
    <2>4. UsedIsHeld' /\ HistoryOK'
        BY <1>9, <2>1, <2>3 DEF AllocSplitFails, IInv, UsedIsHeld, HistoryOK
    <2> QED
        BY <2>1, <2>2, <2>4 DEF IInv
<1>10. CASE FreeSplitFails
    <2>1. FieldsOK' /\ StackAccounted' /\ ListTilesRange' /\ UsedPages' = held
        BY <1>10, ListUnchanged DEF FreeSplitFails
    <2>2. CallOK'
        BY <1>10, ReturnKeeps DEF FreeSplitFails
    <2>3. starved' \in BOOLEAN
        BY <1>10, Zenon DEF FreeSplitFails
    <2>4. UsedIsHeld' /\ HistoryOK'
        BY <1>10, <2>1, <2>3 DEF FreeSplitFails, Untouched, IInv, UsedIsHeld, HistoryOK
    <2> QED
        BY <2>1, <2>2, <2>4 DEF IInv
<1>11. CASE AllocExact
    <2>1. PICK n : n = cur
        OBVIOUS
    <2>2. n \in live /\ is_free[n] /\ npages[n] = want
        BY <1>11, <2>1, FitBounds DEF AllocExact
    <2>3. /\ FieldsOK' /\ ListTilesRange' /\ StackAccounted'
          /\ UsedPages' = UsedPages \cup PagesOf(start[n], npages[n])
        BY <1>11, <2>1, <2>2, MarkUsed DEF AllocExact, IInv
    <2>4. UsedIsHeld'
        BY <1>11, <2>1, <2>2, <2>3 DEF AllocExact, HandOut, IInv, UsedIsHeld
    <2>5. CallOK' /\ HistoryOK'
        BY <1>11, ReturnKeeps, HandOutKeeps DEF AllocExact
    <2> QED
        BY <2>3, <2>4, <2>5 DEF IInv
<1>12. ASSUME NEW r \in Node, AllocTrim(r)
       PROVE  IInv'
    <2>1. PICK n, left : n = cur /\ left = want
        OBVIOUS
    <2>2. n \in live /\ is_free[n] /\ left \in 1 .. npages[n] - 1 /\ left \in Nat
        BY <1>12, <2>1, FitBounds DEF AllocTrim
    <2>3. Split(n, left, r, FALSE) /\ head' = head
        BY <1>12, <2>1 DEF AllocTrim
    <2>4. FieldsOK' /\ ListTilesRange' /\ StackAccounted'
        BY <2>2, <2>3, SplitFields, SplitTiles, SplitStack DEF IInv
    <2>5. UsedPages' = UsedPages \cup PagesOf(start[n], left)
        BY <2>2, <2>3, TrimUsed DEF IInv
    <2>6. UsedIsHeld'
        BY <1>12, <2>1, <2>5 DEF AllocTrim, HandOut, IInv, UsedIsHeld
    <2>7. CallOK' /\ HistoryOK'
        BY <1>12, ReturnKeeps, HandOutKeeps DEF AllocTrim
    <2> QED
        BY <2>4, <2>6, <2>7 DEF IInv
<1>13. ASSUME NEW r \in Node, AllocPad(r)
       PROVE  IInv'
    <2>1. PICK n, left : n = cur /\ left = Padding(cur)
        OBVIOUS
    <2>2. n \in live /\ is_free[n] /\ left \in 1 .. npages[n] - 1
        BY <1>13, <2>1, FitBounds DEF AllocPad
    <2>3. Split(n, left, r, TRUE) /\ head' = head
        BY <1>13, <2>1 DEF AllocPad
    <2>4. is_free[n] = TRUE
        BY <2>2 DEF IInv, FieldsOK
    <2>5. /\ FieldsOK' /\ StackAccounted' /\ ListTilesRange' /\ UsedPages' = held
          /\ live' = live \cup {r}
        BY <2>2, <2>3, <2>4, SplitKeeps
    <2>6. CallOK'
        BY <1>13, <2>5 DEF AllocPad, args, IInv, CallOK
    <2>7. UsedIsHeld' /\ HistoryOK'
        BY <1>13, <2>5 DEF AllocPad, history, IInv, UsedIsHeld, HistoryOK
    <2> QED
        BY <2>5, <2>6, <2>7 DEF IInv
<1>14. ASSUME NEW r \in Node, FreeSplitRight(r)
       PROVE  IInv'
    <2>1. PICK n, left : n = cur /\ left = npages[cur] - (End(cur) - (page + want))
        OBVIOUS
    <2>2. n \in live /\ ~is_free[n] /\ left \in 1 .. npages[n] - 1
        BY <1>14, <2>1, HoldBounds DEF FreeSplitRight
    <2>3. Split(n, left, r, FALSE) /\ head' = head
        BY <1>14, <2>1 DEF FreeSplitRight
    <2>4. is_free[n] = FALSE
        BY <2>2 DEF IInv, FieldsOK
    <2>5. /\ FieldsOK' /\ StackAccounted' /\ ListTilesRange' /\ UsedPages' = held
          /\ live' = live \cup {r}
        BY <2>2, <2>3, <2>4, SplitKeeps
    <2>6. CallOK'
        BY <1>14, <2>5 DEF FreeSplitRight, args, IInv, CallOK
    <2>7. UsedIsHeld' /\ HistoryOK'
        BY <1>14, <2>5 DEF FreeSplitRight, history, IInv, UsedIsHeld, HistoryOK
    <2> QED
        BY <2>5, <2>6, <2>7 DEF IInv
<1>15. ASSUME NEW r \in Node, FreeSplitLeft(r)
       PROVE  IInv'
    <2>1. PICK n, left : n = cur /\ left = page - start[cur]
        OBVIOUS
    <2>2. n \in live /\ ~is_free[n] /\ left \in 1 .. npages[n] - 1
        BY <1>15, <2>1, HoldBounds DEF FreeSplitLeft
    <2>3. Split(n, left, r, FALSE) /\ head' = head
        BY <1>15, <2>1 DEF FreeSplitLeft
    <2>4. is_free[n] = FALSE
        BY <2>2 DEF IInv, FieldsOK
    <2>5. /\ FieldsOK' /\ StackAccounted' /\ ListTilesRange' /\ UsedPages' = held
          /\ live' = live \cup {r}
        BY <2>2, <2>3, <2>4, SplitKeeps
    <2>6. CallOK'
        BY <1>15, <2>5 DEF FreeSplitLeft, args, IInv, CallOK
    <2>7. UsedIsHeld' /\ HistoryOK'
        BY <1>15, <2>5 DEF FreeSplitLeft, history, IInv, UsedIsHeld, HistoryOK
    <2> QED
        BY <2>5, <2>6, <2>7 DEF IInv
<1>16. CASE FreeExact
    <2>1. PICK n : n = cur
        OBVIOUS
    <2>2. n \in live /\ ~is_free[n] /\ start[n] = page /\ npages[n] = want
        BY <1>16, <2>1, HoldBounds DEF FreeExact
    <2>3. Coalesce(n) /\ head' = head
        BY <1>16, <2>1 DEF FreeExact
    <2>4. FieldsOK' /\ StackAccounted' /\ ListTilesRange'
        BY <2>2, <2>3, CoalesceFields, CoalesceStack, CoalesceTiles DEF IInv
    <2>5. UsedPages' = UsedPages \ PagesOf(page, want)
        BY <2>2, <2>3, CoalesceUsed DEF IInv
    <2>6. CallOK'
        BY <1>16, ReturnKeeps DEF FreeExact
    <2>7. UsedIsHeld' /\ HistoryOK'
        BY <1>16, <2>5 DEF FreeExact, Untouched, IInv, UsedIsHeld, HistoryOK
    <2> QED
        BY <2>4, <2>6, <2>7 DEF IInv
<1> QED
    BY <1>1, <1>2, <1>3, <1>4, <1>5, <1>6, <1>7, <1>8, <1>9, <1>10, <1>11, <1>12, <1>13, <1>14,
       <1>15, <1>16 DEF Next, Call, Step

\* An injective stack of pool nodes is no longer than the pool.
LEMMA StackFits ==
    ASSUME FieldsOK, StackAccounted
    PROVE  Len(free_stack) <= MaxNodes
<1>1. MaxNodes \in Nat \ {0} /\ PoolNodes = 0 .. MaxNodes - 1
    BY ConstantsAssumption DEF ConstantsAssumption, PoolNodes
<1>2. IsFiniteSet(PoolNodes) /\ Cardinality(PoolNodes) = MaxNodes
    BY <1>1, FS_Interval
<1>3. PICK k : k = Len(free_stack)
    OBVIOUS
<1>4. k \in Nat /\ DOMAIN free_stack = 1 .. k /\ free_stack \in [1 .. k -> PoolNodes]
    BY <1>3 DEF FieldsOK
<1>5. IsFiniteSet(1 .. k) /\ Cardinality(1 .. k) = k
    BY <1>4, FS_Interval
<1>6. SUFFICES ASSUME k > MaxNodes PROVE FALSE
    BY <1>1, <1>3, <1>4
<1>7. \E i, j \in 1 .. k : i # j /\ free_stack[i] = free_stack[j]
    BY <1>1, <1>2, <1>4, <1>5, <1>6, FS_PigeonHole
<1> QED
    BY <1>4, <1>7 DEF StackAccounted, Accounted

-----------------------------------------------------------------------------
(* Theorems *)

\* The invariant holds throughout every run.
THEOREM Invariance == Spec => []IInv
<1>1. Init => IInv
    BY InitIInv
<1>2. IInv /\ [Next]_vars => IInv'
    BY NextIInv
<1> QED
    BY <1>1, <1>2, PTL DEF Spec

\* Every variable keeps its type.
THEOREM TypeCorrect == Spec => []TypeOK
<1>1. IInv => TypeOK
    BY DEF IInv, FieldsOK, CallOK, HistoryOK, TypeOK
<1> QED
    BY <1>1, Invariance, PTL

\* The nodes on the list cut the managed range into consecutive pieces, at every step
\* of alloc_pages and free.
THEOREM ListAlwaysTilesRange == Spec => []ListTilesRange
<1>1. IInv => ListTilesRange
    BY DEF IInv
<1> QED
    BY <1>1, Invariance, PTL

\* Every pool node is on the list or once on free_stack_, which never overflows.
THEOREM PoolNodesAlwaysAccounted == Spec => []PoolNodesAccounted
<1>1. IInv => PoolNodesAccounted
    BY StackFits DEF IInv, StackAccounted, Accounted, PoolNodesAccounted
<1> QED
    BY <1>1, Invariance, PTL

\* The pages the list calls allocated are those the callers were told they hold.
THEOREM UsedIsAlwaysHeld == Spec => []UsedIsHeld
<1>1. IInv => UsedIsHeld
    BY DEF IInv
<1> QED
    BY <1>1, Invariance, PTL

\* The allocator implements PageReservation: no page is ever handed out twice.
THEOREM Implementation == Spec => ImplementsReservation
<1>1. Init => Reservation!Init
    BY DEF Init, Reservation!Init
<1>2. ASSUME IInv, [Next]_vars
      PROVE  [Reservation!Next]_held
    <2>1. ASSUME HandOut(start[cur]), call = "alloc", cur # Null, Fits(cur), Padding(cur) = 0
          PROVE  Reservation!Next
        <3>1. PICK s, n : s = start[cur] /\ n = want
            OBVIOUS
        <3>2. /\ s \in Nat /\ n \in Nat /\ n >= 1 /\ n <= npages[cur] /\ npages[cur] \in Nat
              /\ s + npages[cur] <= TotalPages /\ cur \in live /\ is_free[cur] /\ TotalPages \in Nat
            BY <1>2, <2>1, <3>1, FitBounds, ConstantsAssumption DEF End, ConstantsAssumption
        <3>3. s \in Reservation!Page /\ n \in 1 .. TotalPages - s
            BY <3>2 DEF Reservation!Page
        <3>4. PagesOf(s, n) \subseteq PagesOf(s, npages[cur])
            BY <3>2 DEF PagesOf
        <3>5. PagesOf(s, npages[cur]) \cap UsedPages = {}
            BY <1>2, <3>1, <3>2, FreeNodeUnused DEF IInv
        <3>6. PagesOf(s, n) \cap held = {}
            BY <1>2, <3>4, <3>5 DEF IInv, UsedIsHeld
        <3>7. Reservation!Reserve(s, n)
            BY <2>1, <3>1, <3>6 DEF HandOut, Reservation!Reserve, Reservation!PagesOf, PagesOf
        <3> QED
            BY <3>3, <3>7 DEF Reservation!Next
    <2>2. CASE FreeExact
        <3>1. PICK s, n : s = page /\ n = want
            OBVIOUS
        <3>2. /\ cur \in live /\ ~is_free[cur] /\ start[cur] = s /\ npages[cur] = n
              /\ s \in Nat /\ n \in Nat /\ n >= 1 /\ End(cur) = s + n
            BY <1>2, <2>2, <3>1, HoldBounds DEF FreeExact
        <3>3. End(cur) <= TotalPages /\ TotalPages \in Nat
            BY <1>2, <3>2, ConstantsAssumption
               DEF IInv, ListTilesRange, NodesInRange, ConstantsAssumption
        <3>4. s \in Reservation!Page /\ n \in 1 .. TotalPages - s
            BY <3>2, <3>3 DEF Reservation!Page
        <3>5. PagesOf(s, n) \subseteq Page
            BY <3>2, <3>3 DEF PagesOf, Page
        <3>6. \A q \in PagesOf(s, n) : start[cur] <= q /\ q < End(cur)
            BY <3>2 DEF PagesOf
        <3>7. PagesOf(s, n) \subseteq held
            BY <1>2, <3>2, <3>5, <3>6 DEF UsedPages, IInv, UsedIsHeld
        <3>8. Reservation!Release(s, n)
            BY <2>2, <3>1, <3>7 DEF FreeExact, Reservation!Release, Reservation!PagesOf, PagesOf
        <3> QED
            BY <3>4, <3>8 DEF Reservation!Next
    <2>3. CASE AllocExact
        BY <2>1, <2>3 DEF AllocExact
    <2>4. CASE \E r \in Node : AllocTrim(r)
        BY <2>1, <2>4 DEF AllocTrim
    <2>5. CASE held' = held
        BY <2>5
    <2>6. ASSUME ~FreeExact, ~AllocExact, ~(\E r \in Node : AllocTrim(r))
          PROVE  held' = held
        BY <1>2, <2>6
           DEF Next, Call, Step, vars, history, CallAlloc, CallFree, AllocSkip, AllocSplitFails,
               AllocFail, FreeSkip, FreeReject, FreeSplitFails, FreeMiss, AllocPad,
               FreeSplitRight, FreeSplitLeft
    <2> QED
        BY <2>2, <2>3, <2>4, <2>5, <2>6
<1>3. Reservation!Init /\ [][Reservation!Next]_held => Reservation!Spec
    BY DEF Reservation!Spec
<1> QED
    BY <1>1, <1>2, Invariance, PTL DEF Spec, ImplementsReservation, Reservation!Spec

-----------------------------------------------------------------------------
(* What the callers count on: CallersView. *)

\* Free neighbours are merged; only between the two splits of an allocation is there
\* a pair, and its second node is the one that is about to be handed out.
Merged ==
    ~starved => \A m \in live :
        is_free[m] /\ next[m] # Null /\ is_free[next[m]] =>
            call = "alloc" /\ next[m] = cur /\ Fits(cur) /\ Padding(cur) = 0

\* free has not passed the node that holds the page it looks for.
NothingPassed ==
    call = "free" => \A k \in live : Holds(k) => cur # Null /\ start[cur] <= start[k]

\* A running free is about to cut the range r.
Cutting(r) ==
    /\ call = "free" /\ cur # Null
    /\ Holds(cur) /\ page + want = End(cur)
    /\ PagesOf(r[1], r[2]) \cap PagesOf(page, want) # {}

\* The node k holds the range r and nothing else.
Stands(k, r) == ~is_free[k] /\ start[k] = r[1] /\ npages[k] = r[2]

IntactStand == \A r \in intact : Cutting(r) \/ \E k \in live : Stands(k, r)

CallersInv == Merged /\ FirstFit /\ NothingPassed /\ IntactStand

\* Rounding up gives the least multiple that is not smaller.
LEMMA AlignUpIsLeast ==
    ASSUME NEW v \in Nat, NEW d \in Nat \ {0}, NEW s \in Nat, s % d = 0, v <= s
    PROVE  AlignUp(v, d) % d = 0 /\ AlignUp(v, d) <= s
<1> DEFINE q == v \div d
           r == v % d
           p == s \div d
<1>1. q \in Nat /\ r \in 0 .. d - 1 /\ v = d * q + r
    BY Quotient
<1>2. p \in Nat /\ s = d * p
    <2>1. p \in Nat /\ s = d * p + (s % d)
        BY Quotient
    <2> QED
        BY <2>1
<1>3. AlignUp(v, d) = IF r = 0 THEN v ELSE v + d - r
    BY DEF AlignUp
<1> HIDE DEF q, r, p
<1>4. CASE r = 0
    BY <1>3, <1>4 DEF r
<1>5. CASE r # 0
    <2>1. AlignUp(v, d) = d * (q + 1) + 0
        BY <1>1, <1>3, <1>5
    <2>2. (d * (q + 1) + 0) % d = 0
        <3>1. q + 1 \in Nat /\ 0 \in 0 .. d - 1
            BY <1>1
        <3> QED
            BY <3>1, QuotientIsUnique
    <2>3. q < p
        <3>1. SUFFICES ASSUME p <= q PROVE FALSE
            BY <1>1, <1>2
        <3>2. d * p <= d * q
            BY <1>1, <1>2, <3>1
        <3> QED
            BY <1>1, <1>2, <1>5, <3>2
    <2>4. d * (q + 1) <= d * p
        BY <1>1, <1>2, <2>3
    <2>5. AlignUp(v, d) % d = 0
        BY <2>1, <2>2, Zenon
    <2>6. AlignUp(v, d) <= s
        BY <1>1, <1>2, <2>1, <2>4
    <2> QED
        BY <2>5, <2>6
<1> QED
    BY <1>4, <1>5

LEMMA AlignUpIsMultiple ==
    ASSUME NEW v \in Nat, NEW d \in Nat \ {0}
    PROVE  AlignUp(v, d) % d = 0
<1>1. d * v \in Nat /\ v <= d * v
    OBVIOUS
<1>2. (d * v + 0) % d = 0
    <2>1. 0 \in 0 .. d - 1
        OBVIOUS
    <2> QED
        BY <2>1, QuotientIsUnique
<1>3. (d * v) % d = 0
    BY <1>1, <1>2
<1> QED
    BY <1>1, <1>3, AlignUpIsLeast

\* The value of a range's node, and the numbers it is made of.
LEMMA NodeBounds ==
    ASSUME IInv, NEW n \in live
    PROVE  /\ n \in Node /\ start[n] \in Nat /\ npages[n] \in Nat /\ npages[n] > 0
           /\ End(n) = start[n] + npages[n] /\ End(n) <= TotalPages /\ TotalPages \in Nat
           /\ is_free[n] \in BOOLEAN
BY ConstantsAssumption DEF IInv, FieldsOK, ListTilesRange, NodesInRange, End, ConstantsAssumption

\* A page of a node is held by a caller exactly when the node is allocated.
LEMMA HeldByNode ==
    ASSUME IInv, NEW n \in live, NEW q \in Nat, start[n] <= q, q < End(n)
    PROVE  q \in held <=> ~is_free[n]
<1>1. q \in Page
    BY NodeBounds DEF Page
<1>2. q \in held <=> \E k \in live : ~is_free[k] /\ start[k] <= q /\ q < End(k)
    BY <1>1 DEF IInv, UsedIsHeld, UsedPages
<1>3. \A k \in live : start[k] <= q /\ q < End(k) => k = n
    <2>1. TAKE k \in live
    <2>2. start[k] \in Nat /\ npages[k] \in Nat /\ End(k) = start[k] + npages[k]
          /\ start[n] \in Nat /\ npages[n] \in Nat /\ End(n) = start[n] + npages[n]
        BY NodeBounds
    <2>3. k = n \/ End(k) <= start[n] \/ End(n) <= start[k]
        BY DEF IInv, ListTilesRange, NodesOrdered
    <2> QED
        BY <2>2, <2>3
<1> QED
    BY <1>2, <1>3

\* The cursor of alloc_pages leaves a node: a run that ends in it and is free would
\* start in it, or in a free node before it.
LEMMA RunPassed ==
    ASSUME IInv, Merged, FirstFit, call = "alloc", ~starved, cur # Null,
           NEW stop \in Nat, stop <= End(cur), ~Fits(cur) \/ Padding(cur) > 0,
           ~Fits(cur) \/ stop <= AlignUp(start[cur], align),
           NEW s \in 0 .. stop - want, s % align = 0
    PROVE  PagesOf(s, want) \cap held # {}
<1>1. SUFFICES ASSUME PagesOf(s, want) \cap held = {} PROVE FALSE
    OBVIOUS
<1>2. cur \in live /\ want \in Nat /\ want > 0 /\ align \in Nat \ {0}
    BY DEF IInv, CallOK
<1>3. /\ start[cur] \in Nat /\ npages[cur] \in Nat /\ npages[cur] > 0
      /\ End(cur) = start[cur] + npages[cur]
    BY <1>2, NodeBounds
<1>4. s \in Nat /\ s + want <= stop
    BY <1>2
<1>5. start[cur] < s + want
    <2>1. SUFFICES ASSUME s + want <= start[cur] PROVE FALSE
        BY <1>2, <1>3, <1>4
    <2>2. s \in 0 .. start[cur] - want
        BY <2>1, <1>2, <1>3, <1>4
    <2> QED
        BY <2>2, <1>1 DEF FirstFit
<1>6. \A q \in Nat : s <= q /\ q < s + want => q \notin held
    BY <1>1, <1>2, <1>4 DEF PagesOf
<1>7. is_free[cur]
    <2>1. s + want - 1 \in Nat /\ start[cur] <= s + want - 1 /\ s + want - 1 < End(cur)
          /\ s <= s + want - 1 /\ s + want - 1 < s + want
        BY <1>2, <1>3, <1>4, <1>5
    <2> QED
        BY <2>1, <1>2, <1>6, HeldByNode
<1>8. start[cur] <= s
    <2>1. SUFFICES ASSUME s < start[cur] PROVE FALSE
        BY <1>3, <1>4
    <2>2. cur # head
        BY <2>1, <1>4 DEF IInv, ListTilesRange, NodesLinked
    <2>3. PICK p \in live : p = prev[cur] /\ next[p] = cur /\ End(p) = start[cur]
                            /\ start[p] < start[cur]
        BY <1>2, <2>2, Neighbours DEF IInv
    <2>4. is_free[p]
        <3>1. start[p] \in Nat
            BY NodeBounds
        <3>2. start[cur] - 1 \in Nat /\ start[p] <= start[cur] - 1 /\ start[cur] - 1 < End(p)
              /\ s <= start[cur] - 1 /\ start[cur] - 1 < s + want
            BY <1>2, <1>3, <1>4, <1>5, <2>1, <2>3, <3>1
        <3> QED
            BY <3>2, <1>6, HeldByNode
    <2>5. Fits(cur) /\ Padding(cur) = 0
        BY <1>7, <2>3, <2>4 DEF Merged
    <2> QED
        BY <2>5
<1>9. AlignUp(start[cur], align) \in Nat /\ AlignUp(start[cur], align) <= s
      /\ start[cur] <= AlignUp(start[cur], align)
    BY <1>2, <1>3, <1>4, <1>8, AlignUpIsLeast, AlignUpBounds
<1>10. Fits(cur)
    <2>1. npages[cur] >= want /\ Padding(cur) + want <= npages[cur]
        BY <1>2, <1>3, <1>4, <1>8, <1>9 DEF Padding
    <2> QED
        BY <1>7, <2>1 DEF Fits
<1> QED
    BY <1>2, <1>4, <1>9, <1>10

\* What a split leaves behind, field by field.
SplitEffect(orig, left, r, f) ==
    /\ orig \in live /\ orig # r
    /\ r \notin live /\ r # Null /\ live' = live \cup {r}
    /\ is_free'[orig] = f /\ is_free'[r] = is_free[orig]
    /\ start'[orig] = start[orig] /\ start'[r] = start[orig] + left
    /\ npages'[orig] = left /\ npages'[r] = npages[orig] - left
    /\ End(orig)' = start[orig] + left /\ End(r)' = End(orig)
    /\ next'[orig] = r /\ next'[r] = next[orig]
    /\ \A k \in live \ {orig} :
        /\ is_free'[k] = is_free[k] /\ start'[k] = start[k] /\ npages'[k] = npages[k]
        /\ End(k)' = End(k) /\ next'[k] = next[k]

LEMMA SplitHasEffect ==
    ASSUME IInv, NEW orig \in live, NEW left \in 1 .. npages[orig] - 1, NEW r \in Node,
           NEW f \in BOOLEAN, Split(orig, left, r, f), head' = head
    PROVE  SplitEffect(orig, left, r, f)
<1>1. r \notin live /\ FieldsOK'
    BY SplitFields DEF IInv
<1>2. /\ orig \in Node /\ start[orig] \in Nat /\ npages[orig] \in Nat
      /\ End(orig) = start[orig] + npages[orig]
    BY NodeBounds
<1>3. live \subseteq Node /\ Null \notin Node
    BY ConstantsAssumption DEF IInv, FieldsOK, ConstantsAssumption
<1>4. live' = live \cup {r}
    BY DEF Split
<1>5. is_free'[orig] = f /\ is_free'[r] = is_free[orig]
    BY <1>1, <1>2, ZenonT(60) DEF Split, IInv, FieldsOK
<1>6. start'[orig] = start[orig] /\ start'[r] = start[orig] + left
    BY <1>1, <1>2 DEF Split, IInv, FieldsOK
<1>7. npages'[orig] = left /\ npages'[r] = npages[orig] - left
    BY <1>1, <1>2 DEF Split, IInv, FieldsOK
<1>8. next'[orig] = r /\ next'[r] = next[orig]
    BY <1>1, <1>2 DEF Split, IInv, FieldsOK
<1>9. End(orig)' = start[orig] + left /\ End(r)' = End(orig)
    BY <1>2, <1>6, <1>7 DEF End
<1>10. \A k \in live \ {orig} :
        /\ is_free'[k] = is_free[k] /\ start'[k] = start[k] /\ npages'[k] = npages[k]
        /\ End(k)' = End(k) /\ next'[k] = next[k]
    <2> TAKE k \in live \ {orig}
    <2>1. k \in Node /\ k # orig /\ k # r
        BY <1>1, <1>3
    <2>2. /\ is_free'[k] = is_free[k] /\ start'[k] = start[k] /\ npages'[k] = npages[k]
          /\ next'[k] = next[k]
        BY <2>1 DEF Split, IInv, FieldsOK
    <2> QED
        BY ONLY <2>2 DEF End
<1> QED
    BY <1>1, <1>3, <1>4, <1>5, <1>6, <1>7, <1>8, <1>9, <1>10 DEF SplitEffect

\* The four places that split.
LEMMA PadEffect ==
    ASSUME IInv, NEW r \in Node, AllocPad(r)
    PROVE  is_free[cur] /\ SplitEffect(cur, Padding(cur), r, TRUE)
<1>1. PICK n, left : n = cur /\ left = Padding(cur)
    OBVIOUS
<1>2. n \in live /\ is_free[n] /\ left \in 1 .. npages[n] - 1
    BY <1>1, FitBounds DEF AllocPad
<1>3. Split(n, left, r, TRUE) /\ head' = head
    BY <1>1 DEF AllocPad
<1> QED
    BY <1>1, <1>2, <1>3, SplitHasEffect

LEMMA TrimEffect ==
    ASSUME IInv, NEW r \in Node, AllocTrim(r)
    PROVE  is_free[cur] /\ SplitEffect(cur, want, r, FALSE)
<1>1. PICK n, left : n = cur /\ left = want
    OBVIOUS
<1>2. n \in live /\ is_free[n] /\ left \in 1 .. npages[n] - 1
    BY <1>1, FitBounds DEF AllocTrim
<1>3. Split(n, left, r, FALSE) /\ head' = head
    BY <1>1 DEF AllocTrim
<1> QED
    BY <1>1, <1>2, <1>3, SplitHasEffect

LEMMA RightEffect ==
    ASSUME IInv, NEW r \in Node, FreeSplitRight(r)
    PROVE  ~is_free[cur] /\ SplitEffect(cur, page + want - start[cur], r, FALSE)
<1>1. PICK n, left : n = cur /\ left = npages[cur] - (End(cur) - (page + want))
    OBVIOUS
<1>2. n \in live /\ ~is_free[n] /\ left \in 1 .. npages[n] - 1 /\ left = page + want - start[n]
    BY <1>1, HoldBounds DEF FreeSplitRight
<1>3. Split(n, left, r, FALSE) /\ head' = head
    BY <1>1 DEF FreeSplitRight
<1> QED
    BY <1>1, <1>2, <1>3, SplitHasEffect

LEMMA LeftEffect ==
    ASSUME IInv, NEW r \in Node, FreeSplitLeft(r)
    PROVE  ~is_free[cur] /\ SplitEffect(cur, page - start[cur], r, FALSE)
<1>1. PICK n, left : n = cur /\ left = page - start[cur]
    OBVIOUS
<1>2. n \in live /\ ~is_free[n] /\ left \in 1 .. npages[n] - 1
    BY <1>1, HoldBounds DEF FreeSplitLeft
<1>3. Split(n, left, r, FALSE) /\ head' = head
    BY <1>1 DEF FreeSplitLeft
<1> QED
    BY <1>1, <1>2, <1>3, SplitHasEffect

\* Between two calls, and wherever the cursor of alloc_pages is at no such node, no two
\* neighbours are free.
LEMMA NoPair ==
    ASSUME IInv, Merged, ~starved,
           call # "alloc" \/ cur = Null \/ ~Fits(cur) \/ Padding(cur) # 0,
           NEW m \in live, next[m] # Null
    PROVE  ~is_free[m] \/ ~is_free[next[m]]
BY DEF Merged

\* alloc_pages and free leave no two free neighbours apart.
LEMMA MergedKept ==
    ASSUME IInv, IInv', Merged, Next
    PROVE  Merged'
<1> SUFFICES ASSUME ~starved', NEW m \in live', is_free'[m], next'[m] # Null, is_free'[next'[m]]
             PROVE  call' = "alloc" /\ next'[m] = cur' /\ Fits(cur)' /\ Padding(cur)' = 0
    BY DEF Merged
<1>0. starved \in BOOLEAN /\ call \in {"idle", "alloc", "free"}
    BY DEF IInv, HistoryOK, CallOK
<1>1. CASE /\ UNCHANGED <<live, fields, head, free_stack, history>>
           /\ call # "alloc" \/ cur = Null \/ ~Fits(cur) \/ Padding(cur) # 0
    BY <1>1, NoPair DEF fields, history
<1>2. ASSUME NEW n \in 1 .. MaxRequest, NEW x \in Aligns, CallAlloc(n, x) PROVE FALSE
    BY <1>2, <1>1 DEF CallAlloc, NoPair, fields, history, Merged
<1>3. ASSUME NEW n \in 1 .. MaxRequest, NEW p \in 0 .. TotalPages, CallFree(p, n) PROVE FALSE
    BY <1>3, <1>1 DEF CallFree, fields, history, Merged
<1>4. CASE AllocSkip \/ AllocFail \/ FreeSkip \/ FreeReject \/ FreeMiss
    BY <1>1, <1>4 DEF AllocSkip, AllocFail, FreeSkip, FreeReject, FreeMiss
<1>5. CASE AllocSplitFails \/ FreeSplitFails
    BY <1>5 DEF AllocSplitFails, FreeSplitFails
<1>6. CASE AllocExact
    <2>1. cur \in live /\ cur \in Node
        BY <1>6, NodeBounds DEF AllocExact, IInv, CallOK
    <2>2. is_free' = [is_free EXCEPT ![cur] = FALSE] /\ next' = next /\ live' = live
          /\ starved' = starved
        BY <1>6 DEF AllocExact, HandOut
    <2>3. ~is_free'[cur] /\ \A k \in live \ {cur} : is_free'[k] = is_free[k]
        BY <2>1, <2>2, Zenon DEF IInv, FieldsOK
    <2>4. m # cur /\ next[m] # cur /\ next[m] \in live
        BY <2>2, <2>3, Neighbours DEF IInv
    <2>5. is_free[m] /\ is_free[next[m]]
        BY <2>2, <2>3, <2>4
    <2> QED
        BY <2>2, <2>4, <2>5 DEF Merged
<1>7. ASSUME NEW r \in Node, AllocTrim(r) PROVE FALSE
    <2>1. cur \in live /\ is_free[cur] /\ starved' = starved
        BY <1>7, FitBounds DEF AllocTrim, HandOut
    <2>2. /\ r \notin live /\ r # Null /\ live' = live \cup {r} /\ ~is_free'[cur]
          /\ next'[r] = next[cur]
          /\ \A k \in live \ {cur} : is_free'[k] = is_free[k] /\ next'[k] = next[k]
        BY <1>7, TrimEffect DEF SplitEffect
    <2>3. m # cur
        BY <2>2
    <2>4. next'[m] # cur /\ next'[m] \in live'
        BY <2>2 DEF IInv, ListTilesRange, NodesLinked
    <2>5. CASE m = r
        <3>1. next[cur] \in live /\ next[cur] # cur
            BY <2>1, <2>2, <2>4, <2>5, Neighbours DEF IInv
        <3>2. is_free[next[cur]]
            BY <2>2, <2>5, <3>1
        <3> QED
            BY <2>1, <3>1, <3>2, <2>2, <2>5 DEF Merged
    <2>6. CASE m # r
        <3>1. m \in live /\ next[m] # Null /\ next[m] \in live /\ next[m] # cur /\ is_free[m]
            BY <2>2, <2>3, <2>4, <2>6, Neighbours DEF IInv
        <3>2. is_free[next[m]]
            BY <2>2, <2>3, <3>1
        <3> QED
            BY <2>1, <3>1, <3>2 DEF Merged
    <2> QED
        BY <2>5, <2>6
<1>8. ASSUME NEW r \in Node, AllocPad(r)
      PROVE  call' = "alloc" /\ next'[m] = cur' /\ Fits(cur)' /\ Padding(cur)' = 0
    <2>1. /\ cur \in live /\ is_free[cur] /\ starved' = starved
          /\ Padding(cur) > 0 /\ want \in Nat
          /\ start[cur] \in Nat /\ npages[cur] \in Nat
          /\ Padding(cur) \in Nat /\ Padding(cur) + want <= npages[cur]
        BY <1>8, FitBounds DEF AllocPad, history
    <2>2. /\ r \notin live /\ r # Null /\ live' = live \cup {r}
          /\ is_free'[r] = is_free[cur] /\ start'[r] = start[cur] + Padding(cur)
          /\ npages'[r] = npages[cur] - Padding(cur)
          /\ next'[cur] = r /\ next'[r] = next[cur]
          /\ \A k \in live \ {cur} : is_free'[k] = is_free[k] /\ next'[k] = next[k]
        BY <1>8, PadEffect DEF SplitEffect
    <2>3. CASE m = cur
        <3>1. call' = "alloc" /\ next'[m] = r /\ cur' = r /\ want' = want /\ align' = align
            BY <1>8, <2>2, <2>3 DEF AllocPad, args
        <3>2. align \in Nat \ {0}
            BY DEF IInv, CallOK
        <3>3. start'[r] = AlignUp(start[cur], align)
            <4>1. AlignUp(start[cur], align) \in Nat
                BY <2>1, <3>2, AlignUpBounds
            <4>2. Padding(cur) = AlignUp(start[cur], align) - start[cur]
                BY DEF Padding
            <4> QED
                BY <2>1, <2>2, <4>1, <4>2
        <3>4. AlignUp(start[cur], align) % align = 0
            BY <2>1, <3>2, AlignUpIsMultiple
        <3>5. AlignUp(start'[r], align) = start'[r]
            BY <3>3, <3>4 DEF AlignUp
        <3>6. Padding(cur)' = 0
            BY <2>1, <2>2, <3>1, <3>5 DEF Padding
        <3>7. Fits(cur)'
            BY <2>1, <2>2, <3>1, <3>6 DEF Fits
        <3> QED
            BY <3>1, <3>6, <3>7
    <2>4. CASE m = r
        <3>1. next[cur] \in live /\ next[cur] # cur
            BY <2>1, <2>2, <2>4, Neighbours DEF IInv
        <3>2. is_free[next[cur]]
            BY <2>2, <2>4, <3>1
        <3> QED
            BY <2>1, <3>1, <3>2, <2>2, <2>4 DEF Merged
    <2>5. CASE m # r /\ m # cur
        <3>1. m \in live /\ next[m] # Null /\ next[m] \in live /\ is_free[m]
            BY <2>2, <2>5, Neighbours DEF IInv
        <3>2. is_free[next[m]]
            BY <2>1, <2>2, <2>5, <3>1
        <3> QED
            BY <2>1, <3>1, <3>2 DEF Merged
    <2> QED
        BY <2>3, <2>4, <2>5
<1>9. ASSUME NEW r, NEW left, call = "free", SplitEffect(cur, left, r, FALSE), ~is_free[cur],
             starved' = starved
      PROVE  FALSE
    <2>1. /\ r \notin live /\ r # Null /\ live' = live \cup {r} /\ cur \in live
          /\ ~is_free'[cur] /\ ~is_free'[r]
          /\ \A k \in live \ {cur} : is_free'[k] = is_free[k] /\ next'[k] = next[k]
        BY <1>9 DEF SplitEffect
    <2>2. m \in live /\ m # cur /\ next[m] # Null /\ next[m] \in live /\ is_free[m]
        BY <2>1, Neighbours DEF IInv
    <2>3. is_free[next[m]]
        BY <2>1, <2>2
    <2> QED
        BY <1>9, <2>2, <2>3 DEF Merged
<1>10. ASSUME NEW r \in Node, FreeSplitRight(r) PROVE FALSE
    BY <1>9, <1>10, RightEffect DEF FreeSplitRight, history
<1>11. ASSUME NEW r \in Node, FreeSplitLeft(r) PROVE FALSE
    BY <1>9, <1>11, LeftEffect DEF FreeSplitLeft, history
<1>12. CASE FreeExact
    <2>1. cur \in live /\ ~is_free[cur] /\ Coalesce(cur) /\ call = "free" /\ ~starved
        BY <1>12, HoldBounds DEF FreeExact
    <2>2. PICK s, last, gone, tail : CoalesceEffect(cur, s, last, gone, tail)
        BY <2>1, CoalesceHasEffect DEF IInv
    <2>3. \A k \in live : next[k] # Null => next[k] \in live /\ prev[next[k]] = k
                                            /\ (~is_free[k] \/ ~is_free[next[k]])
        BY <2>1, Neighbours, NoPair DEF IInv
    <2>4. next'[m] \in live'
        BY DEF IInv, ListTilesRange, NodesLinked
    <2>5. CASE m = s
        <3>1. next'[m] = tail /\ tail = next[last] /\ tail \in live' /\ tail # s /\ last \in live
            BY <2>2, <2>4, <2>5 DEF CoalesceEffect
        <3>2. is_free[tail] /\ tail \in live
            BY <2>2, <3>1 DEF CoalesceEffect
        <3>3. ~is_free[last]
            BY <2>3, <3>1, <3>2
        <3>4. last = cur /\ next[cur] \notin FreeNodes
            BY <2>2, <3>3 DEF CoalesceEffect, FreeNodes
        <3> QED
            BY <3>1, <3>2, <3>4 DEF FreeNodes
    <2>6. CASE m # s
        <3>1. m \in live /\ is_free[m] /\ next[m] # Null /\ next'[m] = next[m] /\ m # cur
            BY <2>1, <2>2, <2>6 DEF CoalesceEffect
        <3>2. next[m] \in live /\ prev[next[m]] = m /\ ~is_free[next[m]]
            BY <2>3, <3>1
        <3>3. next[m] = s
            BY <2>2, <2>4, <3>1, <3>2 DEF CoalesceEffect
        <3>4. s = cur /\ prev[cur] \notin FreeNodes
            BY <2>2, <3>2, <3>3 DEF CoalesceEffect, FreeNodes
        <3> QED
            BY <3>1, <3>2, <3>3, <3>4 DEF FreeNodes
    <2> QED
        BY <2>5, <2>6
<1> QED
    BY <1>2, <1>3, <1>4, <1>5, <1>6, <1>7, <1>8, <1>10, <1>11, <1>12 DEF Next, Call, Step

\* The cursor of alloc_pages passes no run of pages that would do.
LEMMA FirstFitKept ==
    ASSUME IInv, IInv', Merged, FirstFit, Next
    PROVE  FirstFit'
<1> SUFFICES ASSUME call' = "alloc", ~starved',
                    NEW s \in 0 .. (IF cur' = Null THEN TotalPages ELSE start'[cur']) - want',
                    s % align' = 0
             PROVE  PagesOf(s, want') \cap held' # {}
    BY DEF FirstFit, PagesOf
<1>1. ASSUME NEW n \in 1 .. MaxRequest, NEW x \in Aligns, CallAlloc(n, x) PROVE FALSE
    <2>1. cur' = head /\ start' = start /\ want' = n /\ n \in Nat /\ n > 0
        BY <1>1, ConstantsAssumption DEF CallAlloc, fields, ConstantsAssumption
    <2>2. start[head] = 0 /\ head # Null
        BY ConstantsAssumption DEF IInv, FieldsOK, ListTilesRange, NodesLinked, ConstantsAssumption
    <2> QED
        BY <2>1, <2>2
<1>2. CASE AllocSkip
    <2>1. /\ call = "alloc" /\ cur # Null /\ ~Fits(cur) /\ ~starved
          /\ cur' = next[cur] /\ want' = want /\ align' = align /\ held' = held /\ start' = start
        BY <1>2 DEF AllocSkip, fields, args, history
    <2>2. cur \in live
        BY <2>1 DEF IInv, CallOK
    <2>3. (IF cur' = Null THEN TotalPages ELSE start'[cur']) = End(cur)
        BY <2>1, <2>2, Neighbours DEF IInv
    <2>4. End(cur) \in Nat /\ s \in 0 .. End(cur) - want
        BY <2>1, <2>2, <2>3, NodeBounds
    <2> QED
        BY <2>1, <2>4, RunPassed
<1>3. ASSUME NEW r \in Node, AllocPad(r) PROVE PagesOf(s, want') \cap held' # {}
    <2>1. /\ call = "alloc" /\ cur # Null /\ ~starved /\ Padding(cur) > 0 /\ Fits(cur)
          /\ cur' = r /\ want' = want /\ align' = align /\ held' = held
        BY <1>3 DEF AllocPad, args, history
    <2>2. start'[r] = start[cur] + Padding(cur) /\ r # Null
        BY <1>3, PadEffect DEF SplitEffect
    <2>3. /\ start[cur] \in Nat /\ align \in Nat \ {0} /\ cur \in live /\ want \in Nat
          /\ npages[cur] \in Nat /\ End(cur) = start[cur] + npages[cur]
          /\ Padding(cur) \in Nat /\ Padding(cur) + want <= npages[cur]
        BY <2>1, FitBounds DEF IInv, CallOK, End
    <2>4. AlignUp(start[cur], align) \in Nat
        BY <2>3, AlignUpBounds
    <2>5. Padding(cur) = AlignUp(start[cur], align) - start[cur]
        BY DEF Padding
    <2>6. PICK stop : stop = AlignUp(start[cur], align)
        OBVIOUS
    <2>7. stop \in Nat /\ stop = start'[r] /\ stop <= End(cur) /\ s \in 0 .. stop - want
        BY <2>1, <2>2, <2>3, <2>4, <2>5, <2>6
    <2> QED
        BY <2>1, <2>6, <2>7, RunPassed
<1>4. CASE AllocSplitFails
    BY <1>4 DEF AllocSplitFails
<1>5. ASSUME call' = "idle" \/ call' = "free" PROVE FALSE
    BY <1>5
<1>6. CASE AllocExact \/ AllocFail \/ FreeReject \/ FreeSplitFails \/ FreeExact \/ FreeMiss
    BY <1>5, <1>6 DEF AllocExact, AllocFail, FreeReject, FreeSplitFails, FreeExact, FreeMiss, Return
<1>7. ASSUME NEW r \in Node, AllocTrim(r) \/ FreeSplitRight(r) \/ FreeSplitLeft(r) PROVE FALSE
    BY <1>7 DEF AllocTrim, FreeSplitRight, FreeSplitLeft, Return
<1>8. CASE FreeSkip
    BY <1>8 DEF FreeSkip
<1>9. ASSUME NEW n \in 1 .. MaxRequest, NEW p \in 0 .. TotalPages, CallFree(p, n) PROVE FALSE
    BY <1>9 DEF CallFree
<1> QED
    BY <1>1, <1>2, <1>3, <1>4, <1>6, <1>7, <1>8, <1>9 DEF Next, Call, Step

\* One node holds the page to be freed.
LEMMA HolderIsOne ==
    ASSUME IInv, page \in Nat, NEW k \in live, NEW n \in live, Holds(k), Holds(n)
    PROVE  k = n
<1>1. /\ start[k] \in Nat /\ npages[k] \in Nat /\ End(k) = start[k] + npages[k]
      /\ start[n] \in Nat /\ npages[n] \in Nat /\ End(n) = start[n] + npages[n]
    BY NodeBounds
<1>2. k = n \/ End(k) <= start[n] \/ End(n) <= start[k]
    BY DEF IInv, ListTilesRange, NodesOrdered
<1> QED
    BY <1>1, <1>2 DEF Holds

\* The cursor of free does not pass the node it looks for.
LEMMA NothingPassedKept ==
    ASSUME IInv, IInv', NothingPassed, Next
    PROVE  NothingPassed'
<1> SUFFICES ASSUME call' = "free", NEW k \in live', Holds(k)'
             PROVE  cur' # Null /\ start'[cur'] <= start'[k]
    BY DEF NothingPassed
<1>0. page \in Nat /\ want \in Nat
    BY DEF IInv, CallOK
<1>1. ASSUME NEW n \in 1 .. MaxRequest, NEW p \in 0 .. TotalPages, CallFree(p, n)
      PROVE  cur' # Null /\ start'[cur'] <= start'[k]
    <2>1. cur' = head /\ start' = start /\ live' = live
        BY <1>1 DEF CallFree, fields
    <2>2. start[head] = 0 /\ head # Null /\ start[k] \in Nat
        BY <2>1, NodeBounds, ConstantsAssumption
           DEF IInv, FieldsOK, ListTilesRange, NodesLinked, ConstantsAssumption
    <2> QED
        BY <2>1, <2>2
<1>2. CASE FreeSkip
    <2>1. /\ call = "free" /\ cur # Null /\ ~Holds(cur) /\ cur' = next[cur]
          /\ live' = live /\ start' = start
        BY <1>2 DEF FreeSkip, fields
    <2>2. Holds(k) /\ k \in live
        BY <1>2 DEF FreeSkip, fields, args, Holds, End
    <2>3. start[cur] <= start[k] /\ cur \in live /\ k # cur
        BY <2>1, <2>2 DEF NothingPassed, IInv, CallOK
    <2>4. /\ start[k] \in Nat /\ npages[k] \in Nat /\ End(k) = start[k] + npages[k]
          /\ npages[k] > 0 /\ End(k) <= TotalPages /\ TotalPages \in Nat
          /\ start[cur] \in Nat /\ npages[cur] \in Nat /\ End(cur) = start[cur] + npages[cur]
        BY <2>2, <2>3, NodeBounds
    <2>5. End(k) <= start[cur] \/ End(cur) <= start[k]
        BY <2>2, <2>3 DEF IInv, ListTilesRange, NodesOrdered
    <2>6. End(cur) <= start[k]
        BY <2>3, <2>4, <2>5
    <2>7. next[cur] # Null
        BY <2>3, <2>4, <2>6, Neighbours DEF IInv
    <2>8. start[next[cur]] = End(cur)
        BY <2>3, <2>7, Neighbours DEF IInv
    <2> QED
        BY <2>1, <2>6, <2>7, <2>8
<1>3. ASSUME NEW r, NEW left \in Nat, SplitEffect(cur, left, r, FALSE), Holds(cur), call = "free",
             page' = page
      PROVE  k = cur \/ k = r
    <2>1. SUFFICES ASSUME k # cur, k # r PROVE FALSE
        OBVIOUS
    <2>2. k \in live /\ Holds(k) /\ cur \in live
        BY <1>3, <2>1 DEF SplitEffect, Holds
    <2> QED
        BY <1>0, <1>3, <2>1, <2>2, HolderIsOne
<1>4. ASSUME NEW r \in Node, FreeSplitRight(r)
      PROVE  cur' # Null /\ start'[cur'] <= start'[k]
    <2>1. PICK left : left = page + want - start[cur]
        OBVIOUS
    <2>2. /\ call = "free" /\ cur # Null /\ Holds(cur) /\ page' = page /\ cur' = cur
          /\ start[cur] \in Nat /\ left \in Nat /\ want > 0
        BY <1>4, <2>1, HoldBounds DEF FreeSplitRight, args
    <2>3. SplitEffect(cur, left, r, FALSE)
        BY <1>4, <2>1, RightEffect
    <2>4. k = cur \/ k = r
        BY <1>3, <2>2, <2>3
    <2>5. k # r
        BY <1>0, <2>1, <2>2, <2>3 DEF SplitEffect, Holds
    <2> QED
        BY <2>2, <2>3, <2>4, <2>5 DEF SplitEffect
<1>5. ASSUME NEW r \in Node, FreeSplitLeft(r)
      PROVE  cur' # Null /\ start'[cur'] <= start'[k]
    <2>1. PICK left : left = page - start[cur]
        OBVIOUS
    <2>2. /\ call = "free" /\ cur # Null /\ Holds(cur) /\ page' = page /\ cur' = r
          /\ start[cur] \in Nat /\ left \in Nat
        BY <1>5, <2>1, HoldBounds DEF FreeSplitLeft, args
    <2>3. SplitEffect(cur, left, r, FALSE)
        BY <1>5, <2>1, LeftEffect
    <2>4. k = cur \/ k = r
        BY <1>3, <2>2, <2>3
    <2>5. k # cur
        BY <1>0, <2>1, <2>2, <2>3 DEF SplitEffect, Holds
    <2> QED
        BY <1>0, <2>1, <2>2, <2>3, <2>4, <2>5 DEF SplitEffect
<1>6. CASE AllocExact \/ AllocFail \/ FreeReject \/ FreeSplitFails \/ FreeExact \/ FreeMiss
    BY <1>6 DEF AllocExact, AllocFail, FreeReject, FreeSplitFails, FreeExact, FreeMiss, Return
<1>7. ASSUME NEW r \in Node, AllocTrim(r) \/ AllocPad(r) PROVE FALSE
    BY <1>7 DEF AllocTrim, AllocPad, Return
<1>8. CASE AllocSkip \/ AllocSplitFails
    BY <1>8 DEF AllocSkip, AllocSplitFails
<1>9. ASSUME NEW n \in 1 .. MaxRequest, NEW x \in Aligns, CallAlloc(n, x) PROVE FALSE
    BY <1>9 DEF CallAlloc
<1> QED
    BY <1>1, <1>2, <1>4, <1>5, <1>6, <1>7, <1>8, <1>9 DEF Next, Call, Step

\* A range that was handed out stands until a free cuts it.
LEMMA IntactKept ==
    ASSUME IInv, IInv', IntactStand, Next
    PROVE  IntactStand'
<1> SUFFICES ASSUME NEW g \in intact'
             PROVE  Cutting(g)' \/ \E k \in live' : Stands(k, g)'
    BY DEF IntactStand
<1>0. page \in Nat /\ want \in Nat
    BY DEF IInv, CallOK
<1>1. ASSUME g \in intact, ~Cutting(g), UNCHANGED <<live, fields, head, free_stack>>
      PROVE  \E k \in live' : Stands(k, g)'
    BY <1>1 DEF IntactStand, Stands, fields
<1>2. ASSUME NEW n \in 1 .. MaxRequest, NEW x \in Aligns, CallAlloc(n, x)
      PROVE  \E k \in live' : Stands(k, g)'
    BY <1>1, <1>2 DEF CallAlloc, Cutting, history
<1>3. ASSUME NEW n \in 1 .. MaxRequest, NEW p \in 0 .. TotalPages, CallFree(p, n)
      PROVE  \E k \in live' : Stands(k, g)'
    BY <1>1, <1>3 DEF CallFree, Cutting, history
<1>4. CASE AllocSkip \/ AllocFail \/ AllocSplitFails \/ FreeSkip \/ FreeMiss
    BY <1>1, <1>4 DEF AllocSkip, AllocFail, AllocSplitFails, FreeSkip, FreeMiss, Cutting, history
<1>5. CASE FreeReject
    <2>1. /\ page + want > End(cur) /\ cur \in live /\ g \in intact
          /\ UNCHANGED <<live, fields, head, free_stack>>
        BY <1>5 DEF FreeReject, IInv, CallOK, history
    <2>2. End(cur) \in Nat
        BY <2>1, NodeBounds
    <2>3. ~Cutting(g)
        BY <1>0, <2>1, <2>2 DEF Cutting
    <2> QED
        BY <1>1, <2>1, <2>3
<1>6. CASE FreeSplitFails
    BY <1>1, <1>6 DEF FreeSplitFails, Untouched, Cutting
<1>7. CASE AllocExact
    <2>1. /\ call = "alloc" /\ cur \in live /\ cur \in Node /\ is_free[cur] /\ npages[cur] = want
          /\ is_free' = [is_free EXCEPT ![cur] = FALSE]
          /\ live' = live /\ start' = start /\ npages' = npages
          /\ intact' = intact \cup {<<start[cur], want>>}
        BY <1>7, NodeBounds DEF AllocExact, HandOut, Fits, IInv, CallOK
    <2>2. ~is_free'[cur] /\ \A k \in live \ {cur} : is_free'[k] = is_free[k]
        BY <2>1, Zenon DEF IInv, FieldsOK
    <2>3. CASE g = <<start[cur], want>>
        BY <2>1, <2>2, <2>3 DEF Stands
    <2>4. CASE g \in intact
        <3>1. PICK k \in live : Stands(k, g)
            BY <2>1, <2>4 DEF IntactStand, Cutting
        <3> QED
            BY <2>1, <2>2, <3>1 DEF Stands
    <2> QED
        BY <2>1, <2>3, <2>4
<1>8. ASSUME NEW r \in Node, AllocTrim(r)
      PROVE  \E k \in live' : Stands(k, g)'
    <2>1. /\ call = "alloc" /\ is_free[cur] /\ SplitEffect(cur, want, r, FALSE)
          /\ intact' = intact \cup {<<start[cur], want>>}
        BY <1>8, TrimEffect DEF AllocTrim, HandOut
    <2>2. CASE g = <<start[cur], want>>
        BY <2>1, <2>2 DEF Stands, SplitEffect
    <2>3. CASE g \in intact
        <3>1. PICK k \in live : Stands(k, g)
            BY <2>1, <2>3 DEF IntactStand, Cutting
        <3> QED
            BY <2>1, <3>1 DEF Stands, SplitEffect
    <2> QED
        BY <2>1, <2>2, <2>3
<1>9. ASSUME NEW r \in Node, AllocPad(r)
      PROVE  \E k \in live' : Stands(k, g)'
    <2>1. call = "alloc" /\ is_free[cur] /\ SplitEffect(cur, Padding(cur), r, TRUE) /\ g \in intact
        BY <1>9, PadEffect DEF AllocPad, history
    <2>2. PICK k \in live : Stands(k, g)
        BY <2>1 DEF IntactStand, Cutting
    <2> QED
        BY <2>1, <2>2 DEF Stands, SplitEffect
<1>10. ASSUME cur \in live, Stands(cur, g), Holds(cur), want > 0
       PROVE  PagesOf(g[1], g[2]) \cap PagesOf(page, want) # {}
    <2>1. /\ start[cur] \in Nat /\ npages[cur] \in Nat /\ End(cur) = start[cur] + npages[cur]
        BY <1>10, NodeBounds
    <2>2. g[1] = start[cur] /\ g[2] = npages[cur] /\ start[cur] <= page /\ page < End(cur)
        BY <1>10 DEF Stands, Holds
    <2>3. page \in PagesOf(g[1], g[2]) /\ page \in PagesOf(page, want)
        BY <1>0, <1>10, <2>1, <2>2 DEF PagesOf
    <2> QED
        BY <2>3
<1>11. ASSUME NEW r \in Node, FreeSplitRight(r)
       PROVE  Cutting(g)' \/ \E k \in live' : Stands(k, g)'
    <2>1. PICK left : left = page + want - start[cur]
        OBVIOUS
    <2>2. /\ call = "free" /\ call' = call /\ cur # Null /\ Holds(cur) /\ page + want < End(cur)
          /\ page' = page /\ want' = want /\ cur' = cur /\ intact' = intact
          /\ cur \in live /\ start[cur] \in Nat /\ npages[cur] \in Nat /\ want > 0
          /\ start[cur] <= page /\ End(cur) = start[cur] + npages[cur]
        BY <1>11, HoldBounds DEF FreeSplitRight, args, history
    <2>3. SplitEffect(cur, left, r, FALSE)
        BY <1>11, <2>1, RightEffect
    <2>4. ~Cutting(g)
        BY <1>0, <2>2 DEF Cutting
    <2>5. PICK k \in live : Stands(k, g)
        BY <2>2, <2>4 DEF IntactStand
    <2>6. CASE k = cur
        <3>1. PagesOf(g[1], g[2]) \cap PagesOf(page, want) # {}
            BY <1>10, <2>2, <2>5, <2>6
        <3>2. ~is_free'[cur] /\ start'[cur] = start[cur] /\ End(cur)' = page + want
            BY <1>0, <2>1, <2>2, <2>3 DEF SplitEffect
        <3>3. start'[cur] <= page' /\ page' < page + want
            BY <1>0, <2>2, <3>2
        <3> QED
            BY <2>2, <3>1, <3>2, <3>3 DEF Cutting, Holds, PagesOf
    <2>7. CASE k # cur
        BY <2>3, <2>5, <2>7 DEF Stands, SplitEffect
    <2> QED
        BY <2>6, <2>7
<1>12. ASSUME NEW r \in Node, FreeSplitLeft(r)
       PROVE  Cutting(g)' \/ \E k \in live' : Stands(k, g)'
    <2>1. PICK left : left = page - start[cur]
        OBVIOUS
    <2>2. /\ call = "free" /\ call' = call /\ cur # Null /\ Holds(cur) /\ page + want = End(cur)
          /\ page' = page /\ want' = want /\ cur' = r /\ intact' = intact
          /\ cur \in live /\ start[cur] \in Nat /\ npages[cur] \in Nat /\ want > 0
        BY <1>12, HoldBounds DEF FreeSplitLeft, args, history
    <2>3. SplitEffect(cur, left, r, FALSE)
        BY <1>12, <2>1, LeftEffect
    <2>4. PagesOf(g[1], g[2]) \cap PagesOf(page, want) # {} => Cutting(g)'
        <3>1. /\ r # Null /\ ~is_free'[r] /\ start'[r] = page /\ End(r)' = page + want
            BY <1>0, <1>12, <2>1, <2>2, <2>3, LeftEffect DEF SplitEffect
        <3>2. start'[r] <= page' /\ page' < page + want
            BY <1>0, <2>2, <3>1
        <3> QED
            BY <2>2, <3>1, <3>2 DEF Cutting, Holds, PagesOf
    <2>5. CASE Cutting(g)
        BY <2>4, <2>5 DEF Cutting
    <2>6. CASE ~Cutting(g)
        <3>1. PICK k \in live : Stands(k, g)
            BY <2>2, <2>6 DEF IntactStand
        <3>2. CASE k = cur
            BY <1>10, <2>2, <2>4, <3>1, <3>2
        <3>3. CASE k # cur
            BY <2>3, <3>1, <3>3 DEF Stands, SplitEffect
        <3> QED
            BY <3>2, <3>3
    <2> QED
        BY <2>5, <2>6
<1>13. CASE FreeExact
    <2>1. /\ cur \in live /\ ~is_free[cur] /\ Coalesce(cur) /\ Holds(cur) /\ want > 0
          /\ intact' = Untouched
        BY <1>13, HoldBounds DEF FreeExact
    <2>2. PICK s, last, gone, tail : CoalesceEffect(cur, s, last, gone, tail)
        BY <2>1, CoalesceHasEffect DEF IInv
    <2>3. g \in intact /\ PagesOf(g[1], g[2]) \cap PagesOf(page, want) = {}
        BY <2>1 DEF Untouched
    <2>4. PICK k \in live : Stands(k, g)
        BY <2>3 DEF IntactStand, Cutting
    <2>5. k # cur
        BY <1>10, <2>1, <2>3, <2>4
    <2>6. k \in live' \ {s} /\ ~is_free[k]
        BY <2>2, <2>4, <2>5 DEF CoalesceEffect, FreeNodes, Stands
    <2> QED
        BY <2>2, <2>4, <2>6 DEF CoalesceEffect, Stands
<1> QED
    BY <1>2, <1>3, <1>4, <1>5, <1>6, <1>7, <1>8, <1>9, <1>11, <1>12, <1>13 DEF Next, Call, Step

LEMMA InitCallersInv == Init => CallersInv
<1> SUFFICES ASSUME Init PROVE CallersInv
    OBVIOUS
<1>1. next[0] = Null /\ live = {0} /\ call = "idle" /\ intact = {}
    BY ConstantsAssumption DEF Init, Node, PoolNodes, ConstantsAssumption
<1> QED
    BY <1>1 DEF CallersInv, Merged, FirstFit, NothingPassed, IntactStand

LEMMA NextCallersInv ==
    ASSUME IInv, IInv', CallersInv, [Next]_vars
    PROVE  CallersInv'
<1>1. CASE Next
    BY <1>1, MergedKept, FirstFitKept, NothingPassedKept, IntactKept DEF CallersInv
<1>2. CASE UNCHANGED vars
    <2> USE <1>2 DEF vars, fields, args, history
    <2>1. Merged'
        BY DEF CallersInv, Merged, Fits, Padding
    <2>2. FirstFit'
        BY DEF CallersInv, FirstFit
    <2>3. NothingPassed'
        BY DEF CallersInv, NothingPassed, Holds, End
    <2>4. IntactStand'
        BY DEF CallersInv, IntactStand, Cutting, Stands, Holds, End
    <2> QED
        BY <2>1, <2>2, <2>3, <2>4 DEF CallersInv
<1> QED
    BY <1>1, <1>2

\* A range that stands is not refused: free finds its node, which does not end short.
LEMMA IntactIsFreeable == IInv /\ NothingPassed /\ IntactStand => IntactRangeIsFreeable
<1> SUFFICES ASSUME IInv, NothingPassed, IntactStand, FreeRefuses, <<page, want>> \in intact
             PROVE  FALSE
    BY DEF IntactRangeIsFreeable
<1>1. page \in Nat /\ want \in Nat /\ want > 0 /\ call = "free"
    BY DEF IInv, CallOK, FreeRefuses
<1>2. cur # Null /\ Holds(cur) => page + want > End(cur) /\ End(cur) \in Nat
    BY NodeBounds DEF FreeRefuses, IInv, CallOK
<1>3. ~Cutting(<<page, want>>)
    BY <1>1, <1>2 DEF Cutting
<1>4. PICK k \in live : ~is_free[k] /\ start[k] = page /\ npages[k] = want
    BY <1>3 DEF IntactStand, Stands
<1>5. Holds(k) /\ End(k) = page + want
    BY <1>1, <1>4 DEF Holds, End
<1>6. cur # Null /\ cur \in live
    BY <1>1, <1>4, <1>5 DEF NothingPassed, IInv, CallOK
<1>7. Holds(cur)
    BY <1>6 DEF FreeRefuses
<1>8. cur = k
    BY <1>1, <1>4, <1>5, <1>6, <1>7, HolderIsOne
<1> QED
    BY <1>1, <1>2, <1>5, <1>6, <1>7, <1>8

\* The pages from the node n on that nobody holds.
RestFrom(n) == IF n = Null THEN {} ELSE {q \in Page : start[n] <= q} \ held

LEMMA RestIsFinite == IsFiniteSet(Page) /\ \A n : IsFiniteSet(RestFrom(n))
<1>1. IsFiniteSet(Page)
    BY FS_Interval, ConstantsAssumption DEF Page, ConstantsAssumption
<1> QED
    BY <1>1, FS_Subset, FS_EmptySet DEF RestFrom

\* One node's share of them.
LEMMA RestOfNode ==
    ASSUME IInv, NEW n \in live
    PROVE  Cardinality(RestFrom(n))
              = (IF is_free[n] THEN npages[n] ELSE 0) + Cardinality(RestFrom(next[n]))
<1>1. /\ n \in Node /\ start[n] \in Nat /\ npages[n] \in Nat /\ npages[n] > 0
      /\ End(n) = start[n] + npages[n] /\ End(n) <= TotalPages /\ TotalPages \in Nat
    BY NodeBounds
<1>2. n # Null
    BY <1>1, ConstantsAssumption DEF ConstantsAssumption
<1> DEFINE own == PagesOf(start[n], npages[n]) \ held
<1>3. RestFrom(next[n]) = {q \in Page : End(n) <= q} \ held
    <2>1. CASE next[n] = Null
        <3>1. End(n) = TotalPages
            BY <2>1, Neighbours DEF IInv
        <3>2. {q \in Page : End(n) <= q} = {}
            BY <1>1, <3>1 DEF Page
        <3> QED
            BY <2>1, <3>2 DEF RestFrom
    <2>2. CASE next[n] # Null
        BY <2>2, Neighbours DEF IInv, RestFrom
    <2> QED
        BY <2>1, <2>2
<1>4. RestFrom(n) = own \cup RestFrom(next[n]) /\ own \cap RestFrom(next[n]) = {}
    <2>1. PagesOf(start[n], npages[n]) \subseteq Page
        BY <1>1 DEF PagesOf, Page
    <2>2. \A q \in Page : start[n] <= q <=> q \in PagesOf(start[n], npages[n]) \/ End(n) <= q
        BY <1>1 DEF PagesOf, Page
    <2>3. \A q \in Page : ~ (q \in PagesOf(start[n], npages[n]) /\ End(n) <= q)
        BY <1>1 DEF PagesOf, Page
    <2> QED
        BY <1>2, <1>3, <2>1, <2>2, <2>3 DEF RestFrom
<1>5. \A q \in PagesOf(start[n], npages[n]) : q \in held <=> ~is_free[n]
    BY <1>1, HeldByNode DEF PagesOf
<1>6. IsFiniteSet(own) /\ Cardinality(own) = IF is_free[n] THEN npages[n] ELSE 0
    <2>1. CASE is_free[n]
        <3>1. own = start[n] .. start[n] + npages[n] - 1
            BY <1>5, <2>1 DEF PagesOf
        <3>2. PICK lo, hi : lo = start[n] /\ hi = start[n] + npages[n] - 1
            OBVIOUS
        <3>3. lo \in Int /\ hi \in Int /\ ~ (lo > hi) /\ hi - lo + 1 = npages[n]
            BY <1>1, <3>2
        <3>4. IsFiniteSet(lo .. hi) /\ Cardinality(lo .. hi) = npages[n]
            BY <3>3, FS_Interval
        <3> QED
            BY <2>1, <3>1, <3>2, <3>4
    <2>2. CASE ~is_free[n]
        <3>1. own = {}
            BY <1>5, <2>2
        <3> QED
            BY <2>2, <3>1, FS_EmptySet
    <2> QED
        BY <2>1, <2>2
<1> HIDE DEF own
<1>7. Cardinality(RestFrom(n)) = Cardinality(own) + Cardinality(RestFrom(next[n])) - 0
    BY <1>4, <1>6, RestIsFinite, FS_Union, FS_EmptySet
<1>8. Cardinality(own) \in Nat /\ Cardinality(RestFrom(next[n])) \in Nat
    BY <1>6, RestIsFinite, FS_CardinalityType
<1> QED
    BY <1>6, <1>7, <1>8

\* The sum over the list that free_pages_total is, as a function on the nodes.
IsSum(f) ==
    f = [n \in live \cup {Null} |->
            IF n = Null THEN 0 ELSE (IF is_free[n] THEN npages[n] ELSE 0) + f[next[n]]]

\* There is one such function, and it counts.
LEMMA SumCounts ==
    ASSUME IInv, NEW f, IsSum(f)
    PROVE  \A n \in live : f[n] = Cardinality(RestFrom(n))
<1> DEFINE S == {d \in Nat : \A n \in live : TotalPages - start[n] <= d
                                => f[n] = Cardinality(RestFrom(n))}
<1>1. 0 \in S
    BY NodeBounds
<1>2. ASSUME NEW d \in Nat, d \in S PROVE d + 1 \in S
    <2>1. SUFFICES ASSUME NEW n \in live, TotalPages - start[n] <= d + 1
                   PROVE  f[n] = Cardinality(RestFrom(n))
        OBVIOUS
    <2>2. n # Null /\ start[n] \in Nat /\ TotalPages \in Nat
        BY NodeBounds, ConstantsAssumption DEF ConstantsAssumption
    <2>3. f[n] = (IF is_free[n] THEN npages[n] ELSE 0) + f[next[n]]
        BY <2>2 DEF IsSum
    <2>4. f[next[n]] = Cardinality(RestFrom(next[n]))
        <3>1. CASE next[n] = Null
            <4>1. f[Null] = 0 /\ RestFrom(Null) = {}
                BY DEF IsSum, RestFrom
            <4> QED
                BY <3>1, <4>1, FS_EmptySet
        <3>2. CASE next[n] # Null
            <4>1. next[n] \in live /\ start[n] < start[next[n]]
                BY <3>2, Neighbours DEF IInv
            <4>2. start[next[n]] \in Nat
                BY <4>1, NodeBounds
            <4>3. TotalPages - start[next[n]] <= d
                BY <2>1, <2>2, <4>1, <4>2
            <4> QED
                BY <1>2, <4>1, <4>3
        <3> QED
            BY <3>1, <3>2
    <2> QED
        BY <2>3, <2>4, RestOfNode
<1>3. \A d \in Nat : d \in S
    <2> HIDE DEF S
    <2> QED
        BY <1>1, <1>2, NumberInduction
<1> TAKE n \in live
<1>4. TotalPages - start[n] \in Nat
    BY NodeBounds
<1> QED
    BY <1>3, <1>4

LEMMA SumExists == IInv => \E f : IsSum(f)
<1> SUFFICES ASSUME IInv PROVE \E f : IsSum(f)
    OBVIOUS
<1> DEFINE f == [n \in live \cup {Null} |-> Cardinality(RestFrom(n))]
<1>1. \A n \in live : n # Null /\ next[n] \in live \cup {Null}
    BY Neighbours, NodeBounds, ConstantsAssumption DEF IInv, ConstantsAssumption
<1>2. Cardinality(RestFrom(Null)) = 0
    BY FS_EmptySet DEF RestFrom
<1>3. \A n \in live : Cardinality(RestFrom(n)) = (IF is_free[n] THEN npages[n] ELSE 0) + f[next[n]]
    BY <1>1, RestOfNode
<1>4. IsSum(f)
    BY <1>1, <1>2, <1>3, Zenon DEF IsSum
<1> QED
    BY <1>4

\* free_pages_total counts the pages that nobody holds.
LEMMA TotalIsRest == IInv => FreeTotalIsRest
<1> SUFFICES ASSUME IInv PROVE FreeTotalIsRest
    OBVIOUS
<1>1. PICK f : f = CHOOSE g : IsSum(g)
    OBVIOUS
<1>2. IsSum(f)
    BY <1>1, SumExists
<1>3. free_pages_total = f[head]
    BY <1>1, Zenon DEF free_pages_total, IsSum
<1>4. head \in live /\ head # Null /\ start[head] = 0
    BY ConstantsAssumption DEF IInv, FieldsOK, ListTilesRange, NodesLinked, ConstantsAssumption
<1>5. RestFrom(head) = Page \ held
    BY <1>4 DEF RestFrom, Page
<1>6. Cardinality(Page) = TotalPages /\ TotalPages \in Nat
    BY FS_Interval, ConstantsAssumption DEF Page, ConstantsAssumption
<1>7. held \subseteq Page
    BY DEF IInv, HistoryOK
<1>8. IsFiniteSet(held) /\ Cardinality(Page \ held) = Cardinality(Page) - Cardinality(Page \cap held)
    BY <1>7, RestIsFinite, FS_Subset, FS_Difference
<1>9. Page \cap held = held
    BY <1>7
<1> QED
    BY <1>2, <1>3, <1>4, <1>5, <1>6, <1>8, <1>9, SumCounts DEF FreeTotalIsRest

\* The callers' view: the free pages counted are the rest, alloc_pages passes no run that
\* would do, and a range that was handed out can be given back in one call.
THEOREM CallersAlwaysServed == Spec => []CallersView
<1>1. Init => CallersInv
    BY InitCallersInv
<1>2. IInv /\ IInv' /\ CallersInv /\ [Next]_vars => CallersInv'
    BY NextCallersInv
<1>3. IInv /\ CallersInv => CallersView
    BY TotalIsRest, IntactIsFreeable DEF CallersInv, CallersView
<1> QED
    BY <1>1, <1>2, <1>3, Invariance, PTL DEF Spec

==============================================================================
