----------------------------- MODULE BlockStore ------------------------------
(***************************************************************************)
(* What malloc, free, realloc and their relatives promise: blocks that do  *)
(* not overlap, and of which a call changes none but the one it is given.  *)
(***************************************************************************)
EXTENDS Integers

CONSTANT Memory         \* the granules that blocks may cover

VARIABLE blocks         \* the size of each block, by its start

Covers(p) == p .. p + blocks[p] - 1

Apart ==
    \A p \in DOMAIN blocks :
        /\ Covers(p) \subseteq Memory
        /\ \A q \in DOMAIN blocks : p # q => Covers(p) \cap Covers(q) = {}

Init == blocks = <<>>

\* The blocks of B are as they were.
Kept(B) == \A p \in B : p \in DOMAIN blocks' /\ blocks'[p] = blocks[p]

\* One block, or with the independent allocations several, of whatever size.
Allocate == Kept(DOMAIN blocks) /\ Apart'

Release == \E p \in DOMAIN blocks : blocks' = [q \in DOMAIN blocks \ {p} |-> blocks[q]]

\* realloc: in place or elsewhere.
Resize ==
    \E p \in DOMAIN blocks, q \in DOMAIN blocks' :
        /\ Kept(DOMAIN blocks \ {p})
        /\ DOMAIN blocks' = (DOMAIN blocks \ {p}) \cup {q}
        /\ Apart'

Next == Allocate \/ Release \/ Resize

Spec == Init /\ [][Next]_blocks

==============================================================================
