------------------------- MODULE MCFreeListAllocator -------------------------
(* Small memory maps for TLC. *)
EXTENDS FreeListAllocator

\* Two adjacent usable entries from physical address 0, a hole, and a third one.
AdjacentEntries ==
    << [base |-> 0, length |-> 3, usable |-> TRUE],
       [base |-> 3, length |-> 2, usable |-> TRUE],
       [base |-> 5, length |-> 1, usable |-> FALSE],
       [base |-> 6, length |-> 2, usable |-> TRUE] >>

\* A usable entry at physical address 0.
LowEntries ==
    << [base |-> 0, length |-> 4, usable |-> TRUE],
       [base |-> 4, length |-> 2, usable |-> FALSE],
       [base |-> 6, length |-> 5, usable |-> TRUE] >>
==============================================================================
