------------------------------ MODULE MCPageMap ------------------------------
(* A small page map for TLC. *)
EXTENDS PageMap

CONSTANTS f1, f2, f3, f4, f5

MCFrame == {f1, f2, f3, f4, f5}
MCVirts == {1, 2, 5}
MCRequests == {{"Read", "Write"}, {"Read", "Execute", "User"}}
==============================================================================
