-------------------------------- MODULE Words ---------------------------------
(* The numbers that n bits hold are those below TwoTo[n]. *)
EXTENDS Integers

TwoTo[n \in Nat] == IF n = 0 THEN 1 ELSE 2 * TwoTo[n - 1]

==============================================================================
