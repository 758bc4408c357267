---------------------------- MODULE MCContainers -----------------------------
(* Two vectors of up to three elements for TLC. *)
EXTENDS Containers, TLC

\* Nothing depends on the last call but what the next one is compared with.
MCView == <<heap, vec, halted, misused>>

MCSymmetry == Permutations(Vectors)
==============================================================================
