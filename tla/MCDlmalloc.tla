----------------------------- MODULE MCDlmalloc ------------------------------
(* A small heap for TLC. *)
EXTENDS Dlmalloc

\* Two large bins.
MClargebin_index(n) == IF n < 6 THEN 4 ELSE 5

MCOptions == {[param |-> "M_MXFAST", value |-> 2], [param |-> "M_MXFAST", value |-> 6],
              [param |-> "M_MMAP_MAX", value |-> 1], [param |-> "M_TRIM_THRESHOLD", value |-> 8],
              [param |-> "M_TOP_PAD", value |-> 0], [param |-> "M_MMAP_THRESHOLD", value |-> 11]}
==============================================================================
