---------------------------- MODULE MCKernelHeap -----------------------------
(* A small kernel heap for TLC. *)
EXTENDS KernelHeap

\* Fast, large, page-sized and absurd: 32 granules are more than the range and so
\* many that the sum in sbrk wraps; 50 are negative as a long.
MCRequests == {1, 2, 3, 4, 32, 50}
==============================================================================
