-------------------------- MODULE MCVAddrAllocator ---------------------------
(* VAddrAllocator for TLC; the instance is in the cfg. *)
EXTENDS VAddrAllocator
==============================================================================
