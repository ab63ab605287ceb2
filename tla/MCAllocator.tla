----------------------------- MODULE MCAllocator -----------------------------
(* Instances of Allocator for TLC. *)
EXTENDS AllocatorProps
=============================================================================
