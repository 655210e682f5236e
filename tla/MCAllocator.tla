----------------------------- MODULE MCAllocator -----------------------------
(* Instance of Allocator for TLC; the sizes are in Allocator_heap.cfg.     *)
EXTENDS Allocator, TLC

=============================================================================
