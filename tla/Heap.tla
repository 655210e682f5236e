--------------------------------- MODULE Heap ---------------------------------
(***************************************************************************)
(* What the shared allocator promises its callers (balloc and bfree of     *)
(* shared_allocator.c): every address handed out owns the bytes asked for, *)
(* no two live allocations overlap, and growing the segment moves nothing. *)
(***************************************************************************)
EXTENDS Integers

CONSTANT Requests    (* the sizes callers ask for                           *)

VARIABLES
  owned,   (* the live allocations: owned[a] is the size asked for at a     *)
  limit    (* the end of the segment                                        *)

(* The n bytes at a are in the segment and belong to nobody.               *)
Available(a, n, end) ==
  /\ a > 0
  /\ a + n <= end
  /\ \A o \in DOMAIN owned : a + n <= o \/ o + owned[o] <= a

Init == owned = <<>> /\ limit \in Nat

Alloc(n) ==
  \E a \in 1..limit :
    /\ Available(a, n, limit)
    /\ limit' = limit
    /\ owned' = [o \in DOMAIN owned \cup {a} |-> IF o = a THEN n ELSE owned[o]]

Free(a) ==
  /\ a \in DOMAIN owned
  /\ owned' = [o \in DOMAIN owned \ {a} |-> owned[o]]
  /\ limit' = limit

(* The segment grows, never shrinks, and nobody gains or loses by it.      *)
Grow ==
  /\ limit' \in Nat
  /\ limit' > limit
  /\ owned' = owned

Next ==
  \/ \E n \in Requests : Alloc(n)
  \/ \E a \in DOMAIN owned : Free(a)
  \/ Grow

Spec == Init /\ [][Next]_<<owned, limit>>

=============================================================================
