------------------------------ MODULE MCLifecycle ------------------------------
(* Instances of Lifecycle for TLC.                                         *)
EXTENDS Lifecycle

CONSTANTS g1, g2

TwoGuests == {g1, g2}

=============================================================================
