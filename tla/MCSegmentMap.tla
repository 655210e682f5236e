----------------------------- MODULE MCSegmentMap -----------------------------
(* Instances of SegmentMap for TLC.                                        *)
EXTENDS SegmentMap

CONSTANTS p1, p2, p3

One == {p1}
Last == {p3}
Three == {p1, p2, p3}
HostTwice == [p \in Procs |-> IF p = p1 THEN 2 ELSE 1]

=============================================================================
