------------------------------ MODULE MCMonitor ------------------------------
(* Instances of Monitor for TLC.                                           *)
EXTENDS Monitor

CONSTANTS p1, p2, p3

AllProcs == {p1, p2, p3}

=============================================================================
