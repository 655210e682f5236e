------------------------------- MODULE MCBucket -------------------------------
(* Instances of Bucket for TLC.                                            *)
EXTENDS Bucket, TLC

CONSTANTS p1, p2, p3, p4, t1, t2

Two == {p1, p2}
Three == {p1, p2, p3}
Four == {p1, p2, p3, p4}
NoProcs == {}

TwoTuples == {t1, t2}

(* Patterns: one that matches only t1, one only t2, one both.              *)
AllPatterns == {"eq1", "eq2", "any"}
Matches == [pat \in AllPatterns |->
              CASE pat = "eq1" -> {t1} [] pat = "eq2" -> {t2} [] OTHER -> {t1, t2}]

(* p1 pushes and peeks, the others peek.                                   *)
HostPushes == [p \in Procs |-> IF p = p1 THEN {t1, t2} ELSE {}]
AllPeek == [p \in Procs |-> IF p = p1 THEN {"eq1"} ELSE {"eq2", "any"}]
HostTwoGuestsOne == [p \in Procs |-> IF p = p1 THEN 2 ELSE 1]
OneEach == [p \in Procs |-> 1]

(* testSynchronization.c, the bucket of one tuple length: two factories    *)
(* push a tuple each, two consumers peek the tuple of the first factory.   *)
FactoriesPush == [p \in Procs |-> IF p = p1 THEN {t1} ELSE IF p = p4 THEN {t2} ELSE {}]
ConsumersPeek == [p \in Procs |-> IF p \in {p1, p4} THEN {} ELSE {"eq1"}]

(* Two factories push, nobody peeks.                                       *)
AllPush == [p \in Procs |-> {t1, t2}]
NonePeek == [p \in Procs |-> {}]

=============================================================================
