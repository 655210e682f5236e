------------------------------ MODULE MCTupleList ------------------------------
(* Instances of TupleList for TLC.                                         *)
EXTENDS TupleList, TLC

CONSTANTS p1, p2, p3, t1, t2

Three == {p1, p2, p3}
TwoTuples == {t1, t2}
AllPatterns == {"eq1", "any"}
Matches == [pat \in AllPatterns |-> IF pat = "eq1" THEN {t1} ELSE {t1, t2}]

SixBlocks == 1..6

push(t) == [op |-> "push", arg |-> t]
peek(pat) == [op |-> "peek", arg |-> pat]
pop(pat) == [op |-> "pop", arg |-> pat]

(* The host pushes and pops t1 and at last destroys the list; a guest      *)
(* pushes, peeks and pops; another peeks.                                  *)
HostAndGuests == [p \in Procs |->
  CASE p = p1 -> {push(t1), pop("any"), DestroyCall}
    [] p = p2 -> {push(t2), pop("eq1"), peek("eq1")}
    [] OTHER -> {peek("any")}]
HostFour == [p \in Procs |-> CASE p = p1 -> 4 [] p = p2 -> 3 [] OTHER -> 1]

(* Either pushes and peeks run together, and every pop alone; or peeks and *)
(* one pop run together, and every push alone.                             *)
PushesBesidePeeks == {{"push", "pop"}, {"pop", "peek"}, {"pop"}}
PopBesidePeeks == {{"push", "pop"}, {"push", "peek"}, {"push"}, {"pop"}}
TwoConventions == {PushesBesidePeeks, PopBesidePeeks}

=============================================================================
