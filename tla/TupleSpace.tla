------------------------------ MODULE TupleSpace ------------------------------
(***************************************************************************)
(* What the tuple space promises its users (tuple_space.h): a set of       *)
(* tuples on which every call acts at once, at some moment between its     *)
(* start and its return: a peek may answer with any match that was there   *)
(* at such a moment.  destroy_tuple_space is called last, and alone.       *)
(***************************************************************************)
EXTENDS Integers

CONSTANTS
  Procs,      (* the users                                                  *)
  Tuples,     (* the tuples                                                 *)
  Patterns,   (* the patterns                                               *)
  MatchedBy   (* MatchedBy[pat]: the tuples that match pat                  *)

VARIABLES
  space,      (* the tuples in the space                                    *)
  call,       (* call[p]: the call p is making                              *)
  answer,     (* answer[p]: its status and tuple, once it has acted         *)
  seen        (* seen[p]: the tuples that were in the space during p's peek *)

Nothing == "none"

NoCall == [op |-> "none", arg |-> Nothing]
DestroyCall == [op |-> "destroy", arg |-> Nothing]
Requests ==
  [op : {"push"}, arg : Tuples] \cup [op : {"peek", "pop"}, arg : Patterns]

Pending == [status |-> 2, tuple |-> Nothing]
Status(n) == [status |-> n, tuple |-> Nothing]
Found(t) == [status |-> 0, tuple |-> t]

Init ==
  /\ space = {}
  /\ call = [p \in Procs |-> NoCall]
  /\ answer = [p \in Procs |-> Pending]
  /\ seen = [p \in Procs |-> {}]

Peeks(q) == call[q].op = "peek"

Invoke(p) ==
  /\ call[p] = NoCall
  /\ \/ \E r \in Requests : call' = [call EXCEPT ![p] = r]
     \/ /\ \A q \in Procs : call[q] = NoCall
        /\ call' = [call EXCEPT ![p] = DestroyCall]
  /\ seen' = [seen EXCEPT ![p] = IF Peeks(p)' THEN space ELSE {}]
  /\ UNCHANGED <<space, answer>>

Acts(p, op) == call[p].op = op /\ answer[p] = Pending /\ UNCHANGED call

Answers(p, result) == answer' = [answer EXCEPT ![p] = result]

Wanted(p) == space \cap MatchedBy[call[p].arg]

(* A tuple is added once: pushing it again changes nothing.                *)
Push(p) ==
  /\ Acts(p, "push")
  /\ space' = space \cup {call[p].arg}
  /\ seen' = [q \in Procs |-> IF Peeks(q) THEN seen[q] \cup {call[p].arg} ELSE {}]
  /\ Answers(p, Status(IF call[p].arg \in space THEN 1 ELSE 0))

Peek(p) ==
  /\ Acts(p, "peek")
  /\ \E t \in seen[p] \cap MatchedBy[call[p].arg] : Answers(p, Found(t))
  /\ UNCHANGED <<space, seen>>

Pop(p) ==
  /\ Acts(p, "pop")
  /\ \E t \in Wanted(p) : space' = space \ {t} /\ Answers(p, Found(t))
  /\ UNCHANGED seen

PopNothing(p) ==
  /\ Acts(p, "pop")
  /\ Wanted(p) = {}
  /\ Answers(p, Status(-1))
  /\ UNCHANGED <<space, seen>>

Discard(p) ==
  /\ Acts(p, "destroy")
  /\ \E t \in space : space' = space \ {t}
  /\ UNCHANGED <<answer, seen>>

Destroyed(p) ==
  /\ Acts(p, "destroy")
  /\ space = {}
  /\ Answers(p, Status(0))
  /\ UNCHANGED <<space, seen>>

Return(p) ==
  /\ answer[p] # Pending
  /\ call' = [call EXCEPT ![p] = NoCall]
  /\ Answers(p, Pending)
  /\ seen' = [seen EXCEPT ![p] = {}]
  /\ UNCHANGED space

Next ==
  \E p \in Procs :
    \/ Invoke(p) \/ Return(p)
    \/ Push(p) \/ Peek(p) \/ Pop(p) \/ PopNothing(p)
    \/ Discard(p) \/ Destroyed(p)

Spec == Init /\ [][Next]_<<space, call, answer, seen>>

=============================================================================
