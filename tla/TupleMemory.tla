------------------------------ MODULE TupleMemory ------------------------------
(***************************************************************************)
(* The blocks of tuples (tuple_t.c, utils.c, tuple_space.c): one program   *)
(* builds a tuple in its local memory, pushes it (it is cloned into shared *)
(* memory), peeks (a clone comes back) and pops (a clone comes back and    *)
(* the shared tuple is destroyed).                                         *)
(*                                                                         *)
(* A pointer is a number, whichever memory it leads into, and the switch   *)
(* mO says which memory's operations the builders and destroyers use.      *)
(* Patterns are built and destroyed as tuples are.                         *)
(***************************************************************************)
EXTENDS Integers, SequencesExt

CONSTANTS
  Values,       (* the values of elements, with their types                 *)
  MaxLen,       (* bound of the instance: elements per tuple                *)
  Local,        (* the addresses of the program's own memory                *)
  Remote,       (* the addresses of the shared memory                       *)
  MaxStored     (* bound of the instance: tuples in the space               *)

ASSUME TupleMemoryAssumption ==
  /\ \A v \in Values : v.valueType \in {"INTEGER", "STRING"}
  /\ MaxLen \in Nat
  /\ Local \cup Remote \subseteq Nat \ {0} /\ Local \cap Remote = {}

VARIABLES
  mem,      (* the contents of the allocated blocks                       *)
  live,     (* the allocated addresses                                      *)
  mO,       (* the memory that mem_ops mO works on                          *)
  hand,     (* the tuple the program builds                                 *)
  got,      (* the tuple it has peeked or popped                            *)
  stored,   (* the tuples in the space                                      *)
  pc,       (* "idle", or the loop that is running                          *)
  op,       (* the call that is running                                     *)
  source, copy,   (* the tuple that is cloned or destroyed, and its clone   *)
  curr, prev      (* where the loop is in source, and the clone's last      *)

loop == <<source, copy, curr, prev>>
owners == <<hand, got, stored>>
vars == <<mem, live, mO, owners, pc, op, loop>>

Null == 0
Unused == [kind |-> "unused"]
Wiped(blocks) == [a \in DOMAIN mem |-> IF a \in blocks THEN Unused ELSE mem[a]]

Pool(m) == IF m = "local" THEN Local ELSE Remote

(* malloc does not fail and balloc makes the segment larger: a step that    *)
(* finds no room is not taken.                                             *)
HasRoom(m, used) == Pool(m) \ used # {}

Alloc(m, used) == CHOOSE a \in Pool(m) \ used : \A b \in Pool(m) \ used : a <= b

Value(a) == mem[mem[a].value].is

(* The elements of the tuple at a, in order.                               *)
Elements(a) ==
  LET at[i \in 1..(MaxLen + 1)] ==
        IF i = 1 THEN mem[a].head
        ELSE IF at[i - 1] = Null THEN Null ELSE mem[at[i - 1]].next
      len == Cardinality({i \in 1..(MaxLen + 1) : at[i] # Null})
  IN  [i \in 1..len |-> at[i]]

Contents(a) == [i \in 1..Len(Elements(a)) |-> Value(Elements(a)[i])]

Counts(a) == [len |-> mem[a].len, iCount |-> mem[a].iCount, sCount |-> mem[a].sCount]

Blocks(a) == {a} \cup ToSet(Elements(a)) \cup {mem[e].value : e \in ToSet(Elements(a))}

returns ==
  /\ pc' = "idle" /\ op' = "none"
  /\ source' = Null /\ copy' = Null /\ curr' = Null /\ prev' = Null

Init ==
  /\ mem = [a \in Local \cup Remote |-> Unused]
  /\ live = {} /\ mO = "local"
  /\ hand = Null /\ got = Null /\ stored = {}
  /\ pc = "idle" /\ op = "none"
  /\ source = Null /\ copy = Null /\ curr = Null /\ prev = Null

-----------------------------------------------------------------------------
(***************************************************************************)
(* create_tuple, add_integer_to_tuple and add_string_to_tuple (and their   *)
(* counterparts for patterns).                                             *)
(***************************************************************************)
create_tuple ==
  LET a == Alloc(mO, live) IN
  /\ pc = "idle" /\ hand = Null /\ HasRoom(mO, live)
  /\ live' = live \cup {a}
  /\ mem' = [mem EXCEPT ![a] =
       [kind |-> "tuple", len |-> 0, iCount |-> 0, sCount |-> 0, head |-> Null]]
  /\ hand' = a
  /\ UNCHANGED <<mO, got, stored, pc, op, loop>>

(* Variant with a defect: every element is counted as an integer.          *)
counts_as_integers(a, v) == [mem[a] EXCEPT !.len = @ + 1, !.iCount = @ + 1]

(* What a tuple's counters become when an element is appended.             *)
CountsWith(a, v) ==
  [mem[a] EXCEPT !.len = @ + 1,
                 !.iCount = IF v.valueType = "INTEGER" THEN @ + 1 ELSE @,
                 !.sCount = IF v.valueType = "STRING" THEN @ + 1 ELSE @]

add_element_to_tuple(v) ==
  LET e == Alloc(mO, live)
      d == Alloc(mO, live \cup {e})
      grown == CountsWith(hand, v)
      filled == [mem EXCEPT ![e] = [kind |-> "element", value |-> d, next |-> Null],
                            ![d] = [kind |-> "value", is |-> v]]
  IN
  /\ pc = "idle" /\ hand # Null /\ mem[hand].len < MaxLen
  /\ HasRoom(mO, live \cup {e})
  /\ live' = live \cup {e, d}
  /\ mem' = IF mem[hand].head = Null
              THEN [filled EXCEPT ![hand] = [grown EXCEPT !.head = e]]
              ELSE [filled EXCEPT ![hand] = grown, ![Last(Elements(hand))].next = e]
  /\ UNCHANGED <<mO, owners, pc, op, loop>>

(***************************************************************************)
(* clone_into_shared_memory and clone_into_local_memory.                   *)
(***************************************************************************)
clone(call, from, to) ==
  LET a == Alloc(to, live) IN
  /\ pc = "idle" /\ pc' = "clone" /\ op' = call
  /\ HasRoom(to, live)
  /\ live' = live \cup {a}
  /\ mem' = [mem EXCEPT ![a] = [mem[from] EXCEPT !.head = Null]]
  /\ source' = from /\ copy' = a
  /\ curr' = mem[from].head /\ prev' = Null

Target == IF op = "push" THEN "remote" ELSE "local"

(* Variant with a defect: an element is always linked at the head.         *)
clone_element_at_head ==
  LET e == Alloc(Target, live)
      d == Alloc(Target, live \cup {e}) IN
  /\ pc = "clone" /\ curr # Null /\ HasRoom(Target, live \cup {e})
  /\ live' = live \cup {e, d}
  /\ mem' = [mem EXCEPT ![copy].head = e,
                        ![e] = [kind |-> "element", value |-> d, next |-> mem[copy].head],
                        ![d] = mem[mem[curr].value]]
  /\ prev' = e /\ curr' = mem[curr].next
  /\ UNCHANGED <<mO, owners, pc, op, source, copy>>

clone_element ==
  LET e == Alloc(Target, live)
      d == Alloc(Target, live \cup {e})
      filled == [mem EXCEPT ![e] = [kind |-> "element", value |-> d, next |-> Null],
                            ![d] = mem[mem[curr].value]]
  IN
  /\ pc = "clone" /\ curr # Null /\ HasRoom(Target, live \cup {e})
  /\ live' = live \cup {e, d}
  /\ mem' = IF prev = Null THEN [filled EXCEPT ![copy].head = e]
            ELSE [filled EXCEPT ![prev].next = e]
  /\ prev' = e /\ curr' = mem[curr].next
  /\ UNCHANGED <<mO, owners, pc, op, source, copy>>

clone_returns ==
  /\ pc = "clone" /\ curr = Null
  /\ pc' = "cloned"
  /\ UNCHANGED <<mem, live, mO, owners, op, loop>>

(***************************************************************************)
(* destroy_tuple (and destroy_patern): the switch mO chooses dealloc.      *)
(***************************************************************************)
destroy(a) ==
  /\ pc' = "destroy"
  /\ source' = a /\ curr' = mem[a].head
  /\ UNCHANGED <<mem, live, copy, prev>>

destroy_element ==
  /\ pc = "destroy" /\ curr # Null
  /\ live' = live \ {mem[curr].value, curr}
  /\ mem' = Wiped({mem[curr].value, curr})
  /\ curr' = mem[curr].next
  /\ UNCHANGED <<mO, owners, pc, op, source, copy, prev>>

destroy_returns ==
  /\ pc = "destroy" /\ curr = Null
  /\ live' = live \ {source}
  /\ mem' = Wiped({source})
  /\ mO' = "local"
  /\ returns
  /\ UNCHANGED owners

-----------------------------------------------------------------------------
(***************************************************************************)
(* The program's calls.  push_tuple refuses an equal tuple.                *)
(***************************************************************************)
push_tuple ==
  /\ hand # Null /\ Cardinality(stored) < MaxStored
  /\ \A a \in stored : Counts(a) = Counts(hand) => Contents(a) # Contents(hand)
  /\ clone("push", hand, "remote")
  /\ UNCHANGED <<mO, owners>>

push_returns ==
  /\ pc = "cloned" /\ op = "push"
  /\ stored' = stored \cup {copy}
  /\ returns
  /\ UNCHANGED <<mem, live, mO, hand, got>>

peek_tuple ==
  /\ got = Null
  /\ \E a \in stored : clone("peek", a, "local")
  /\ UNCHANGED <<mO, owners>>

peek_returns ==
  /\ pc = "cloned" /\ op = "peek"
  /\ got' = copy
  /\ returns
  /\ UNCHANGED <<mem, live, mO, hand, stored>>

(* remove_from_hash_table has unlinked the tuple; it is cloned ...         *)
pop_tuple ==
  /\ got = Null
  /\ \E a \in stored : clone("pop", a, "local") /\ stored' = stored \ {a}
  /\ UNCHANGED <<mO, hand, got>>

(* Variant with a defect: the switch is left at local memory.              *)
pop_without_switch ==
  /\ pc = "cloned" /\ op = "pop"
  /\ got' = copy
  /\ destroy(source)
  /\ UNCHANGED <<mO, hand, stored, op>>

(* ... and destroyed with the operations of the shared memory.             *)
pop_destroys ==
  /\ pc = "cloned" /\ op = "pop"
  /\ got' = copy
  /\ mO' = "remote"
  /\ destroy(source)
  /\ UNCHANGED <<hand, stored, op>>

(* destroy_list does the same without a clone.                             *)
destroy_list ==
  /\ pc = "idle" /\ op' = "destroy"
  /\ \E a \in stored : destroy(a) /\ stored' = stored \ {a}
  /\ mO' = "remote"
  /\ UNCHANGED <<hand, got>>

(* The program destroys its own tuples.                                    *)
drop_hand ==
  /\ pc = "idle" /\ hand # Null /\ op' = "drop"
  /\ destroy(hand) /\ hand' = Null
  /\ UNCHANGED <<mO, got, stored>>

drop_got ==
  /\ pc = "idle" /\ got # Null /\ op' = "drop"
  /\ destroy(got) /\ got' = Null
  /\ UNCHANGED <<mO, hand, stored>>

Next ==
  \/ create_tuple \/ \E v \in Values : add_element_to_tuple(v)
  \/ push_tuple \/ push_returns \/ peek_tuple \/ peek_returns
  \/ pop_tuple \/ pop_destroys \/ destroy_list \/ drop_hand \/ drop_got
  \/ clone_element \/ clone_returns \/ destroy_element \/ destroy_returns

Spec == Init /\ [][Next]_vars

-----------------------------------------------------------------------------
(***************************************************************************)
(* Properties.                                                             *)
(***************************************************************************)
Owned == ({hand, got} \ {Null}) \cup stored

(* Types; and the counters of every tuple count its elements.              *)
MemoryTypeOK ==
  /\ live \subseteq Local \cup Remote
  /\ mO \in {"local", "remote"}
  /\ pc \in {"idle", "clone", "cloned", "destroy"}
  /\ \A a \in Owned :
       LET OfType(t) == {i \in DOMAIN Contents(a) : Contents(a)[i].valueType = t} IN
       Counts(a) = [len |-> Len(Contents(a)),
                    iCount |-> Cardinality(OfType("INTEGER")),
                    sCount |-> Cardinality(OfType("STRING"))]

(* Between calls every allocated block belongs to exactly one tuple that   *)
(* the program or the space has: nothing is lost, shared or freed in use.  *)
(* A tuple is destroyed with the operations of the memory it lives in, and *)
(* what is still to be freed has not been freed.                           *)
BlocksOwnedOnce ==
  /\ pc = "idle" =>
       /\ live = UNION {Blocks(a) : a \in Owned}
       /\ \A a, b \in Owned : a # b => Blocks(a) \cap Blocks(b) = {}
  /\ pc = "destroy" =>
       /\ source \in live \cap Pool(mO)
       /\ curr # Null => {curr, mem[curr].value} \subseteq live \cap Pool(mO)

(* A clone has the elements and the counters of its original, in order.    *)
ClonesAreEqual ==
  pc = "cloned" => Contents(copy) = Contents(source) /\ Counts(copy) = Counts(source)

=============================================================================
