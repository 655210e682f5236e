------------------------------- MODULE TupleList -------------------------------
(***************************************************************************)
(* One bucket of the hash table at the grain of its pointers: push_tuple,  *)
(* peek_tuple, pop_tuple and destroy_list (hash_table_t.c, list_t.c,       *)
(* tuple_space.c), with the blocks they take from the heap and give back.  *)
(*                                                                         *)
(* The monitor is what module Monitor shows it to be: one owner, a         *)
(* broadcast wakes every waiter and a signal at most one.  pop_tuple does  *)
(* not enter it.  A list element and a tuple take one block each; a freed  *)
(* block keeps its contents until it is used again.  Comparing one element *)
(* and reading its next pointer are one step.                              *)
(***************************************************************************)
EXTENDS Integers, FiniteSetsExt

CONSTANTS
  Procs,
  Nobody,       (* the owner of a free semaphore                            *)
  Tuples, Patterns,
  MatchedBy,    (* MatchedBy[pat]: the tuples that match pat                *)
  Addresses,    (* the places of blocks in the segment                      *)
  SizeModulus,  (* 2^64 in the code, the range of size_t                    *)
  Calls,        (* Calls[p]: the calls p's program may make                 *)
  Budget,       (* Budget[p]: how many of them it makes                     *)
  Conventions   (* each: pairs of operations that are not run at a time     *)

ASSUME TupleListAssumption ==
  /\ Nobody \notin Procs
  /\ MatchedBy \in [Patterns -> SUBSET Tuples]
  /\ Addresses \subseteq Nat \ {0} /\ IsFiniteSet(Addresses)
  /\ SizeModulus \in Nat \ {0}
  /\ Budget \in [Procs -> Nat]

VARIABLES
  mem,      (* mem[a]: what was last written into the block at a            *)
  live,     (* the allocated blocks                                         *)
  heap,     (* who holds the heap's semaphore between two calls             *)
  head,     (* list->head                                                   *)
  size,     (* list->size                                                   *)
  monitor,  (* who is in the monitor                                        *)
  pc,       (* where p is in its call                                       *)
  call,     (* the call p is making                                         *)
  answer,   (* what it returns                                              *)
  reg,      (* p's local pointers                                           *)
  left,     (* how many calls p's program has still to make                 *)
  apart,    (* the convention that the programs keep, of Conventions        *)
  seen      (* history: the tuples in the list at some time of p's peek     *)

vars ==
  <<mem, live, heap, head, size, monitor, pc, call, answer, reg, left, apart, seen>>

blocks == <<mem, live, heap>>
list == <<head, size, monitor>>
program == <<left, apart>>

Null == 0
NoValue == "none"
Pending == [status |-> 2, tuple |-> NoValue]
NoCall == [op |-> "none", arg |-> NoValue]
DestroyCall == [op |-> "destroy", arg |-> NoValue]
Requests ==
  [op : {"push"}, arg : Tuples] \cup [op : {"peek", "pop"}, arg : Patterns]
    \cup {DestroyCall}

ASSUME CallsAssumption == Calls \in [Procs -> SUBSET Requests]

Registers ==
  [at |-> Null, prev |-> Null, new |-> Null, data |-> Null, old |-> Null, count |-> 0]

Fresh == [kind |-> "fresh", data |-> Null, next |-> Null, value |-> NoValue]
Element(d, n) == [kind |-> "element", data |-> d, next |-> n, value |-> NoValue]
Tuple(t) == [kind |-> "tuple", data |-> Null, next |-> Null, value |-> t]

Is(a, kind) == a # Null /\ mem[a].kind = kind

(* The tuple behind a list element, and the element behind another: the    *)
(* head stands behind the null pointer.                                    *)
Value(a) == mem[mem[a].data].value
After(a) == IF a = Null THEN head ELSE mem[a].next

Linked ==
  LET upto[n \in 0..Cardinality(Addresses)] ==
        IF n = 0 THEN {head} ELSE upto[n - 1] \cup {mem[a].next : a \in upto[n - 1] \ {Null}}
  IN  upto[Cardinality(Addresses)] \ {Null}

Readable(a) == Is(a, "element") /\ Is(mem[a].data, "tuple")

Stored == {Value(a) : a \in {b \in Linked : Readable(b)}}

Peeks(q) == call[q].op = "peek"

Init ==
  /\ mem = [a \in Addresses |-> Fresh]
  /\ live = {}
  /\ heap = Nobody
  /\ head = Null /\ size = 0 /\ monitor = Nobody
  /\ pc = [p \in Procs |-> "idle"]
  /\ call = [p \in Procs |-> NoCall]
  /\ answer = [p \in Procs |-> Pending]
  /\ reg = [p \in Procs |-> Registers]
  /\ left = Budget
  /\ apart \in Conventions
  /\ seen = [p \in Procs |-> {}]

-----------------------------------------------------------------------------
(***************************************************************************)
(* The heap (module Heap).  bfree of a block that is not allocated returns *)
(* with the semaphore held: shared_allocator.c:214-219.                    *)
(***************************************************************************)
balloc(a) ==
  /\ heap = Nobody
  /\ live # Addresses
  /\ a = Min(Addresses \ live)
  /\ live' = live \cup {a}
  /\ UNCHANGED heap

bfree(p, a) ==
  /\ heap = Nobody
  /\ live' = live \ {a}
  /\ heap' = IF a \in live THEN Nobody ELSE p
  /\ UNCHANGED mem

move(p, from, to) ==
  /\ pc[p] = from
  /\ pc' = [pc EXCEPT ![p] = to]
  /\ UNCHANGED <<call, program, seen>>

answers(p, status, t) ==
  answer' = [answer EXCEPT ![p] = [status |-> status, tuple |-> t]]

sets(p, values) ==
  reg' = [reg EXCEPT ![p] = [r \in DOMAIN @ |-> IF r \in DOMAIN values THEN values[r] ELSE @[r]]]

(***************************************************************************)
(* A program makes its next call.  The programs keep a convention on what  *)
(* they run together, in which a waiting reader does not count; the host   *)
(* destroys the list when every program has made all its calls.            *)
(***************************************************************************)
MayStart(p, op) ==
  \A q \in Procs \ {p} :
    pc[q] \in {"idle", "wait"} \/ {op, call[q].op} \notin apart

FirstLabel(op) ==
  CASE op = "push" -> "isin" [] op = "peek" -> "enter" [] op = "pop" -> "scan"
    [] op = "destroy" -> "test"

start(p, r) ==
  /\ pc[p] = "idle" /\ left[p] > 0
  /\ MayStart(p, r.op)
  /\ r = DestroyCall =>
       left[p] = 1 /\ \A q \in Procs \ {p} : left[q] = 0 /\ pc[q] = "idle"
  /\ pc' = [pc EXCEPT ![p] = FirstLabel(r.op)]
  /\ call' = [call EXCEPT ![p] = r]
  /\ left' = [left EXCEPT ![p] = @ - 1]
  /\ seen' = [seen EXCEPT ![p] = IF r.op = "peek" THEN Stored ELSE {}]
  /\ sets(p, [at |-> head])
  /\ UNCHANGED <<blocks, list, answer, apart>>

return(p) ==
  /\ pc[p] = "return"
  /\ pc' = [pc EXCEPT ![p] = "idle"]
  /\ call' = [call EXCEPT ![p] = NoCall]
  /\ answer' = [answer EXCEPT ![p] = Pending]
  /\ reg' = [reg EXCEPT ![p] = Registers]
  /\ seen' = [seen EXCEPT ![p] = {}]
  /\ UNCHANGED <<blocks, list, program>>

(* The loops over the list: p stands at an element whose tuple it can read *)
(* and that is, or is not, what it looks for.                              *)
Wants(p, a) ==
  Value(a) \in (IF call[p].op = "push" THEN {call[p].arg} ELSE MatchedBy[call[p].arg])

at_match(p) == Readable(reg[p].at) /\ Wants(p, reg[p].at)

goes_on(p) ==
  /\ pc[p] \in {"isin", "look", "scan"}
  /\ Readable(reg[p].at) /\ ~ Wants(p, reg[p].at)
  /\ sets(p, [prev |-> reg[p].at, at |-> mem[reg[p].at].next])
  /\ UNCHANGED <<blocks, list, pc, call, answer, program, seen>>

(***************************************************************************)
(* push_tuple: put_into_hash_table, is_in_hash_table and                   *)
(* insert_into_list_after.                                                 *)
(***************************************************************************)
is_in(p) ==
  /\ move(p, "isin", "return")
  /\ at_match(p)
  /\ answers(p, 1, NoValue)
  /\ UNCHANGED <<blocks, list, reg>>

is_not_in(p) ==
  /\ move(p, "isin", "insertEnter")
  /\ reg[p].at = Null
  /\ \E a \in Addresses : balloc(a) /\ sets(p, [new |-> a])
  /\ UNCHANGED <<mem, list, answer>>

insert_enter(p) ==
  /\ move(p, "insertEnter", "insertClone")
  /\ monitor = Nobody /\ monitor' = p
  /\ UNCHANGED <<blocks, head, size, answer, reg>>

(* Variant with a defect: the element is in the list before it is filled.  *)
insert_clone_published(p) ==
  /\ move(p, "insertClone", "insertLink")
  /\ \E a \in Addresses :
       /\ balloc(a)
       /\ mem' = [mem EXCEPT ![a] = Tuple(call[p].arg)]
       /\ sets(p, [data |-> a])
  /\ head' = reg[p].new
  /\ UNCHANGED <<size, monitor, answer>>

insert_clone(p) ==
  /\ move(p, "insertClone", "insertLink")
  /\ \E a \in Addresses :
       /\ balloc(a)
       /\ mem' = [mem EXCEPT ![a] = Tuple(call[p].arg)]
       /\ sets(p, [data |-> a])
  /\ UNCHANGED <<list, answer>>

insert_link(p) ==
  /\ move(p, "insertLink", "insertHead")
  /\ mem' = [mem EXCEPT ![reg[p].new] = Element(reg[p].data, head)]
  /\ UNCHANGED <<live, heap, list, answer, reg>>

insert_head(p) ==
  /\ pc[p] = "insertHead" /\ pc' = [pc EXCEPT ![p] = "grow"]
  /\ head' = reg[p].new
  /\ seen' = [q \in Procs |-> IF Peeks(q) THEN seen[q] \cup {call[p].arg} ELSE {}]
  /\ UNCHANGED <<blocks, size, monitor, call, answer, reg, program>>

(* Variant with a defect: the monitor is left before the size is written.  *)
grow_outside(p) ==
  /\ move(p, "grow", "grown")
  /\ sets(p, [count |-> size])
  /\ monitor' = Nobody
  /\ UNCHANGED <<blocks, head, size, answer>>

grow_read(p) ==
  /\ move(p, "grow", "grown")
  /\ sets(p, [count |-> size])
  /\ UNCHANGED <<blocks, list, answer>>

grow_write(p) ==
  /\ move(p, "grown", "leave")
  /\ size' = (reg[p].count + 1) % SizeModulus
  /\ UNCHANGED <<blocks, head, monitor, answer, reg>>

put_leave(p) ==
  /\ move(p, "leave", "broadcast")
  /\ monitor' = Nobody
  /\ UNCHANGED <<blocks, head, size, answer, reg>>

put_broadcast(p) ==
  /\ pc[p] = "broadcast"
  /\ pc' = [q \in Procs |-> IF q = p THEN "return"
                            ELSE IF pc[q] = "wait" THEN "enter" ELSE pc[q]]
  /\ answers(p, 0, NoValue)
  /\ UNCHANGED <<blocks, list, call, reg, program, seen>>

(***************************************************************************)
(* peek_tuple: get_from_hash_table.                                        *)
(***************************************************************************)
get_enter(p) ==
  /\ move(p, "enter", "look")
  /\ monitor = Nobody /\ monitor' = p
  /\ sets(p, [at |-> head])
  /\ UNCHANGED <<blocks, head, size, answer>>

get_wait(p) ==
  /\ move(p, "look", "wait")
  /\ reg[p].at = Null
  /\ monitor' = Nobody
  /\ UNCHANGED <<blocks, head, size, answer, reg>>

get_match(p) ==
  /\ move(p, "look", "getClone")
  /\ at_match(p)
  /\ UNCHANGED <<blocks, list, answer, reg>>

get_clone(p) ==
  /\ move(p, "getClone", "signal")
  /\ Readable(reg[p].at)
  /\ answers(p, 0, Value(reg[p].at))
  /\ UNCHANGED <<blocks, list, reg>>

get_signal(p) ==
  /\ pc[p] = "signal"
  /\ \E woken \in SUBSET {q \in Procs : pc[q] = "wait"} :
       /\ Cardinality(woken) <= 1
       /\ pc' = [q \in Procs |-> IF q = p THEN "return"
                                 ELSE IF q \in woken THEN "enter" ELSE pc[q]]
  /\ monitor' = Nobody
  /\ UNCHANGED <<blocks, head, size, call, answer, reg, program, seen>>

(***************************************************************************)
(* pop_tuple: remove_from_hash_table, remove_from_list_after and the end   *)
(* of pop_tuple.  prev = Null when the match was at the head; the code     *)
(* then reads list->head anew for each of its three uses.                  *)
(***************************************************************************)
remove_match(p) ==
  /\ move(p, "scan", "remove")
  /\ at_match(p)
  /\ UNCHANGED <<blocks, list, answer, reg>>

remove_nothing(p) ==
  /\ pc[p] \in {"scan", "remove", "data"}
  /\ move(p, pc[p], "return")
  /\ CASE pc[p] = "scan" -> reg[p].at = Null
       [] pc[p] = "remove" -> size = 0
       [] pc[p] = "data" -> reg[p].prev # Null /\ mem[reg[p].prev].next = Null
  /\ answers(p, -1, NoValue)
  /\ UNCHANGED <<blocks, list, reg>>

remove_test(p) ==
  /\ move(p, "remove", "data")
  /\ size # 0
  /\ UNCHANGED <<blocks, list, answer, reg>>

(* Variant with a defect: the head is taken, whatever matched.             *)
remove_head_data(p) ==
  /\ move(p, "data", "old")
  /\ Is(head, "element")
  /\ sets(p, [at |-> head, data |-> mem[head].data])
  /\ UNCHANGED <<blocks, list, answer>>

remove_data(p) ==
  LET a == After(reg[p].prev) IN
  /\ move(p, "data", "old")
  /\ Is(a, "element")
  /\ sets(p, [at |-> a, data |-> mem[a].data])
  /\ UNCHANGED <<blocks, list, answer>>

remove_old(p) ==
  /\ move(p, "old", "unlink")
  /\ sets(p, [old |-> After(reg[p].prev)])
  /\ UNCHANGED <<blocks, list, answer>>

(* Variant with a defect: the rest of the list goes with the element.      *)
remove_rest(p) ==
  /\ move(p, "unlink", "free")
  /\ IF reg[p].prev = Null
       THEN head' = Null /\ UNCHANGED mem
       ELSE mem' = [mem EXCEPT ![reg[p].prev].next = Null] /\ UNCHANGED head
  /\ UNCHANGED <<live, heap, size, monitor, answer, reg>>

remove_unlink(p) ==
  LET next == mem[reg[p].at].next IN
  /\ move(p, "unlink", "free")
  /\ IF reg[p].prev = Null
       THEN head' = next /\ UNCHANGED mem
       ELSE mem' = [mem EXCEPT ![reg[p].prev].next = next] /\ UNCHANGED head
  /\ UNCHANGED <<live, heap, size, monitor, answer, reg>>

remove_free(p) ==
  /\ move(p, "free", "shrink")
  /\ bfree(p, reg[p].old)
  /\ UNCHANGED <<list, answer, reg>>

shrink_read(p) ==
  /\ move(p, "shrink", "shrunk")
  /\ sets(p, [count |-> size])
  /\ UNCHANGED <<blocks, list, answer>>

shrink_write(p) ==
  /\ move(p, "shrunk", IF call[p].op = "pop" THEN "popClone" ELSE "destroyTuple")
  /\ size' = (reg[p].count + SizeModulus - 1) % SizeModulus
  /\ UNCHANGED <<blocks, head, monitor, answer, reg>>

pop_clone(p) ==
  /\ move(p, "popClone", "destroyTuple")
  /\ Is(reg[p].data, "tuple")
  /\ answers(p, 0, mem[reg[p].data].value)
  /\ UNCHANGED <<blocks, list, reg>>

(* Variant with a defect: the switch to remote memory is forgotten and the *)
(* stored tuple is not freed.                                              *)
destroy_elsewhere(p) ==
  /\ move(p, "destroyTuple", IF call[p].op = "pop" THEN "return" ELSE "test")
  /\ UNCHANGED <<blocks, list, answer, reg>>

destroy_tuple(p) ==
  /\ move(p, "destroyTuple", IF call[p].op = "pop" THEN "return" ELSE "test")
  /\ bfree(p, reg[p].data)
  /\ UNCHANGED <<list, answer, reg>>

(***************************************************************************)
(* destroy_list: the elements are removed from the head while size > 0.    *)
(***************************************************************************)
(* Variant with a defect: the last element is left behind.                 *)
destroy_all_but_one(p) ==
  /\ move(p, "test", IF size > 1 THEN "remove" ELSE "return")
  /\ IF size > 1 THEN UNCHANGED answer ELSE answers(p, 0, NoValue)
  /\ reg' = [reg EXCEPT ![p] = Registers]
  /\ UNCHANGED <<blocks, list>>

destroy_test(p) ==
  /\ move(p, "test", IF size > 0 THEN "remove" ELSE "return")
  /\ IF size > 0 THEN UNCHANGED answer ELSE answers(p, 0, NoValue)
  /\ reg' = [reg EXCEPT ![p] = Registers]
  /\ UNCHANGED <<blocks, list>>

Push(p) ==
  \/ is_in(p) \/ is_not_in(p) \/ insert_enter(p) \/ insert_clone(p)
  \/ insert_link(p) \/ insert_head(p) \/ grow_read(p) \/ grow_write(p)
  \/ put_leave(p) \/ put_broadcast(p)

Peek(p) ==
  get_enter(p) \/ get_wait(p) \/ get_match(p) \/ get_clone(p) \/ get_signal(p)

Remove(p) ==
  \/ remove_match(p) \/ remove_nothing(p) \/ remove_test(p) \/ remove_data(p)
  \/ remove_old(p) \/ remove_unlink(p) \/ remove_free(p) \/ shrink_read(p)
  \/ shrink_write(p) \/ pop_clone(p) \/ destroy_tuple(p) \/ destroy_test(p)

Run(p) ==
  \/ \E r \in Calls[p] : start(p, r)
  \/ goes_on(p) \/ Push(p) \/ Peek(p) \/ Remove(p) \/ return(p)

Next == \E p \in Procs : Run(p)

Spec == Init /\ [][Next]_vars

-----------------------------------------------------------------------------
(***************************************************************************)
(* Properties.                                                             *)
(***************************************************************************)
Labels ==
  {"idle", "return", "wait", "isin", "insertEnter", "insertClone",
   "insertLink", "insertHead", "grow", "grown", "leave", "broadcast", "enter",
   "look", "getClone", "signal", "scan", "remove", "data", "old", "unlink",
   "free", "shrink", "shrunk", "popClone", "destroyTuple", "test"}

(* Types; and the process that holds the monitor is where the code holds   *)
(* it.                                                                     *)
ListTypeOK ==
  /\ live \subseteq Addresses
  /\ heap \in Procs \cup {Nobody}
  /\ head \in Addresses \cup {Null}
  /\ size \in 0..(SizeModulus - 1)
  /\ pc \in [Procs -> Labels]
  /\ call \in [Procs -> Requests \cup {NoCall}]
  /\ \A p \in Procs :
       monitor = p <=> pc[p] \in {"insertClone", "insertLink", "insertHead", "grow",
                                  "grown", "leave", "look", "getClone", "signal"}

(* The moment at which a call acts: a push when its element becomes the    *)
(* head, a pop when the element is unlinked.                               *)
ActedAs(p) ==
  IF call[p].op = "push" /\ pc[p] \in {"grow", "grown", "leave", "broadcast"}
    THEN [status |-> 0, tuple |-> NoValue]
  ELSE IF call[p].op = "pop" /\ pc[p] \in {"free", "shrink", "shrunk", "popClone"}
    THEN [status |-> 0, tuple |-> mem[reg[p].data].value]
  ELSE answer[p]

Abstract == INSTANCE TupleSpace WITH
  space <- Stored, answer <- [p \in Procs |-> ActedAs(p)]

(* The bucket is a set of tuples on which every call acts at once, though  *)
(* pushes look for equal tuples without a lock and peeks run beside them,  *)
(* or beside pops that unlink and free what they stand at.  It holds when  *)
(* pops run beside no push and no other pop, no push beside a peek that    *)
(* has met a pop, and no two programs push the same tuple.                 *)
IsTupleSpace == Abstract!Spec

Quiet == \A p \in Procs : pc[p] \in {"idle", "wait"}

(* No block is lost and none is freed in use: between calls, the allocated *)
(* blocks are those of the list, whatever was pushed, refused and popped   *)
(* before, and the heap's semaphore is free.  list->size, incremented in   *)
(* the monitor and decremented outside of it, is the length of the list:   *)
(* destroy_list relies on it.                                              *)
NothingLost ==
  Quiet =>
    /\ live = Linked \cup {mem[a].data : a \in Linked}
    /\ heap = Nobody
    /\ size = Cardinality(Linked)

(* p is about to follow a pointer that is null or leads to a block that is *)
(* no longer what it was.  What follows is undefined: p takes no step.     *)
Astray(p) ==
  CASE pc[p] \in {"isin", "look", "scan"} ->
         reg[p].at # Null /\ ~ Readable(reg[p].at)
    [] pc[p] = "getClone" -> ~ Readable(reg[p].at)
    [] pc[p] = "data" ->
         LET a == After(reg[p].prev) IN
         ~ Is(a, "element") /\ (reg[p].prev = Null \/ a # Null)
    [] pc[p] = "popClone" -> ~ Is(reg[p].data, "tuple")
    [] OTHER -> FALSE

(* No program follows a pointer into a block that has been given back and  *)
(* used again, and none follows the null pointer.                          *)
NoStrayPointer == \A p \in Procs : ~ Astray(p)

(* destroy_list frees everything that was ever pushed and not popped.      *)
TeardownFreesAll ==
  \A p \in Procs :
    call[p] = DestroyCall /\ pc[p] = "return" => live = {} /\ heap = Nobody

(* testInt.c:94, "Tuple poped:" after a pop with a pattern of EQUALs: the  *)
(* tuple that pop_tuple or peek_tuple returns matches the pattern.         *)
AnswersMatch ==
  \A p \in Procs :
    call[p].op \in {"peek", "pop"} /\ answer[p].status = 0
      => answer[p].tuple \in MatchedBy[call[p].arg]

=============================================================================
