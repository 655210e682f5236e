---------------------------- MODULE TupleListProofs ----------------------------
(***************************************************************************)
(* Proofs about module TupleList: for any programs, tuples, patterns and   *)
(* any number of blocks, the list is well formed and its blocks are        *)
(* accounted for, as long as the programs keep a convention on what they   *)
(* run together; and the calls act on a set of tuples, as in TupleSpace.   *)
(***************************************************************************)
EXTENDS TupleList, TLAPS, FiniteSetTheorems, WellFoundedInduction

(* The two conventions of which the programs must keep one: pushes and     *)
(* peeks run together and every pop alone; or peeks run beside one pop,    *)
(* and every push alone.                                                   *)
PushesWithPeeks == {{"push", "pop"}, {"pop", "peek"}, {"pop"}} \subseteq apart
PopWithPeeks ==
  {{"push", "pop"}, {"push", "peek"}, {"push"}, {"pop"}} \subseteq apart

ConventionsKept ==
  \A c \in Conventions :
    \/ {{"push", "pop"}, {"pop", "peek"}, {"pop"}} \subseteq c
    \/ {{"push", "pop"}, {"push", "peek"}, {"push"}, {"pop"}} \subseteq c

(* list->size can count all the blocks there are.                          *)
RoomToCount == Cardinality(Addresses) < SizeModulus

-----------------------------------------------------------------------------
(***************************************************************************)
(* The invariant.                                                          *)
(***************************************************************************)
Room == Addresses \cup {Null}

BlockType ==
  [kind : {"fresh", "element", "tuple"}, data : Room, next : Room,
   value : Tuples \cup {NoValue}]

RegisterType ==
  [at : Room, prev : Room, new : Room, data : Room, old : Room,
   count : 0..(SizeModulus - 1)]

AnswerType == [status : {-1, 0, 1, 2}, tuple : Tuples \cup {NoValue}]

TypeInv ==
  /\ mem \in [Addresses -> BlockType] /\ live \subseteq Addresses
  /\ heap \in Procs \cup {Nobody}
  /\ head \in Room /\ size \in 0..(SizeModulus - 1)
  /\ monitor \in Procs \cup {Nobody}
  /\ pc \in [Procs -> Labels]
  /\ call \in [Procs -> Requests \cup {NoCall}]
  /\ answer \in [Procs -> AnswerType]
  /\ reg \in [Procs -> RegisterType]
  /\ left \in [Procs -> Nat]
  /\ apart \in Conventions
  /\ \A p \in Procs : pc[p] \in {"old", "unlink"} => reg[p].at # Null

(* Which call is at which label.                                           *)
PushLabels ==
  {"isin", "insertEnter", "insertClone", "insertLink", "insertHead", "grow",
   "grown", "leave", "broadcast"}
PeekLabels == {"enter", "look", "getClone", "signal", "wait"}
RemoveLabels ==
  {"remove", "data", "old", "unlink", "free", "shrink", "shrunk", "destroyTuple"}

LabelOK(p) ==
  \/ call[p].op = "none" /\ pc[p] = "idle" /\ reg[p] = Registers
  \/ call[p].op = "push" /\ pc[p] \in PushLabels \cup {"return"}
  \/ call[p].op = "peek" /\ pc[p] \in PeekLabels \cup {"return"}
  \/ call[p].op = "pop" /\ pc[p] \in RemoveLabels \cup {"scan", "popClone", "return"}
  \/ call[p].op = "destroy" /\ pc[p] \in RemoveLabels \cup {"test", "return"}

LabelInv == \A p \in Procs : LabelOK(p)

(* The monitor is held where the code holds it.                            *)
MonLabels ==
  {"insertClone", "insertLink", "insertHead", "grow", "grown", "leave",
   "look", "getClone", "signal"}

MonitorInv == \A p \in Procs : monitor = p <=> pc[p] \in MonLabels

(* What the conventions leave of the calls that run at a time.             *)
Awake(p) == pc[p] \notin {"idle", "wait"}

Beside(p, q) ==
  IF PushesWithPeeks
    THEN call[p].op \in {"push", "peek"} /\ call[q].op \in {"push", "peek"}
    ELSE \/ call[p].op = "peek" /\ call[q].op \in {"peek", "pop"}
         \/ call[p].op = "pop" /\ call[q].op = "peek"
         \/ call[p].op = "peek" /\ call[q].op = "push" /\ pc[q] = "return"
         \/ call[p].op = "push" /\ pc[p] = "return" /\ call[q].op = "peek"

BesideInv ==
  /\ \A p, q \in Procs : p # q /\ Awake(p) /\ Awake(q) => Beside(p, q)
  /\ \A p, q \in Procs : p # q /\ call[p].op = "destroy"
       => pc[q] = "idle" /\ left[q] = 0

(***************************************************************************)
(* The list is a chain s of n elements, with a tuple behind each.          *)
(***************************************************************************)
Elems(s, n) == {s[i] : i \in 1..n}
Datas(s, n) == {mem[s[i]].data : i \in 1..n}
At(s, n, i) == IF i \in 1..n THEN s[i] ELSE Null

ChainInv(s, n) ==
  /\ n \in Nat /\ s \in [1..n -> Addresses]
  /\ \A i, j \in 1..n : s[i] = s[j] => i = j
  /\ head = At(s, n, 1)
  /\ \A i \in 1..n : mem[s[i]].kind = "element" /\ mem[s[i]].next = At(s, n, i + 1)
  /\ \A i \in 1..n : Is(mem[s[i]].data, "tuple")
  /\ \A i, j \in 1..n : mem[s[i]].data = mem[s[j]].data => i = j

(* Beside a pop, peeks may stand at elements of G that have been removed:  *)
(* they are as they were, and lead on to others and back into the list.    *)
(* No push reuses them as long as a peek is there.                         *)
WalkInv(s, n, G) ==
  /\ G \subseteq Addresses /\ Elems(s, n) \subseteq G
  /\ \A a \in G : Readable(a) /\ mem[a].next \in G \cup {Null}
  /\ PushesWithPeeks \/ (\E p \in Procs : pc[p] \in PushLabels) => G = Elems(s, n)

(* The blocks that p has allocated or unlinked and not yet put into the    *)
(* list or freed.                                                          *)
Held(p) ==
  CASE pc[p] \in {"insertEnter", "insertClone"} -> {reg[p].new}
    [] pc[p] \in {"insertLink", "insertHead"} -> {reg[p].new, reg[p].data}
    [] pc[p] = "free" -> {reg[p].old, reg[p].data}
    [] pc[p] \in {"shrink", "shrunk", "popClone", "destroyTuple"} -> {reg[p].data}
    [] OTHER -> {}

HeldInv(s, n) ==
  /\ heap = Nobody
  /\ \A a \in Addresses : a \in live <=>
       a \in Elems(s, n) \/ a \in Datas(s, n) \/ (\E p \in Procs : a \in Held(p))
  /\ \A p \in Procs : \A a \in Held(p) :
       /\ a \in Addresses /\ a \notin Elems(s, n) /\ a \notin Datas(s, n)
       /\ \A q \in Procs \ {p} : a \notin Held(q)

(* list->size lags behind while it is being counted.                       *)
SizeInv(n) ==
  /\ \A p \in Procs : pc[p] \in {"grow", "grown"} => size = n - 1
  /\ \A p \in Procs : pc[p] \in {"free", "shrink", "shrunk"} => size = n + 1
  /\ (\A p \in Procs : pc[p] \notin {"grow", "grown", "free", "shrink", "shrunk"})
       => size = n
  /\ \A p \in Procs : pc[p] \in {"grown", "shrunk"} => reg[p].count = size

Suits(p, t) == call[p].op # "destroy" => t \in MatchedBy[call[p].arg]

(* Where p's registers lead, by its label.                                 *)
Target(p, s, n, k) == k \in 1..n /\ reg[p].prev = At(s, n, k - 1)

RegInv(p, s, n, G) ==
  /\ pc[p] = "isin" => reg[p].at \in Elems(s, n) \cup {Null}
  /\ pc[p] = "look" => reg[p].at \in G \cup {Null}
  /\ pc[p] = "getClone" => reg[p].at \in G /\ Suits(p, Value(reg[p].at))
  /\ pc[p] = "idle" => answer[p] = Pending
  /\ call[p].op \in {"peek", "pop"} /\ answer[p].status = 0
       => Suits(p, answer[p].tuple)
  /\ call[p].op = "destroy" /\ pc[p] = "return" => n = 0
  /\ pc[p] = "scan" =>
       \E k \in 1..(n + 1) : reg[p].prev = At(s, n, k - 1) /\ reg[p].at = At(s, n, k)
  /\ pc[p] \in {"remove", "data"} =>
       \E k \in 1..n :
         /\ Target(p, s, n, k)
         /\ call[p].op = "pop" => reg[p].at = s[k] /\ Suits(p, Value(s[k]))
  /\ pc[p] \in {"old", "unlink"} =>
       \E k \in 1..n :
         /\ Target(p, s, n, k) /\ reg[p].at = s[k] /\ reg[p].data = mem[s[k]].data
         /\ Suits(p, Value(s[k]))
         /\ pc[p] = "unlink" => reg[p].old = s[k]
  /\ pc[p] = "free" => reg[p].old \in Addresses /\ reg[p].old # reg[p].data
  /\ pc[p] \in {"free", "shrink", "shrunk", "popClone"} =>
       Is(reg[p].data, "tuple") /\ Suits(p, mem[reg[p].data].value)
  /\ pc[p] = "destroyTuple" => reg[p].data \in Addresses
  /\ pc[p] \in {"insertEnter", "insertClone", "insertLink", "insertHead"}
       => reg[p].new \in Addresses
  /\ pc[p] \in {"insertLink", "insertHead"} =>
       /\ reg[p].data \in Addresses /\ reg[p].data # reg[p].new
       /\ mem[reg[p].data] = Tuple(call[p].arg)
  /\ pc[p] = "insertHead" => mem[reg[p].new] = Element(reg[p].data, head)

ShapeInv(s, n, G) ==
  /\ ChainInv(s, n) /\ WalkInv(s, n, G) /\ HeldInv(s, n) /\ SizeInv(n)
  /\ \A p \in Procs : RegInv(p, s, n, G)

ListInv ==
  /\ TypeInv /\ LabelInv /\ MonitorInv /\ BesideInv
  /\ \E n \in Nat : \E s \in [1..n -> Addresses] : \E G \in SUBSET Addresses :
       ShapeInv(s, n, G)

-----------------------------------------------------------------------------
(***************************************************************************)
(* What the steps are made of.                                             *)
(***************************************************************************)
(* p's registers after a step, the others' being as they were.             *)
RegsAre(p, at, prev, new, data, old, count) ==
  /\ reg' \in [Procs -> RegisterType]
  /\ \A q \in Procs \ {p} : reg'[q] = reg[q]
  /\ reg'[p].at = at /\ reg'[p].prev = prev /\ reg'[p].new = new
  /\ reg'[p].data = data /\ reg'[p].old = old /\ reg'[p].count = count

LEMMA SetsType ==
  ASSUME TypeInv, NEW p \in Procs, NEW values, sets(p, values),
         \A r \in {"at", "prev", "new", "data", "old"} \cap DOMAIN values : values[r] \in Room,
         "count" \in DOMAIN values => values["count"] \in 0..(SizeModulus - 1)
  PROVE  LET get(r) == IF r \in DOMAIN values THEN values[r] ELSE reg[p][r] IN
         RegsAre(p, get("at"), get("prev"), get("new"), get("data"), get("old"), get("count"))
<1> DEFINE get(r) == IF r \in DOMAIN values THEN values[r] ELSE reg[p][r]
           next == [r \in {"at", "prev", "new", "data", "old", "count"} |-> get(r)]
<1>1. reg \in [Procs -> RegisterType]
  BY DEF TypeInv
<1>2. DOMAIN reg[p] = {"at", "prev", "new", "data", "old", "count"}
  BY <1>1 DEF RegisterType
<1>3. reg' = [reg EXCEPT ![p] = next]
  BY <1>1, <1>2 DEF sets
<1>4. next \in RegisterType
  BY <1>1 DEF RegisterType
<1> QED
  BY <1>1, <1>3, <1>4 DEF RegsAre

LEMMA SetsAt ==
  ASSUME TypeInv, NEW p \in Procs, NEW x \in Room, sets(p, [at |-> x])
  PROVE  RegsAre(p, x, reg[p].prev, reg[p].new, reg[p].data, reg[p].old, reg[p].count)
BY SetsType

LEMMA SetsNew ==
  ASSUME TypeInv, NEW p \in Procs, NEW x \in Room, sets(p, [new |-> x])
  PROVE  RegsAre(p, reg[p].at, reg[p].prev, x, reg[p].data, reg[p].old, reg[p].count)
BY SetsType

LEMMA SetsData ==
  ASSUME TypeInv, NEW p \in Procs, NEW x \in Room, sets(p, [data |-> x])
  PROVE  RegsAre(p, reg[p].at, reg[p].prev, reg[p].new, x, reg[p].old, reg[p].count)
BY SetsType

LEMMA SetsOld ==
  ASSUME TypeInv, NEW p \in Procs, NEW x \in Room, sets(p, [old |-> x])
  PROVE  RegsAre(p, reg[p].at, reg[p].prev, reg[p].new, reg[p].data, x, reg[p].count)
BY SetsType

LEMMA SetsCount ==
  ASSUME TypeInv, NEW p \in Procs, NEW x \in 0..(SizeModulus - 1), sets(p, [count |-> x])
  PROVE  RegsAre(p, reg[p].at, reg[p].prev, reg[p].new, reg[p].data, reg[p].old, x)
BY SetsType

LEMMA SetsNext ==
  ASSUME TypeInv, NEW p \in Procs, NEW x \in Room, NEW y \in Room,
         sets(p, [prev |-> x, at |-> y])
  PROVE  RegsAre(p, y, x, reg[p].new, reg[p].data, reg[p].old, reg[p].count)
BY SetsType

LEMMA SetsFound ==
  ASSUME TypeInv, NEW p \in Procs, NEW x \in Room, NEW y \in Room,
         sets(p, [at |-> x, data |-> y])
  PROVE  RegsAre(p, x, reg[p].prev, reg[p].new, y, reg[p].old, reg[p].count)
BY SetsType

(* Any non-empty set of naturals has a least element.                      *)
LEMMA LeastNatural ==
  ASSUME NEW T \in SUBSET Nat, T # {}
  PROVE  \E m \in T : \A n \in T : m <= n
<1> DEFINE R == OpToRel(<, Nat)
<1>1. \E m \in T : \A n \in T : ~ (<<n, m>> \in R)
  <2>1. IsWellFoundedOn(R, Nat)
    BY NatLessThanWellFounded
  <2> HIDE DEF R
  <2> QED
    BY <2>1, WFMin
<1>2. \E m \in T : \A n \in T : ~ (n < m)
  BY <1>1 DEF OpToRel
<1> QED
  BY <1>2

(* balloc returns a block that is not in use.                              *)
LEMMA BallocFresh ==
  ASSUME TypeInv, NEW a, balloc(a)
  PROVE  /\ a \in Addresses /\ a \notin live /\ live' = live \cup {a}
         /\ heap = Nobody /\ heap' = heap /\ a # Null
<1> DEFINE T == Addresses \ live
<1>1. T \in SUBSET Nat /\ T # {}
  BY TupleListAssumption DEF balloc, TypeInv
<1>2. \E m \in T : \A n \in T : m <= n
  BY <1>1, LeastNatural
<1>3. a \in T
  BY <1>2 DEF balloc, Min
<1> QED
  BY <1>3, TupleListAssumption DEF balloc, Null

(* Numbers that fit are not changed by size_t's modulus.                   *)
LEMMA SizeFits ==
  ASSUME NEW k \in 0..(SizeModulus - 1)
  PROVE  /\ k % SizeModulus = k
         /\ (k + SizeModulus) % SizeModulus = k
BY TupleListAssumption

LEMMA SizeType ==
  ASSUME NEW k \in Nat
  PROVE  k % SizeModulus \in 0..(SizeModulus - 1)
BY TupleListAssumption

(* A program moves from one label of its call to another.                  *)
Moves(p, from, to) ==
  /\ pc[p] = from /\ pc'[p] = to
  /\ \A q \in Procs \ {p} : pc'[q] = pc[q]
  /\ pc' \in [Procs -> Labels]
  /\ call' = call /\ left' = left /\ apart' = apart

LEMMA MoveMoves ==
  ASSUME TypeInv, NEW p \in Procs, NEW from, NEW to \in Labels, move(p, from, to)
  PROVE  Moves(p, from, to) /\ seen' = seen
BY DEF TypeInv, move, Moves, program

LEMMA AnswersMoves ==
  ASSUME TypeInv, NEW p \in Procs, NEW status \in {-1, 0, 1, 2},
         NEW t \in Tuples \cup {NoValue}, answers(p, status, t)
  PROVE  /\ answer' \in [Procs -> AnswerType]
         /\ answer'[p].status = status /\ answer'[p].tuple = t
         /\ \A q \in Procs \ {p} : answer'[q] = answer[q]
BY DEF TypeInv, answers, AnswerType

-----------------------------------------------------------------------------
(***************************************************************************)
(* Labels, the monitor and the conventions.                                *)
(***************************************************************************)
(* The move stays in p's call, ...                                         *)
InCall(p, to) ==
  \/ pc[p] \in PushLabels /\ to \in PushLabels \cup {"return"}
  \/ pc[p] \in PeekLabels \ {"wait"} /\ to \in PeekLabels \cup {"return"}
  \/ call[p].op = "pop" /\ to \in RemoveLabels \cup {"scan", "popClone", "return"}
  \/ call[p].op = "destroy" /\ to \in RemoveLabels \cup {"test", "return"}

(* ... and takes or leaves the monitor where it should.                    *)
MonMove(p, to) ==
  \/ monitor' = monitor /\ (pc[p] \in MonLabels <=> to \in MonLabels)
  \/ monitor = Nobody /\ monitor' = p /\ pc[p] \notin MonLabels /\ to \in MonLabels
  \/ monitor' = Nobody /\ pc[p] \in MonLabels /\ to \notin MonLabels

LEMMA MoveKeepsLabels ==
  ASSUME TypeInv, LabelInv, MonitorInv, NEW p \in Procs, NEW from, NEW to,
         Moves(p, from, to), InCall(p, to), MonMove(p, to),
         \A q \in Procs \ {p} : reg'[q] = reg[q]
  PROVE  LabelInv' /\ MonitorInv'
<1>1. ASSUME NEW q \in Procs PROVE LabelOK(q)'
  <2>1. CASE q # p
    BY <2>1 DEF Moves, LabelInv, LabelOK
  <2>2. CASE q = p
    BY <2>2 DEF Moves, LabelInv, LabelOK, InCall, PushLabels, PeekLabels, RemoveLabels
  <2> QED
    BY <2>1, <2>2
<1>2. MonitorInv'
  <2>1. Nobody \notin Procs /\ pc[p] = from /\ pc'[p] = to
        /\ \A q \in Procs \ {p} : pc'[q] = pc[q]
    BY TupleListAssumption DEF Moves
  <2>2. \A q \in Procs : monitor = q <=> pc[q] \in MonLabels
    BY DEF MonitorInv
  <2>3. CASE monitor' = monitor /\ (pc[p] \in MonLabels <=> to \in MonLabels)
    BY <2>1, <2>2, <2>3 DEF MonitorInv
  <2>4. CASE monitor = Nobody /\ monitor' = p /\ pc[p] \notin MonLabels /\ to \in MonLabels
    BY <2>1, <2>2, <2>4 DEF MonitorInv
  <2>5. CASE monitor' = Nobody /\ pc[p] \in MonLabels /\ to \notin MonLabels
    BY <2>1, <2>2, <2>5 DEF MonitorInv
  <2> QED
    BY <2>3, <2>4, <2>5 DEF MonMove
<1> QED
  BY <1>1, <1>2 DEF LabelInv

LEMMA MoveKeepsBeside ==
  ASSUME TypeInv, LabelInv, BesideInv, NEW p \in Procs, NEW from, NEW to,
         Moves(p, from, to), InCall(p, to)
  PROVE  BesideInv'
<1>1. /\ pc[p] \notin {"idle", "wait"}
      /\ call[p].op = "push" => pc[p] # "return"
  BY DEF InCall, LabelInv, LabelOK, PushLabels, PeekLabels, RemoveLabels
<1>2. /\ call' = call /\ left' = left /\ apart' = apart
      /\ \A q \in Procs \ {p} : pc'[q] = pc[q]
      /\ PushesWithPeeks' <=> PushesWithPeeks
  BY DEF Moves, PushesWithPeeks
<1>3. ASSUME NEW q \in Procs, NEW r \in Procs, q # r, Awake(q)', Awake(r)'
      PROVE  Beside(q, r)'
  <2>1. Awake(q) /\ Awake(r)
    BY <1>1, <1>2, <1>3 DEF Awake
  <2>2. Beside(q, r)
    BY <1>3, <2>1 DEF BesideInv
  <2> QED
    BY <1>1, <1>2, <1>3, <2>2 DEF Beside
<1>4. ASSUME NEW q \in Procs, NEW r \in Procs, q # r, call'[q].op = "destroy"
      PROVE  pc'[r] = "idle" /\ left'[r] = 0
  BY <1>1, <1>2, <1>4 DEF BesideInv
<1> QED
  BY <1>3, <1>4 DEF BesideInv

(* What every action of a program does to labels and types.                *)
Keeps(p) ==
  TypeInv' /\ LabelInv' /\ MonitorInv' /\ (BesideInv => BesideInv')

LEMMA MoveKeeps ==
  ASSUME TypeInv, LabelInv, MonitorInv, NEW p \in Procs, NEW from, NEW to,
         Moves(p, from, to), InCall(p, to), MonMove(p, to),
         \A q \in Procs \ {p} : reg'[q] = reg[q],
         TypeInv'
  PROVE  Keeps(p)
BY MoveKeepsLabels, MoveKeepsBeside DEF Keeps

LEMMA TypeMove ==
  ASSUME TypeInv, NEW p \in Procs, NEW from, NEW to, Moves(p, from, to),
         reg' \in [Procs -> RegisterType], \A q \in Procs \ {p} : reg'[q] = reg[q],
         to \in {"old", "unlink"} => reg'[p].at # Null,
         mem' \in [Addresses -> BlockType], live' \subseteq Addresses,
         heap' \in Procs \cup {Nobody}, head' \in Room,
         size' \in 0..(SizeModulus - 1), monitor' \in Procs \cup {Nobody},
         answer' \in [Procs -> AnswerType]
  PROVE  TypeInv'
<1>1. ASSUME NEW q \in Procs, pc'[q] \in {"old", "unlink"}
      PROVE  reg'[q].at # Null
  BY <1>1 DEF TypeInv, Moves
<1>2. pc' \in [Procs -> Labels] /\ call' = call /\ left' = left /\ apart' = apart
  BY DEF Moves
<1> QED
  BY <1>1, <1>2 DEF TypeInv

LEMMA PushBase ==
  ASSUME TypeInv, LabelInv, MonitorInv, NEW p \in Procs, Push(p)
  PROVE  Keeps(p)
<1>0. /\ p # Nobody /\ Nobody \notin Procs
      /\ reg \in [Procs -> RegisterType] /\ reg[p] \in RegisterType
      /\ mem \in [Addresses -> BlockType]
  BY TupleListAssumption DEF TypeInv
<1>a. \A l \in {"isin", "insertEnter", "insertClone", "insertLink", "insertHead",
               "grow", "grown", "leave", "broadcast"} : l \in PushLabels
  BY DEF PushLabels
<1>1. CASE is_in(p)
  <2>1. Moves(p, "isin", "return")
    BY <1>1, MoveMoves DEF is_in, Labels
  <2>2. /\ UNCHANGED <<mem, live, heap, head, size, monitor, reg>>
        /\ answer' \in [Procs -> AnswerType]
    BY <1>1, AnswersMoves DEF is_in, blocks, list
  <2>3. TypeInv'
    BY <1>0, <2>1, <2>2, TypeMove DEF TypeInv
  <2>4. InCall(p, "return") /\ MonMove(p, "return")
    BY <1>a, <2>1, <2>2 DEF InCall, MonMove, Moves, MonLabels
  <2> QED
    BY <2>1, <2>2, <2>3, <2>4, MoveKeeps
<1>2. CASE is_not_in(p)
  <2>1. Moves(p, "isin", "insertEnter")
    BY <1>2, MoveMoves DEF is_not_in, Labels
  <2>2. PICK a \in Addresses : balloc(a) /\ sets(p, [new |-> a])
    BY <1>2 DEF is_not_in
  <2>3. UNCHANGED <<mem, head, size, monitor, answer>>
    BY <1>2 DEF is_not_in, list
  <2>4. /\ reg' \in [Procs -> RegisterType] /\ \A q \in Procs \ {p} : reg'[q] = reg[q]
    BY <2>2, SetsNew DEF RegsAre, Room
  <2>5. live' \subseteq Addresses /\ heap' = heap
    BY <2>2, BallocFresh DEF TypeInv
  <2>6. TypeInv'
    BY <1>0, <2>1, <2>3, <2>4, <2>5, TypeMove DEF TypeInv
  <2>7. InCall(p, "insertEnter") /\ MonMove(p, "insertEnter")
    BY <1>a, <2>1, <2>3 DEF InCall, MonMove, Moves, MonLabels
  <2> QED
    BY <2>1, <2>4, <2>6, <2>7, MoveKeeps
<1>3. CASE insert_enter(p)
  <2>1. Moves(p, "insertEnter", "insertClone")
    BY <1>3, MoveMoves DEF insert_enter, Labels
  <2>2. /\ UNCHANGED <<mem, live, heap, head, size, answer, reg>>
        /\ monitor = Nobody /\ monitor' = p
    BY <1>3 DEF insert_enter, blocks
  <2>3. TypeInv'
    BY <1>0, <2>1, <2>2, TypeMove DEF TypeInv
  <2>4. InCall(p, "insertClone") /\ MonMove(p, "insertClone")
    BY <1>a, <2>1, <2>2 DEF InCall, MonMove, Moves, MonLabels
  <2> QED
    BY <2>1, <2>2, <2>3, <2>4, MoveKeeps
<1>4. CASE insert_clone(p)
  <2>1. Moves(p, "insertClone", "insertLink")
    BY <1>4, MoveMoves DEF insert_clone, Labels
  <2>2. PICK a \in Addresses :
          /\ balloc(a) /\ mem' = [mem EXCEPT ![a] = Tuple(call[p].arg)]
          /\ sets(p, [data |-> a])
    BY <1>4 DEF insert_clone
  <2>3. UNCHANGED <<head, size, monitor, answer>>
    BY <1>4 DEF insert_clone, list
  <2>4. /\ reg' \in [Procs -> RegisterType] /\ \A q \in Procs \ {p} : reg'[q] = reg[q]
    BY <2>2, SetsData DEF RegsAre, Room
  <2>5. live' \subseteq Addresses /\ heap' = heap
    BY <2>2, BallocFresh DEF TypeInv
  <2>6. call[p].op = "push" /\ call[p].arg \in Tuples
    <3>1. call[p].op = "push"
      BY <2>1 DEF Moves, LabelInv, LabelOK, PushLabels, PeekLabels, RemoveLabels
    <3> QED
      BY <3>1 DEF TypeInv, Requests, NoCall, DestroyCall
  <2>7. mem' \in [Addresses -> BlockType]
    BY <1>0, <2>2, <2>6 DEF Tuple, BlockType, Room
  <2>8. TypeInv'
    BY <1>0, <2>1, <2>3, <2>4, <2>5, <2>7, TypeMove DEF TypeInv
  <2>9. InCall(p, "insertLink") /\ MonMove(p, "insertLink")
    BY <1>a, <2>1, <2>3 DEF InCall, MonMove, Moves, MonLabels
  <2> QED
    BY <2>1, <2>4, <2>8, <2>9, MoveKeeps
<1>5. CASE insert_link(p)
  <2>1. Moves(p, "insertLink", "insertHead")
    BY <1>5, MoveMoves DEF insert_link, Labels
  <2>2. /\ UNCHANGED <<live, heap, head, size, monitor, answer, reg>>
        /\ mem' = [mem EXCEPT ![reg[p].new] = Element(reg[p].data, head)]
    BY <1>5 DEF insert_link, list
  <2>3. Element(reg[p].data, head) \in BlockType
    BY <1>0 DEF TypeInv, Element, BlockType, RegisterType
  <2>4. mem' \in [Addresses -> BlockType]
    BY <1>0, <2>2, <2>3
  <2>5. TypeInv'
    BY <1>0, <2>1, <2>2, <2>4, TypeMove DEF TypeInv
  <2>6. InCall(p, "insertHead") /\ MonMove(p, "insertHead")
    BY <1>a, <2>1, <2>2 DEF InCall, MonMove, Moves, MonLabels
  <2> QED
    BY <2>1, <2>2, <2>5, <2>6, MoveKeeps
<1>6. CASE insert_head(p)
  <2>1. Moves(p, "insertHead", "grow")
    BY <1>6 DEF insert_head, TypeInv, Moves, Labels, program
  <2>2. /\ UNCHANGED <<mem, live, heap, size, monitor, answer, reg>>
        /\ head' = reg[p].new
    BY <1>6 DEF insert_head, blocks
  <2>3. head' \in Room
    BY <1>0, <2>2 DEF RegisterType
  <2>5. TypeInv'
    BY <1>0, <2>1, <2>2, <2>3, TypeMove DEF TypeInv
  <2>6. InCall(p, "grow") /\ MonMove(p, "grow")
    BY <1>a, <2>1, <2>2 DEF InCall, MonMove, Moves, MonLabels
  <2> QED
    BY <2>1, <2>2, <2>5, <2>6, MoveKeeps
<1>7. CASE grow_read(p)
  <2>1. Moves(p, "grow", "grown")
    BY <1>7, MoveMoves DEF grow_read, Labels
  <2>2. /\ UNCHANGED <<mem, live, heap, head, size, monitor, answer>>
        /\ sets(p, [count |-> size])
    BY <1>7 DEF grow_read, blocks, list
  <2>3. /\ reg' \in [Procs -> RegisterType] /\ \A q \in Procs \ {p} : reg'[q] = reg[q]
    BY <2>2, SetsCount DEF RegsAre, TypeInv
  <2>4. TypeInv'
    BY <1>0, <2>1, <2>2, <2>3, TypeMove DEF TypeInv
  <2>5. InCall(p, "grown") /\ MonMove(p, "grown")
    BY <1>a, <2>1, <2>2 DEF InCall, MonMove, Moves, MonLabels
  <2> QED
    BY <2>1, <2>3, <2>4, <2>5, MoveKeeps
<1>8. CASE grow_write(p)
  <2>1. Moves(p, "grown", "leave")
    BY <1>8, MoveMoves DEF grow_write, Labels
  <2>2. /\ UNCHANGED <<mem, live, heap, head, monitor, answer, reg>>
        /\ size' = (reg[p].count + 1) % SizeModulus
    BY <1>8 DEF grow_write, blocks
  <2>3. size' \in 0..(SizeModulus - 1)
    <3>1. reg[p].count + 1 \in Nat
      BY <1>0 DEF RegisterType
    <3> QED
      BY <2>2, <3>1, SizeType
  <2>4. TypeInv'
    BY <1>0, <2>1, <2>2, <2>3, TypeMove DEF TypeInv
  <2>5. InCall(p, "leave") /\ MonMove(p, "leave")
    BY <1>a, <2>1, <2>2 DEF InCall, MonMove, Moves, MonLabels
  <2> QED
    BY <2>1, <2>2, <2>4, <2>5, MoveKeeps
<1>9. CASE put_leave(p)
  <2>1. Moves(p, "leave", "broadcast")
    BY <1>9, MoveMoves DEF put_leave, Labels
  <2>2. UNCHANGED <<mem, live, heap, head, size, answer, reg>> /\ monitor' = Nobody
    BY <1>9 DEF put_leave, blocks
  <2>3. TypeInv'
    BY <1>0, <2>1, <2>2, TypeMove DEF TypeInv
  <2>4. InCall(p, "broadcast") /\ MonMove(p, "broadcast")
    BY <1>a, <2>1, <2>2 DEF InCall, MonMove, Moves, MonLabels
  <2> QED
    BY <2>1, <2>2, <2>3, <2>4, MoveKeeps
<1>10. CASE put_broadcast(p)
  <2>1. /\ pc[p] = "broadcast"
        /\ pc' = [q \in Procs |-> IF q = p THEN "return"
                                  ELSE IF pc[q] = "wait" THEN "enter" ELSE pc[q]]
        /\ UNCHANGED <<mem, live, heap, head, size, monitor, call, reg, left, apart>>
    BY <1>10 DEF put_broadcast, blocks, list, program
  <2>2. answer' \in [Procs -> AnswerType]
    BY <1>10, AnswersMoves DEF put_broadcast
  <2>3. /\ pc' \in [Procs -> Labels]
        /\ pc'[p] = "return"
        /\ \A q \in Procs \ {p} :
             pc'[q] = pc[q] \/ (pc[q] = "wait" /\ pc'[q] = "enter")
    <3>1. "return" \in Labels /\ "enter" \in Labels
      BY DEF Labels
    <3>2. pc \in [Procs -> Labels]
      BY DEF TypeInv
    <3> QED
      BY ONLY <2>1, <3>1, <3>2, p \in Procs
  <2>4. TypeInv'
    BY <2>1, <2>2, <2>3 DEF TypeInv
  <2>5. LabelInv'
    BY <2>1, <2>3 DEF LabelInv, LabelOK, PushLabels, PeekLabels, RemoveLabels
  <2>6. MonitorInv'
    BY <2>1, <2>3 DEF MonitorInv, MonLabels
  <2>7. ASSUME BesideInv PROVE BesideInv'
    <3>1. call[p].op = "push"
      BY <2>1 DEF LabelInv, LabelOK, PushLabels, PeekLabels, RemoveLabels
    <3>2. \A q \in Procs : pc[q] = "wait" => call[q].op = "peek"
      BY DEF LabelInv, LabelOK, PushLabels, PeekLabels, RemoveLabels
    <3>3. \A q \in Procs : call[q].op # "destroy"
      BY <2>1, <2>7, <3>1 DEF BesideInv
    <3>4. \A q \in Procs : Awake(q)' => Awake(q) \/ (pc[q] = "wait" /\ pc'[q] = "enter")
      BY <2>1, <2>3 DEF Awake
    <3>5. Awake(p) /\ \A q \in Procs \ {p} : Awake(q) => Beside(p, q) /\ Beside(q, p)
      BY <2>1, <2>7 DEF BesideInv, Awake
    <3>6. PushesWithPeeks' <=> PushesWithPeeks
      BY <2>1 DEF PushesWithPeeks
    <3>7. ASSUME NEW q \in Procs, NEW r \in Procs, q # r, Awake(q)', Awake(r)'
          PROVE  Beside(q, r)'
      <4>1. CASE PushesWithPeeks
        <5>1. \A x \in Procs : Awake(x)' => call[x].op \in {"push", "peek"}
          BY <3>1, <3>2, <3>4, <3>5, <4>1 DEF Beside
        <5> QED
          BY <2>1, <3>6, <3>7, <4>1, <5>1 DEF Beside
      <4>2. CASE ~ PushesWithPeeks
        <5>1. \A x \in Procs \ {p} : ~ Awake(x)
          BY <2>1, <3>1, <3>5, <4>2 DEF Beside
        <5>2. \A x \in Procs \ {p} : Awake(x)' => call[x].op = "peek"
          BY <3>2, <3>4, <5>1
        <5> QED
          BY <2>1, <2>3, <3>1, <3>6, <3>7, <4>2, <5>2 DEF Beside
      <4> QED
        BY <4>1, <4>2
    <3> QED
      BY <2>1, <3>3, <3>7 DEF BesideInv
  <2> QED
    BY <2>4, <2>5, <2>6, <2>7 DEF Keeps
<1> QED
  BY <1>1, <1>2, <1>3, <1>4, <1>5, <1>6, <1>7, <1>8, <1>9, <1>10 DEF Push

LEMMA PeekBase ==
  ASSUME TypeInv, LabelInv, MonitorInv, NEW p \in Procs, Peek(p)
  PROVE  Keeps(p)
<1>0. /\ p # Nobody /\ Nobody \notin Procs
      /\ reg \in [Procs -> RegisterType] /\ reg[p] \in RegisterType
      /\ mem \in [Addresses -> BlockType]
  BY TupleListAssumption DEF TypeInv
<1>a. \A l \in {"enter", "look", "getClone", "signal", "wait"} : l \in PeekLabels
  BY DEF PeekLabels
<1>1. CASE get_enter(p)
  <2>1. Moves(p, "enter", "look")
    BY <1>1, MoveMoves DEF get_enter, Labels
  <2>2. /\ UNCHANGED <<mem, live, heap, head, size, answer>>
        /\ monitor = Nobody /\ monitor' = p /\ sets(p, [at |-> head])
    BY <1>1 DEF get_enter, blocks
  <2>3. /\ reg' \in [Procs -> RegisterType] /\ \A q \in Procs \ {p} : reg'[q] = reg[q]
    BY <2>2, SetsAt DEF RegsAre, TypeInv
  <2>4. TypeInv'
    BY <1>0, <2>1, <2>2, <2>3, TypeMove DEF TypeInv
  <2>5. InCall(p, "look") /\ MonMove(p, "look")
    BY <1>a, <2>1, <2>2 DEF InCall, MonMove, Moves, MonLabels
  <2> QED
    BY <2>1, <2>3, <2>4, <2>5, MoveKeeps
<1>2. CASE get_wait(p)
  <2>1. Moves(p, "look", "wait")
    BY <1>2, MoveMoves DEF get_wait, Labels
  <2>2. /\ UNCHANGED <<mem, live, heap, head, size, answer, reg>> /\ monitor' = Nobody
    BY <1>2 DEF get_wait, blocks
  <2>3. TypeInv'
    BY <1>0, <2>1, <2>2, TypeMove DEF TypeInv
  <2>4. InCall(p, "wait") /\ MonMove(p, "wait")
    BY <1>a, <2>1, <2>2 DEF InCall, MonMove, Moves, MonLabels
  <2> QED
    BY <2>1, <2>2, <2>3, <2>4, MoveKeeps
<1>3. CASE get_match(p)
  <2>1. Moves(p, "look", "getClone")
    BY <1>3, MoveMoves DEF get_match, Labels
  <2>2. UNCHANGED <<mem, live, heap, head, size, monitor, answer, reg>>
    BY <1>3 DEF get_match, blocks, list
  <2>3. TypeInv'
    BY <1>0, <2>1, <2>2, TypeMove DEF TypeInv
  <2>4. InCall(p, "getClone") /\ MonMove(p, "getClone")
    BY <1>a, <2>1, <2>2 DEF InCall, MonMove, Moves, MonLabels
  <2> QED
    BY <2>1, <2>2, <2>3, <2>4, MoveKeeps
<1>4. CASE get_clone(p)
  <2>1. Moves(p, "getClone", "signal")
    BY <1>4, MoveMoves DEF get_clone, Labels
  <2>2. /\ UNCHANGED <<mem, live, heap, head, size, monitor, reg>>
        /\ Readable(reg[p].at) /\ answers(p, 0, Value(reg[p].at))
    BY <1>4 DEF get_clone, blocks, list
  <2>3. Value(reg[p].at) \in Tuples \cup {NoValue}
    <3>1. reg[p].at \in Addresses
      BY <1>0, <2>2 DEF Readable, Is, RegisterType, Room
    <3>2. mem[reg[p].at].data \in Addresses
      BY <1>0, <2>2, <3>1 DEF Readable, Is, BlockType, Room
    <3> QED
      BY <1>0, <3>2 DEF Value, BlockType
  <2>4. answer' \in [Procs -> AnswerType]
    BY <2>2, <2>3, AnswersMoves
  <2>5. TypeInv'
    BY <1>0, <2>1, <2>2, <2>4, TypeMove DEF TypeInv
  <2>6. InCall(p, "signal") /\ MonMove(p, "signal")
    BY <1>a, <2>1, <2>2 DEF InCall, MonMove, Moves, MonLabels
  <2> QED
    BY <2>1, <2>2, <2>5, <2>6, MoveKeeps
<1>5. CASE get_signal(p)
  <2>1. PICK woken \in SUBSET {q \in Procs : pc[q] = "wait"} :
          pc' = [q \in Procs |-> IF q = p THEN "return"
                                 ELSE IF q \in woken THEN "enter" ELSE pc[q]]
    BY <1>5 DEF get_signal
  <2>2. /\ pc[p] = "signal"
        /\ UNCHANGED <<mem, live, heap, head, size, call, answer, reg, left, apart>>
        /\ monitor' = Nobody
    BY <1>5 DEF get_signal, blocks, program
  <2>3. /\ pc' \in [Procs -> Labels]
        /\ pc'[p] = "return"
        /\ \A q \in Procs \ {p} :
             pc'[q] = pc[q] \/ (pc[q] = "wait" /\ pc'[q] = "enter")
    <3>1. "return" \in Labels /\ "enter" \in Labels
      BY DEF Labels
    <3>2. pc \in [Procs -> Labels]
      BY DEF TypeInv
    <3> QED
      BY ONLY <2>1, <3>1, <3>2, p \in Procs
  <2>4. TypeInv'
    BY <1>0, <2>2, <2>3 DEF TypeInv
  <2>5. LabelInv'
    BY <2>2, <2>3 DEF LabelInv, LabelOK, PushLabels, PeekLabels, RemoveLabels
  <2>6. MonitorInv'
    <3>1. monitor = p
      BY <2>2 DEF MonitorInv, MonLabels
    <3>2. \A q \in Procs \ {p} : pc[q] \notin MonLabels
      BY <3>1 DEF MonitorInv
    <3>3. "return" \notin MonLabels /\ "enter" \notin MonLabels
      BY DEF MonLabels
    <3> QED
      BY <1>0, <2>2, <2>3, <3>2, <3>3 DEF MonitorInv
  <2>7. ASSUME BesideInv PROVE BesideInv'
    <3>1. call[p].op = "peek"
      BY <2>2 DEF LabelInv, LabelOK, PushLabels, PeekLabels, RemoveLabels
    <3>2. \A q \in Procs : pc[q] = "wait" => call[q].op = "peek"
      BY DEF LabelInv, LabelOK, PushLabels, PeekLabels, RemoveLabels
    <3>3. \A q \in Procs : call[q].op # "destroy"
      BY <2>2, <2>7, <3>1 DEF BesideInv
    <3>4. \A q \in Procs : Awake(q)' => Awake(q) \/ (pc[q] = "wait" /\ pc'[q] = "enter")
      BY <2>2, <2>3 DEF Awake
    <3>5. Awake(p) /\ \A q \in Procs \ {p} : Awake(q) => Beside(p, q) /\ Beside(q, p)
      BY <2>2, <2>7 DEF BesideInv, Awake
    <3>6. PushesWithPeeks' <=> PushesWithPeeks
      BY <2>2 DEF PushesWithPeeks
    <3>7. ASSUME NEW q \in Procs, NEW r \in Procs, q # r, Awake(q)', Awake(r)'
          PROVE  Beside(q, r)'
      <4>1. CASE PushesWithPeeks
        <5>1. \A x \in Procs : Awake(x)' => call[x].op \in {"push", "peek"}
          BY <3>1, <3>2, <3>4, <3>5, <4>1 DEF Beside
        <5> QED
          BY <2>2, <3>6, <3>7, <4>1, <5>1 DEF Beside
      <4>2. CASE ~ PushesWithPeeks
        <5>1. CASE Awake(q) /\ Awake(r)
          <6>1. Beside(q, r)
            BY <2>7, <3>7, <5>1 DEF BesideInv
          <6>2. \A x \in {q, r} : pc[x] = "return" => pc'[x] = "return"
            BY <2>3
          <6> QED
            BY <2>2, <3>6, <4>2, <6>1, <6>2 DEF Beside
        <5>2. \A x \in Procs : Awake(x) =>
                \/ call[x].op \in {"peek", "pop"}
                \/ call[x].op = "push" /\ pc[x] = "return" /\ pc'[x] = "return"
          BY <2>3, <3>1, <3>5, <4>2 DEF Beside
        <5>3. \A x \in Procs : Awake(x)' /\ ~ Awake(x) => call[x].op = "peek"
          BY <3>2, <3>4
        <5>4. CASE ~ Awake(q)
          BY <2>2, <3>6, <3>7, <4>2, <5>2, <5>3, <5>4 DEF Beside
        <5>5. CASE ~ Awake(r)
          BY <2>2, <3>6, <3>7, <4>2, <5>2, <5>3, <5>5 DEF Beside
        <5> QED
          BY <5>1, <5>4, <5>5
      <4> QED
        BY <4>1, <4>2
    <3> QED
      BY <2>2, <3>3, <3>7 DEF BesideInv
  <2> QED
    BY <2>4, <2>5, <2>6, <2>7 DEF Keeps
<1> QED
  BY <1>1, <1>2, <1>3, <1>4, <1>5 DEF Peek

(* Only pop and destroy remove elements. *)
LEMMA RemoveOps ==
  ASSUME LabelInv, NEW p \in Procs
  PROVE  /\ pc[p] \in RemoveLabels \cup {"scan", "popClone", "test"}
              => call[p].op \in {"pop", "destroy"}
         /\ pc[p] \in {"scan", "popClone"} => call[p].op = "pop"
         /\ pc[p] = "test" => call[p].op = "destroy"
BY DEF LabelInv, LabelOK, PushLabels, PeekLabels, RemoveLabels

LEMMA RemoveBase ==
  ASSUME TypeInv, LabelInv, MonitorInv, NEW p \in Procs, Remove(p)
  PROVE  Keeps(p)
<1>0. /\ p # Nobody /\ Nobody \notin Procs
      /\ reg \in [Procs -> RegisterType] /\ reg[p] \in RegisterType
      /\ mem \in [Addresses -> BlockType]
      /\ head \in Room
  BY TupleListAssumption DEF TypeInv
<1>a. /\ \A l \in {"remove", "data", "old", "unlink", "free", "shrink", "shrunk",
                   "destroyTuple"} : l \in RemoveLabels /\ l \notin MonLabels
      /\ \A l \in {"scan", "popClone", "test", "return"} : l \notin MonLabels
  BY DEF RemoveLabels, MonLabels
<1>b. After(reg[p].prev) \in Room
  BY <1>0 DEF After, RegisterType, BlockType, Room
<1>1. CASE remove_match(p)
  <2>1. Moves(p, "scan", "remove")
    BY <1>1, MoveMoves DEF remove_match, Labels
  <2>2. UNCHANGED <<mem, live, heap, head, size, monitor, answer, reg>>
    BY <1>1 DEF remove_match, blocks, list
  <2>3. TypeInv'
    BY <1>0, <2>1, <2>2, TypeMove DEF TypeInv
  <2>4. InCall(p, "remove") /\ MonMove(p, "remove")
    BY <1>a, <2>1, <2>2, RemoveOps DEF InCall, MonMove, Moves
  <2> QED
    BY <2>1, <2>2, <2>3, <2>4, MoveKeeps
<1>2. CASE remove_nothing(p)
  <2>1. Moves(p, pc[p], "return") /\ pc[p] \in {"scan", "remove", "data"}
    BY <1>2, MoveMoves DEF remove_nothing, Labels
  <2>2. UNCHANGED <<mem, live, heap, head, size, monitor, reg>>
    BY <1>2 DEF remove_nothing, blocks, list
  <2>3. answer' \in [Procs -> AnswerType]
    BY <1>2, AnswersMoves DEF remove_nothing
  <2>4. TypeInv'
    BY <1>0, <2>1, <2>2, <2>3, TypeMove DEF TypeInv
  <2>5. InCall(p, "return") /\ MonMove(p, "return")
    BY <1>a, <2>1, <2>2, RemoveOps DEF InCall, MonMove, Moves
  <2> QED
    BY <2>1, <2>2, <2>4, <2>5, MoveKeeps
<1>3. CASE remove_test(p)
  <2>1. Moves(p, "remove", "data")
    BY <1>3, MoveMoves DEF remove_test, Labels
  <2>2. UNCHANGED <<mem, live, heap, head, size, monitor, answer, reg>>
    BY <1>3 DEF remove_test, blocks, list
  <2>3. TypeInv'
    BY <1>0, <2>1, <2>2, TypeMove DEF TypeInv
  <2>4. InCall(p, "data") /\ MonMove(p, "data")
    BY <1>a, <2>1, <2>2, RemoveOps DEF InCall, MonMove, Moves
  <2> QED
    BY <2>1, <2>2, <2>3, <2>4, MoveKeeps
<1>4. CASE remove_data(p)
  <2> DEFINE a == After(reg[p].prev)
  <2>1. Moves(p, "data", "old")
    BY <1>4, MoveMoves DEF remove_data, Labels
  <2>2. /\ UNCHANGED <<mem, live, heap, head, size, monitor, answer>>
        /\ Is(a, "element") /\ sets(p, [at |-> a, data |-> mem[a].data])
    BY <1>4 DEF remove_data, blocks, list
  <2>3. a \in Addresses /\ a # Null
    BY <1>b, <2>2 DEF Is, Room
  <2> HIDE DEF a
  <2>4. mem[a].data \in Room
    BY <1>0, <2>3 DEF BlockType
  <2>5. /\ reg' \in [Procs -> RegisterType] /\ \A q \in Procs \ {p} : reg'[q] = reg[q]
        /\ reg'[p].at = a
    BY <2>2, <2>3, <2>4, SetsFound DEF RegsAre, Room
  <2>6. TypeInv'
    BY <1>0, <2>1, <2>2, <2>3, <2>5, TypeMove DEF TypeInv
  <2>7. InCall(p, "old") /\ MonMove(p, "old")
    BY <1>a, <2>1, <2>2, RemoveOps DEF InCall, MonMove, Moves
  <2> QED
    BY <2>1, <2>5, <2>6, <2>7, MoveKeeps
<1>5. CASE remove_old(p)
  <2>1. Moves(p, "old", "unlink")
    BY <1>5, MoveMoves DEF remove_old, Labels
  <2>2. /\ UNCHANGED <<mem, live, heap, head, size, monitor, answer>>
        /\ sets(p, [old |-> After(reg[p].prev)])
    BY <1>5 DEF remove_old, blocks, list
  <2>3. /\ reg' \in [Procs -> RegisterType] /\ \A q \in Procs \ {p} : reg'[q] = reg[q]
        /\ reg'[p].at = reg[p].at
    BY <1>b, <2>2, SetsOld DEF RegsAre
  <2>4. reg[p].at # Null
    BY <2>1 DEF Moves, TypeInv
  <2>5. TypeInv'
    BY <1>0, <2>1, <2>2, <2>3, <2>4, TypeMove DEF TypeInv
  <2>6. InCall(p, "unlink") /\ MonMove(p, "unlink")
    BY <1>a, <2>1, <2>2, RemoveOps DEF InCall, MonMove, Moves
  <2> QED
    BY <2>1, <2>3, <2>5, <2>6, MoveKeeps
<1>6. CASE remove_unlink(p)
  <2> DEFINE next == mem[reg[p].at].next
  <2>1. Moves(p, "unlink", "free")
    BY <1>6, MoveMoves DEF remove_unlink, Labels
  <2>2. /\ UNCHANGED <<live, heap, size, monitor, answer, reg>>
        /\ IF reg[p].prev = Null
             THEN head' = next /\ UNCHANGED mem
             ELSE mem' = [mem EXCEPT ![reg[p].prev].next = next] /\ UNCHANGED head
    BY <1>6 DEF remove_unlink
  <2>3. next \in Room
    <3>1. reg[p].at \in Addresses
      BY <1>0, <2>1 DEF Moves, TypeInv, RegisterType, Room
    <3> QED
      BY <1>0, <3>1 DEF BlockType
  <2> HIDE DEF next
  <2>4. mem' \in [Addresses -> BlockType] /\ head' \in Room
    <3>1. CASE reg[p].prev = Null
      BY <1>0, <2>2, <2>3, <3>1
    <3>2. CASE reg[p].prev # Null
      <4>1. reg[p].prev \in Addresses
        BY <1>0, <3>2 DEF RegisterType, Room
      <4>2. [mem[reg[p].prev] EXCEPT !.next = next] \in BlockType
        BY <1>0, <2>3, <4>1 DEF BlockType
      <4> QED
        BY <1>0, <2>2, <3>2, <4>1, <4>2
    <3> QED
      BY <3>1, <3>2
  <2>5. TypeInv'
    BY <1>0, <2>1, <2>2, <2>4, TypeMove DEF TypeInv
  <2>6. InCall(p, "free") /\ MonMove(p, "free")
    BY <1>a, <2>1, <2>2, RemoveOps DEF InCall, MonMove, Moves
  <2> QED
    BY <2>1, <2>2, <2>5, <2>6, MoveKeeps
<1>7. CASE remove_free(p)
  <2>1. Moves(p, "free", "shrink")
    BY <1>7, MoveMoves DEF remove_free, Labels
  <2>2. /\ UNCHANGED <<mem, head, size, monitor, answer, reg>>
        /\ live' \subseteq live /\ heap' \in {Nobody, p}
    BY <1>7 DEF remove_free, list, bfree
  <2>3. TypeInv'
    BY <1>0, <2>1, <2>2, TypeMove DEF TypeInv
  <2>4. InCall(p, "shrink") /\ MonMove(p, "shrink")
    BY <1>a, <2>1, <2>2, RemoveOps DEF InCall, MonMove, Moves
  <2> QED
    BY <2>1, <2>2, <2>3, <2>4, MoveKeeps
<1>8. CASE shrink_read(p)
  <2>1. Moves(p, "shrink", "shrunk")
    BY <1>8, MoveMoves DEF shrink_read, Labels
  <2>2. /\ UNCHANGED <<mem, live, heap, head, size, monitor, answer>>
        /\ sets(p, [count |-> size])
    BY <1>8 DEF shrink_read, blocks, list
  <2>3. /\ reg' \in [Procs -> RegisterType] /\ \A q \in Procs \ {p} : reg'[q] = reg[q]
    BY <2>2, SetsCount DEF RegsAre, TypeInv
  <2>4. TypeInv'
    BY <1>0, <2>1, <2>2, <2>3, TypeMove DEF TypeInv
  <2>5. InCall(p, "shrunk") /\ MonMove(p, "shrunk")
    BY <1>a, <2>1, <2>2, RemoveOps DEF InCall, MonMove, Moves
  <2> QED
    BY <2>1, <2>3, <2>4, <2>5, MoveKeeps
<1>9. CASE shrink_write(p)
  <2> DEFINE to == IF call[p].op = "pop" THEN "popClone" ELSE "destroyTuple"
  <2>1. Moves(p, "shrunk", to)
    BY <1>9, MoveMoves DEF shrink_write, Labels
  <2>2. /\ UNCHANGED <<mem, live, heap, head, monitor, answer, reg>>
        /\ size' = (reg[p].count + SizeModulus - 1) % SizeModulus
    BY <1>9 DEF shrink_write, blocks
  <2>3. size' \in 0..(SizeModulus - 1)
    <3>1. reg[p].count + SizeModulus - 1 \in Nat
      BY <1>0, TupleListAssumption DEF RegisterType
    <3> QED
      BY <2>2, <3>1, SizeType
  <2>4. TypeInv'
    BY <1>0, <2>1, <2>2, <2>3, TypeMove DEF TypeInv
  <2>5. InCall(p, to) /\ MonMove(p, to)
    BY <1>a, <2>1, <2>2, RemoveOps DEF InCall, MonMove, Moves
  <2> QED
    BY <2>1, <2>2, <2>4, <2>5, MoveKeeps
<1>10. CASE pop_clone(p)
  <2>1. Moves(p, "popClone", "destroyTuple")
    BY <1>10, MoveMoves DEF pop_clone, Labels
  <2>2. /\ UNCHANGED <<mem, live, heap, head, size, monitor, reg>>
        /\ Is(reg[p].data, "tuple") /\ answers(p, 0, mem[reg[p].data].value)
    BY <1>10 DEF pop_clone, blocks, list
  <2>3. mem[reg[p].data].value \in Tuples \cup {NoValue}
    <3>1. reg[p].data \in Addresses
      BY <1>0, <2>2 DEF Is, RegisterType, Room
    <3> QED
      BY <1>0, <3>1 DEF BlockType
  <2>4. answer' \in [Procs -> AnswerType]
    BY <2>2, <2>3, AnswersMoves
  <2>5. TypeInv'
    BY <1>0, <2>1, <2>2, <2>4, TypeMove DEF TypeInv
  <2>6. InCall(p, "destroyTuple") /\ MonMove(p, "destroyTuple")
    BY <1>a, <2>1, <2>2, RemoveOps DEF InCall, MonMove, Moves
  <2> QED
    BY <2>1, <2>2, <2>5, <2>6, MoveKeeps
<1>11. CASE destroy_tuple(p)
  <2> DEFINE to == IF call[p].op = "pop" THEN "return" ELSE "test"
  <2>1. Moves(p, "destroyTuple", to)
    BY <1>11, MoveMoves DEF destroy_tuple, Labels
  <2>2. /\ UNCHANGED <<mem, head, size, monitor, answer, reg>>
        /\ live' \subseteq live /\ heap' \in {Nobody, p}
    BY <1>11 DEF destroy_tuple, list, bfree
  <2>3. TypeInv'
    BY <1>0, <2>1, <2>2, TypeMove DEF TypeInv
  <2>4. InCall(p, to) /\ MonMove(p, to)
    BY <1>a, <2>1, <2>2, RemoveOps DEF InCall, MonMove, Moves
  <2> QED
    BY <2>1, <2>2, <2>3, <2>4, MoveKeeps
<1>12. CASE destroy_test(p)
  <2> DEFINE to == IF size > 0 THEN "remove" ELSE "return"
  <2>1. Moves(p, "test", to)
    BY <1>12, MoveMoves DEF destroy_test, Labels
  <2>2. /\ UNCHANGED <<mem, live, heap, head, size, monitor>>
        /\ reg' = [reg EXCEPT ![p] = Registers]
    BY <1>12 DEF destroy_test, blocks, list
  <2>3. answer' \in [Procs -> AnswerType]
    BY <1>12, AnswersMoves DEF destroy_test, TypeInv
  <2>4. /\ reg' \in [Procs -> RegisterType] /\ \A q \in Procs \ {p} : reg'[q] = reg[q]
    <3>1. Registers \in RegisterType
      BY TupleListAssumption DEF Registers, RegisterType, Room
    <3> QED
      BY <1>0, <2>2, <3>1
  <2>5. TypeInv'
    BY <1>0, <2>1, <2>2, <2>3, <2>4, TypeMove DEF TypeInv
  <2>6. InCall(p, to) /\ MonMove(p, to)
    BY <1>a, <2>1, <2>2, RemoveOps DEF InCall, MonMove, Moves
  <2> QED
    BY <2>1, <2>4, <2>5, <2>6, MoveKeeps
<1> QED
  BY <1>1, <1>2, <1>3, <1>4, <1>5, <1>6, <1>7, <1>8, <1>9, <1>10, <1>11, <1>12 DEF Remove

LEMMA StartBase ==
  ASSUME TypeInv, LabelInv, MonitorInv, NEW p \in Procs, NEW r \in Calls[p], start(p, r)
  PROVE  TypeInv' /\ LabelInv' /\ MonitorInv'
<1>1. /\ r \in Requests
      /\ reg \in [Procs -> RegisterType] /\ head \in Room
      /\ left \in [Procs -> Nat] /\ pc \in [Procs -> Labels]
      /\ call \in [Procs -> Requests \cup {NoCall}]
  BY CallsAssumption DEF TypeInv
<1>2. /\ pc[p] = "idle" /\ left[p] > 0
      /\ pc' = [pc EXCEPT ![p] = FirstLabel(r.op)]
      /\ call' = [call EXCEPT ![p] = r]
      /\ left' = [left EXCEPT ![p] = @ - 1]
      /\ sets(p, [at |-> head])
      /\ UNCHANGED <<mem, live, heap, head, size, monitor, answer, apart>>
  BY DEF start, blocks, list
<1>3. r.op \in {"push", "peek", "pop", "destroy"}
  BY <1>1 DEF Requests, DestroyCall
<1>4. /\ reg' \in [Procs -> RegisterType] /\ \A q \in Procs \ {p} : reg'[q] = reg[q]
  BY <1>1, <1>2, SetsAt DEF RegsAre
<1>5. /\ FirstLabel(r.op) \in Labels
      /\ FirstLabel(r.op) \notin {"old", "unlink"} \cup MonLabels
  BY <1>3 DEF FirstLabel, Labels, MonLabels
<1>6. /\ pc' \in [Procs -> Labels] /\ pc'[p] = FirstLabel(r.op)
      /\ \A q \in Procs \ {p} : pc'[q] = pc[q]
  BY <1>1, <1>2, <1>5
<1>7. /\ call' \in [Procs -> Requests \cup {NoCall}] /\ call'[p] = r
      /\ \A q \in Procs \ {p} : call'[q] = call[q]
  BY <1>1, <1>2
<1>8. left' \in [Procs -> Nat]
  <2>1. left[p] - 1 \in Nat
    BY <1>1, <1>2
  <2> QED
    BY <1>1, <1>2, <2>1
<1>9. TypeInv'
  BY <1>2, <1>4, <1>5, <1>6, <1>7, <1>8 DEF TypeInv
<1>10. LabelInv'
  <2>1. ASSUME NEW q \in Procs, q # p PROVE LabelOK(q)'
    BY <1>4, <1>6, <1>7, <2>1 DEF LabelInv, LabelOK
  <2>2. LabelOK(p)'
    BY <1>3, <1>6, <1>7 DEF LabelOK, FirstLabel, PushLabels, PeekLabels
  <2> QED
    BY <2>1, <2>2 DEF LabelInv
<1>11. MonitorInv'
  <2>1. "idle" \notin MonLabels
    BY DEF MonLabels
  <2> QED
    BY <1>2, <1>5, <1>6, <2>1 DEF MonitorInv
<1> QED
  BY <1>9, <1>10, <1>11

LEMMA StartBeside ==
  ASSUME ConventionsKept, TypeInv, LabelInv, BesideInv,
         NEW p \in Procs, NEW r \in Calls[p], start(p, r)
  PROVE  BesideInv'
<1>1. /\ r \in Requests
      /\ pc \in [Procs -> Labels] /\ left \in [Procs -> Nat]
      /\ call \in [Procs -> Requests \cup {NoCall}]
      /\ apart \in Conventions
  BY CallsAssumption DEF TypeInv
<1>2. /\ pc[p] = "idle" /\ left[p] > 0
      /\ MayStart(p, r.op)
      /\ r = DestroyCall =>
           left[p] = 1 /\ \A q \in Procs \ {p} : left[q] = 0 /\ pc[q] = "idle"
      /\ pc' = [pc EXCEPT ![p] = FirstLabel(r.op)]
      /\ call' = [call EXCEPT ![p] = r]
      /\ left' = [left EXCEPT ![p] = @ - 1]
      /\ UNCHANGED apart
  BY DEF start
<1>3. /\ r.op \in {"push", "peek", "pop", "destroy"}
      /\ r.op = "destroy" => r = DestroyCall
  BY <1>1 DEF Requests, DestroyCall
<1>4. /\ pc'[p] = FirstLabel(r.op) /\ call'[p] = r
      /\ \A q \in Procs \ {p} : pc'[q] = pc[q] /\ call'[q] = call[q] /\ left'[q] = left[q]
      /\ PushesWithPeeks' <=> PushesWithPeeks
  BY <1>1, <1>2 DEF PushesWithPeeks
<1>5. \A q \in Procs : call[q].op # "destroy"
  <2>1. \A q \in Procs \ {p} : call[q].op # "destroy"
    BY <1>1, <1>2 DEF BesideInv
  <2>2. call[p].op # "destroy"
    BY <1>2 DEF LabelInv, LabelOK, RemoveLabels
  <2> QED
    BY <2>1, <2>2
<1>6. ASSUME NEW q \in Procs \ {p}, Awake(q)
      PROVE  /\ call[q].op \in {"push", "peek", "pop"}
             /\ {r.op, call[q].op} \notin apart
             /\ r.op # "destroy"
  <2>1. call[q].op \in {"push", "peek", "pop"}
    BY <1>5, <1>6 DEF Awake, LabelInv, LabelOK
  <2>2. {r.op, call[q].op} \notin apart
    BY <1>2, <1>6 DEF MayStart, Awake
  <2>3. r.op # "destroy"
    BY <1>2, <1>3, <1>6 DEF Awake
  <2> QED
    BY <2>1, <2>2, <2>3
<1>7. ASSUME NEW q \in Procs \ {p}, Awake(q)
      PROVE  /\ PushesWithPeeks => r.op \in {"push", "peek"} /\ call[q].op \in {"push", "peek"}
             /\ ~ PushesWithPeeks =>
                  \/ r.op = "peek" /\ call[q].op \in {"peek", "pop"}
                  \/ r.op = "pop" /\ call[q].op = "peek"
  <2>1. CASE PushesWithPeeks
    <3>1. {"push", "pop"} \in apart /\ {"pop", "peek"} \in apart /\ {"pop"} \in apart
      BY <2>1 DEF PushesWithPeeks
    <3>2. {"pop", "push"} \in apart /\ {"peek", "pop"} \in apart /\ {"pop", "pop"} \in apart
      <4>1. /\ {"pop", "push"} = {"push", "pop"} /\ {"peek", "pop"} = {"pop", "peek"}
            /\ {"pop", "pop"} = {"pop"}
        OBVIOUS
      <4> QED
        BY <3>1, <4>1
    <3> QED
      BY <1>3, <1>6, <1>7, <2>1, <3>1, <3>2
  <2>2. CASE ~ PushesWithPeeks
    <3>1. /\ {"push", "pop"} \in apart /\ {"push", "peek"} \in apart
          /\ {"push"} \in apart /\ {"pop"} \in apart
      BY <1>1, <2>2 DEF PushesWithPeeks, ConventionsKept
    <3>2. /\ {"pop", "push"} \in apart /\ {"peek", "push"} \in apart
          /\ {"push", "push"} \in apart /\ {"pop", "pop"} \in apart
      <4>1. /\ {"pop", "push"} = {"push", "pop"} /\ {"peek", "push"} = {"push", "peek"}
            /\ {"push", "push"} = {"push"} /\ {"pop", "pop"} = {"pop"}
        OBVIOUS
      <4> QED
        BY <3>1, <4>1
    <3> QED
      BY <1>3, <1>6, <1>7, <2>2, <3>1, <3>2
  <2> QED
    BY <2>1, <2>2
<1>8. ASSUME NEW q \in Procs, NEW s \in Procs, q # s, Awake(q)', Awake(s)'
      PROVE  Beside(q, s)'
  <2>1. CASE q = p
    <3>1. Awake(s) /\ s \in Procs \ {p}
      BY <1>4, <1>8, <2>1 DEF Awake
    <3>2. call'[q].op = r.op /\ call'[s].op = call[s].op
      BY <1>4, <2>1, <3>1
    <3> QED
      BY <1>4, <1>7, <3>1, <3>2 DEF Beside
  <2>2. CASE s = p
    <3>1. Awake(q) /\ q \in Procs \ {p}
      BY <1>4, <1>8, <2>2 DEF Awake
    <3>2. call'[s].op = r.op /\ call'[q].op = call[q].op
      BY <1>4, <2>2, <3>1
    <3> QED
      BY <1>4, <1>7, <3>1, <3>2 DEF Beside
  <2>3. CASE q # p /\ s # p
    <3>1. Awake(q) /\ Awake(s)
      BY <1>4, <1>8, <2>3 DEF Awake
    <3>2. Beside(q, s)
      BY <1>8, <3>1 DEF BesideInv
    <3> QED
      BY <1>4, <2>3, <3>2 DEF Beside
  <2> QED
    BY <2>1, <2>2, <2>3
<1>9. ASSUME NEW q \in Procs, NEW s \in Procs, q # s, call'[q].op = "destroy"
      PROVE  pc'[s] = "idle" /\ left'[s] = 0
  <2>1. q = p
    BY <1>4, <1>5, <1>9
  <2> QED
    BY <1>2, <1>3, <1>4, <1>9, <2>1
<1> QED
  BY <1>8, <1>9 DEF BesideInv

LEMMA GoesOnBase ==
  ASSUME TypeInv, LabelInv, MonitorInv, NEW p \in Procs, goes_on(p)
  PROVE  Keeps(p)
<1>1. /\ pc[p] \in {"isin", "look", "scan"} /\ Readable(reg[p].at)
      /\ sets(p, [prev |-> reg[p].at, at |-> mem[reg[p].at].next])
      /\ UNCHANGED <<mem, live, heap, head, size, monitor, pc, call, answer, left, apart>>
  BY DEF goes_on, blocks, list, program
<1>2. reg[p].at \in Room /\ mem[reg[p].at].next \in Room
  <2>1. reg[p] \in RegisterType /\ mem \in [Addresses -> BlockType]
    BY DEF TypeInv
  <2>2. reg[p].at \in Addresses
    BY <1>1, <2>1 DEF Readable, Is, RegisterType, Room
  <2> QED
    BY <2>1, <2>2 DEF Room, BlockType
<1>3. /\ reg' \in [Procs -> RegisterType] /\ \A q \in Procs \ {p} : reg'[q] = reg[q]
  BY <1>1, <1>2, SetsNext DEF RegsAre
<1>4. TypeInv'
  BY <1>1, <1>3 DEF TypeInv
<1>5. LabelInv'
  BY <1>1, <1>3 DEF LabelInv, LabelOK
<1>6. MonitorInv' /\ (BesideInv => BesideInv')
  BY <1>1 DEF MonitorInv, BesideInv, Awake, Beside, PushesWithPeeks
<1> QED
  BY <1>4, <1>5, <1>6 DEF Keeps

LEMMA ReturnBase ==
  ASSUME TypeInv, LabelInv, MonitorInv, NEW p \in Procs, return(p)
  PROVE  Keeps(p)
<1>1. /\ pc[p] = "return" /\ pc' = [pc EXCEPT ![p] = "idle"]
      /\ call' = [call EXCEPT ![p] = NoCall]
      /\ answer' = [answer EXCEPT ![p] = Pending]
      /\ reg' = [reg EXCEPT ![p] = Registers]
      /\ UNCHANGED <<mem, live, heap, head, size, monitor, left, apart>>
  BY DEF return, blocks, list, program
<1>2. /\ reg \in [Procs -> RegisterType] /\ pc \in [Procs -> Labels]
      /\ call \in [Procs -> Requests \cup {NoCall}] /\ answer \in [Procs -> AnswerType]
  BY DEF TypeInv
<1>3. /\ Registers \in RegisterType /\ Pending \in AnswerType /\ "idle" \in Labels
  BY TupleListAssumption DEF Registers, RegisterType, Room, Pending, AnswerType, Labels
<1>4. /\ reg' \in [Procs -> RegisterType] /\ reg'[p] = Registers
      /\ \A q \in Procs \ {p} : reg'[q] = reg[q]
  BY <1>1, <1>2, <1>3
<1>5. /\ pc' \in [Procs -> Labels] /\ pc'[p] = "idle"
      /\ \A q \in Procs \ {p} : pc'[q] = pc[q]
  BY <1>1, <1>2, <1>3
<1>6. /\ call' \in [Procs -> Requests \cup {NoCall}] /\ call'[p] = NoCall
      /\ \A q \in Procs \ {p} : call'[q] = call[q]
  BY <1>1, <1>2
<1>7. answer' \in [Procs -> AnswerType]
  BY <1>1, <1>2, <1>3
<1>8. TypeInv'
  BY <1>1, <1>4, <1>5, <1>6, <1>7 DEF TypeInv
<1>9. LabelInv'
  BY <1>4, <1>5, <1>6 DEF LabelInv, LabelOK, NoCall
<1>10. MonitorInv'
  BY <1>1, <1>5 DEF MonitorInv, MonLabels
<1>11. ASSUME BesideInv PROVE BesideInv'
  <2>1. PushesWithPeeks' <=> PushesWithPeeks
    BY <1>1 DEF PushesWithPeeks
  <2>2. ASSUME NEW q \in Procs, NEW s \in Procs, q # s, Awake(q)', Awake(s)'
        PROVE  Beside(q, s)'
    <3>1. q # p /\ s # p
      BY <1>5, <2>2 DEF Awake
    <3>2. Beside(q, s)
      BY <1>5, <1>11, <2>2, <3>1 DEF Awake, BesideInv
    <3> QED
      BY <1>5, <1>6, <2>1, <3>1, <3>2 DEF Beside
  <2>3. ASSUME NEW q \in Procs, NEW s \in Procs, q # s, call'[q].op = "destroy"
        PROVE  pc'[s] = "idle" /\ left'[s] = 0
    BY <1>1, <1>5, <1>6, <1>11, <2>3 DEF BesideInv, NoCall
  <2> QED
    BY <2>2, <2>3 DEF BesideInv
<1> QED
  BY <1>8, <1>9, <1>10, <1>11 DEF Keeps

BaseInv == TypeInv /\ LabelInv /\ MonitorInv

LEMMA InitBase ==
  ASSUME Init
  PROVE  BaseInv /\ BesideInv
<1>1. /\ mem = [a \in Addresses |-> Fresh] /\ live = {} /\ heap = Nobody
      /\ head = Null /\ size = 0 /\ monitor = Nobody
      /\ pc = [p \in Procs |-> "idle"] /\ call = [p \in Procs |-> NoCall]
      /\ answer = [p \in Procs |-> Pending] /\ reg = [p \in Procs |-> Registers]
      /\ left = Budget /\ apart \in Conventions
  BY DEF Init
<1>2. /\ Registers \in RegisterType /\ Pending \in AnswerType /\ "idle" \in Labels
      /\ Fresh \in BlockType /\ 0 \in 0..(SizeModulus - 1) /\ Null \in Room
  BY TupleListAssumption
     DEF Registers, RegisterType, Room, Pending, AnswerType, Labels, Fresh, BlockType
<1>3. Nobody \notin Procs /\ Budget \in [Procs -> Nat]
  BY TupleListAssumption
<1>4. TypeInv
  BY <1>1, <1>2, <1>3 DEF TypeInv
<1>5. LabelInv /\ MonitorInv /\ BesideInv
  BY <1>1, <1>3
     DEF LabelInv, LabelOK, NoCall, MonitorInv, MonLabels, BesideInv, Awake
<1> QED
  BY <1>4, <1>5 DEF BaseInv

LEMMA NextBase ==
  ASSUME BaseInv, [Next]_vars
  PROVE  BaseInv' /\ (ConventionsKept /\ BesideInv => BesideInv')
<1>1. CASE UNCHANGED vars
  <2>1. UNCHANGED <<mem, live, heap, head, size, monitor, pc, call, answer, reg, left, apart>>
    BY <1>1 DEF vars
  <2> QED
    BY <2>1 DEF BaseInv, TypeInv, LabelInv, LabelOK, MonitorInv, BesideInv, Awake, Beside,
                PushesWithPeeks
<1>2. ASSUME NEW p \in Procs, Run(p)
      PROVE  BaseInv' /\ (ConventionsKept /\ BesideInv => BesideInv')
  <2>1. ASSUME NEW r \in Calls[p], start(p, r)
        PROVE  BaseInv' /\ (ConventionsKept /\ BesideInv => BesideInv')
    BY <2>1, StartBase, StartBeside DEF BaseInv
  <2>2. CASE goes_on(p) \/ Push(p) \/ Peek(p) \/ Remove(p) \/ return(p)
    <3>1. Keeps(p)
      BY <2>2, GoesOnBase, PushBase, PeekBase, RemoveBase, ReturnBase DEF BaseInv
    <3> QED
      BY <3>1 DEF Keeps, BaseInv
  <2> QED
    BY <1>2, <2>1, <2>2 DEF Run
<1> QED
  BY <1>1, <1>2 DEF Next

(* Every variable keeps its type, and a process holds the monitor exactly  *)
(* between insert_into_list_after's or get_from_hash_table's enter and the *)
(* leave or wait that gives it up, whatever the programs run together.     *)
THEOREM ListTypes == Spec => []ListTypeOK
<1>1. Init => BaseInv
  BY InitBase
<1>2. BaseInv /\ [Next]_vars => BaseInv'
  BY NextBase
<1>3. BaseInv => ListTypeOK
  BY DEF BaseInv, TypeInv, MonitorInv, MonLabels, ListTypeOK, Room
<1> QED
  BY <1>1, <1>2, <1>3, PTL DEF Spec

-----------------------------------------------------------------------------
(***************************************************************************)
(* Who runs beside whom.                                                   *)
(***************************************************************************)
RemoverLabels == RemoveLabels \cup {"scan", "popClone", "test"}

LEMMA PushCompany ==
  ASSUME BaseInv, BesideInv, NEW p \in Procs, pc[p] \in PushLabels, NEW q \in Procs \ {p}
  PROVE  /\ pc[q] \notin RemoverLabels /\ call[q].op # "destroy"
         /\ ~ PushesWithPeeks => pc[q] \in {"idle", "wait"}
<1>1. /\ LabelOK(p) /\ LabelOK(q)
      /\ Awake(p)
      /\ call[q].op = "destroy" => pc[p] = "idle"
      /\ Awake(q) => Beside(p, q) /\ Beside(q, p)
  BY DEF BaseInv, LabelInv, BesideInv, Awake, PushLabels
<1>2. call[p].op = "push" /\ pc[p] # "return" /\ pc[p] # "idle"
  BY <1>1 DEF LabelOK, PushLabels, PeekLabels, RemoveLabels
<1>3. pc[q] \in RemoverLabels => call[q].op \in {"pop", "destroy"} /\ Awake(q)
  BY <1>1 DEF LabelOK, PushLabels, PeekLabels, RemoveLabels, RemoverLabels, Awake
<1>4. ~ PushesWithPeeks => ~ Awake(q)
  BY <1>1, <1>2 DEF Beside
<1>5. PushesWithPeeks /\ Awake(q) => call[q].op \in {"push", "peek"}
  BY <1>1 DEF Beside
<1> QED
  BY <1>1, <1>2, <1>3, <1>4, <1>5 DEF Awake

LEMMA RemoverCompany ==
  ASSUME BaseInv, BesideInv, NEW p \in Procs, pc[p] \in RemoverLabels, NEW q \in Procs \ {p}
  PROVE  /\ pc[q] \notin RemoverLabels /\ pc[q] \notin PushLabels
         /\ call[q].op # "destroy"
         /\ PushesWithPeeks => pc[q] \in {"idle", "wait"}
         /\ call[p].op = "destroy" => pc[q] = "idle"
<1>1. /\ LabelOK(p) /\ LabelOK(q)
      /\ Awake(p)
      /\ call[q].op = "destroy" => pc[p] = "idle"
      /\ call[p].op = "destroy" => pc[q] = "idle"
      /\ Awake(q) => Beside(p, q)
  BY DEF BaseInv, LabelInv, BesideInv, Awake, RemoveLabels, RemoverLabels
<1>2. call[p].op \in {"pop", "destroy"} /\ pc[p] # "idle"
  BY <1>1 DEF LabelOK, PushLabels, PeekLabels, RemoveLabels, RemoverLabels
<1>3. /\ pc[q] \in RemoverLabels => call[q].op \in {"pop", "destroy"} /\ Awake(q)
      /\ pc[q] \in PushLabels => call[q].op = "push" /\ pc[q] # "return" /\ Awake(q)
  BY <1>1 DEF LabelOK, PushLabels, PeekLabels, RemoveLabels, RemoverLabels, Awake
<1>4. PushesWithPeeks => ~ Awake(q)
  BY <1>1, <1>2 DEF Beside, Awake
<1>5. Awake(q) => call[q].op = "peek"
  BY <1>1, <1>2 DEF Beside, Awake
<1> QED
  BY <1>1, <1>2, <1>3, <1>4, <1>5 DEF Awake

LEMMA MonitorCompany ==
  ASSUME BaseInv, NEW p \in Procs, pc[p] \in MonLabels, NEW q \in Procs \ {p}
  PROVE  pc[q] \notin MonLabels
BY DEF BaseInv, MonitorInv

(***************************************************************************)
(* What a step of p leaves of the rest.                                    *)
(***************************************************************************)
(* The others are as they were, or wake up. *)
OtherAsBefore(q) ==
  /\ reg'[q] = reg[q] /\ answer'[q] = answer[q] /\ call'[q] = call[q]
  /\ pc'[q] = pc[q] \/ (pc[q] = "wait" /\ pc'[q] = "enter")

LEMMA OtherHeld ==
  ASSUME NEW q, OtherAsBefore(q)
  PROVE  Held(q)' = Held(q)
BY DEF OtherAsBefore, Held

(* What q knows of the list stays true when what it stands at stays.       *)
LEMMA OtherSame ==
  ASSUME NEW q \in Procs, NEW s, NEW n, NEW G, RegInv(q, s, n, G), OtherAsBefore(q),
         mem' = mem, head' = head
  PROVE  RegInv(q, s, n, G)'
<1>1. /\ reg'[q] = reg[q] /\ answer'[q] = answer[q] /\ call'[q] = call[q]
      /\ pc'[q] = pc[q] \/ (pc[q] = "wait" /\ pc'[q] = "enter")
  BY DEF OtherAsBefore
<1>2. /\ \A t : Suits(q, t)' <=> Suits(q, t)
      /\ \A k : Target(q, s, n, k)' <=> Target(q, s, n, k)
      /\ \A a : Value(a)' = Value(a)
      /\ \A a, k : Is(a, k)' <=> Is(a, k)
  BY <1>1 DEF Suits, Target, Value, Is
<1>3. CASE pc'[q] = pc[q]
  BY <1>1, <1>2, <1>3 DEF RegInv
<1>4. CASE pc[q] = "wait" /\ pc'[q] = "enter"
  BY <1>1, <1>2, <1>4 DEF RegInv
<1> QED
  BY <1>1, <1>3, <1>4

LEMMA OtherElsewhere ==
  ASSUME NEW q \in Procs, NEW s, NEW n, NEW G, NEW z, NEW m, NEW H,
         RegInv(q, s, n, G), OtherAsBefore(q),
         pc[q] \notin RemoverLabels, call[q].op # "destroy",
         pc[q] = "isin" => Elems(s, n) \subseteq Elems(z, m),
         pc[q] \in {"look", "getClone"} => G \subseteq H,
         pc[q] = "getClone" => Value(reg[q].at)' = Value(reg[q].at),
         pc[q] \in {"insertLink", "insertHead"} => mem'[reg[q].data] = mem[reg[q].data],
         pc[q] = "insertHead" => mem'[reg[q].new] = mem[reg[q].new] /\ head' = head
  PROVE  RegInv(q, z, m, H)'
<1>1. /\ reg'[q] = reg[q] /\ answer'[q] = answer[q] /\ call'[q] = call[q]
      /\ pc'[q] = pc[q] \/ (pc[q] = "wait" /\ pc'[q] = "enter")
  BY DEF OtherAsBefore
<1>2. \A t : Suits(q, t)' <=> Suits(q, t)
  BY <1>1 DEF Suits
<1>3. CASE pc'[q] = pc[q]
  BY <1>1, <1>2, <1>3 DEF RegInv, RemoverLabels, RemoveLabels
<1>4. CASE pc[q] = "wait" /\ pc'[q] = "enter"
  BY <1>1, <1>2, <1>4 DEF RegInv
<1> QED
  BY <1>1, <1>3, <1>4

LEMMA ChainSame ==
  ASSUME NEW s, NEW n, ChainInv(s, n), mem' = mem, head' = head
  PROVE  ChainInv(s, n)'
BY DEF ChainInv, Is

LEMMA WalkSame ==
  ASSUME NEW s, NEW n, NEW G, WalkInv(s, n, G), mem' = mem, apart' = apart,
         \A q \in Procs : pc'[q] \in PushLabels => pc[q] \in PushLabels
  PROVE  WalkInv(s, n, G)'
BY DEF WalkInv, Readable, Is, PushesWithPeeks

LEMMA HeldSame ==
  ASSUME NEW s, NEW n, HeldInv(s, n), mem' = mem, live' = live, heap' = heap,
         \A q \in Procs : Held(q)' = Held(q)
  PROVE  HeldInv(s, n)'
<1>1. Datas(s, n)' = Datas(s, n)
  BY DEF Datas
<1> HIDE DEF Held
<1> QED
  BY <1>1 DEF HeldInv

LEMMA SizeSame ==
  ASSUME NEW n, SizeInv(n), size' = size,
         \A q \in Procs :
           /\ pc'[q] \in {"grow", "grown"} <=> pc[q] \in {"grow", "grown"}
           /\ pc'[q] \in {"free", "shrink", "shrunk"} <=> pc[q] \in {"free", "shrink", "shrunk"}
           /\ pc'[q] \in {"grown", "shrunk"} => reg'[q].count = size
  PROVE  SizeInv(n)'
BY DEF SizeInv

(* A step of p that leaves the list and the blocks alone.                  *)
LEMMA QuietStep ==
  ASSUME NEW p \in Procs, NEW s, NEW n, NEW G, ShapeInv(s, n, G),
         UNCHANGED <<mem, live, heap, head, size, apart>>,
         \A q \in Procs \ {p} : OtherAsBefore(q),
         Held(p)' = Held(p),
         pc'[p] \in PushLabels => pc[p] \in PushLabels,
         pc'[p] \in {"grow", "grown"} <=> pc[p] \in {"grow", "grown"},
         pc'[p] \in {"free", "shrink", "shrunk"} <=> pc[p] \in {"free", "shrink", "shrunk"},
         pc'[p] \in {"grown", "shrunk"} => reg'[p].count = size,
         RegInv(p, s, n, G)'
  PROVE  ShapeInv(s, n, G)'
<1>1. /\ ChainInv(s, n) /\ WalkInv(s, n, G) /\ HeldInv(s, n) /\ SizeInv(n)
      /\ \A q \in Procs : RegInv(q, s, n, G)
  BY DEF ShapeInv
<1>2. ChainInv(s, n)'
  BY <1>1, ChainSame
<1>3. WalkInv(s, n, G)'
  <2>1. \A q \in Procs : pc'[q] \in PushLabels => pc[q] \in PushLabels
    BY DEF OtherAsBefore, PushLabels
  <2> QED
    BY <1>1, <2>1, WalkSame
<1>4. HeldInv(s, n)'
  <2>1. \A q \in Procs : Held(q)' = Held(q)
    BY OtherHeld
  <2> QED
    BY <1>1, <2>1, HeldSame
<1>5. SizeInv(n)'
  <2>1. ASSUME NEW q \in Procs \ {p}
        PROVE  /\ pc'[q] \in {"grow", "grown"} <=> pc[q] \in {"grow", "grown"}
               /\ pc'[q] \in {"free", "shrink", "shrunk"} <=> pc[q] \in {"free", "shrink", "shrunk"}
               /\ pc'[q] \in {"grown", "shrunk"} => reg'[q].count = size
    BY <1>1 DEF OtherAsBefore, SizeInv
  <2> QED
    BY <1>1, <2>1, SizeSame
<1>6. ASSUME NEW q \in Procs PROVE RegInv(q, s, n, G)'
  <2>1. CASE q = p
    BY <2>1
  <2>2. CASE q # p
    BY <1>1, <2>2, OtherSame
  <2> QED
    BY <2>1, <2>2
<1> QED
  BY <1>2, <1>3, <1>4, <1>5, <1>6 DEF ShapeInv

-----------------------------------------------------------------------------
(***************************************************************************)
(* The steps of the calls.                                                 *)
(***************************************************************************)
(* What the list's shape says of p's registers, by name.                   *)
LEMMA ShapeParts ==
  ASSUME NEW s, NEW n, NEW G, ShapeInv(s, n, G), NEW p \in Procs
  PROVE  /\ ChainInv(s, n) /\ WalkInv(s, n, G) /\ HeldInv(s, n) /\ SizeInv(n)
         /\ RegInv(p, s, n, G)
BY DEF ShapeInv

LEMMA MoveOthers ==
  ASSUME NEW p \in Procs, NEW from, NEW to, Moves(p, from, to),
         \A q \in Procs \ {p} : reg'[q] = reg[q] /\ answer'[q] = answer[q]
  PROVE  \A q \in Procs \ {p} : OtherAsBefore(q)
BY DEF Moves, OtherAsBefore

(* At the head, a walk is in the list.                                     *)
LEMMA HeadIn ==
  ASSUME NEW s, NEW n, NEW G, ChainInv(s, n), WalkInv(s, n, G)
  PROVE  head \in Elems(s, n) \cup {Null} /\ head \in G \cup {Null}
BY DEF ChainInv, WalkInv, At, Elems

LEMMA PeekShape ==
  ASSUME BaseInv, NEW p \in Procs, Peek(p), NEW s, NEW n, NEW G, ShapeInv(s, n, G)
  PROVE  ShapeInv(s, n, G)'
<1>1. /\ ChainInv(s, n) /\ WalkInv(s, n, G) /\ RegInv(p, s, n, G)
  BY ShapeParts
<1>2. TypeInv /\ LabelOK(p)
  BY DEF BaseInv, LabelInv
<1>3. Null = 0 /\ 0 \notin Addresses
  BY TupleListAssumption DEF Null
<1>a. CASE get_enter(p)
  <2>1. Moves(p, "enter", "look")
    BY <1>2, <1>a, MoveMoves DEF get_enter, Labels
  <2>2. /\ UNCHANGED <<mem, live, heap, head, size, answer>>
        /\ sets(p, [at |-> head])
    BY <1>a DEF get_enter, blocks
  <2>3. /\ \A q \in Procs \ {p} : reg'[q] = reg[q]
        /\ reg'[p].at = head
    BY <1>2, <2>2, SetsAt DEF RegsAre, TypeInv
  <2>4. RegInv(p, s, n, G)'
    <3>1. pc'[p] = "look" /\ call' = call /\ answer' = answer /\ call[p].op = "peek"
      BY <1>2, <2>1, <2>2
         DEF Moves, LabelOK, PushLabels, PeekLabels, RemoveLabels
    <3>2. reg'[p].at \in G \cup {Null}
      BY <1>1, <2>3, HeadIn
    <3> QED
      BY <1>1, <3>1, <3>2 DEF RegInv, Suits
  <2>5. UNCHANGED <<mem, live, heap, head, size, apart>> /\ pc[p] = "enter" /\ pc'[p] = "look"
    BY <2>1, <2>2 DEF Moves
  <2>6. Held(p)' = Held(p)
    BY <2>5 DEF Held
  <2>7. \A q \in Procs \ {p} : OtherAsBefore(q)
    BY <2>1, <2>2, <2>3, MoveOthers
  <2> QED
    BY <2>4, <2>5, <2>6, <2>7, QuietStep DEF PushLabels
<1>b. CASE get_wait(p)
  <2>1. Moves(p, "look", "wait")
    BY <1>2, <1>b, MoveMoves DEF get_wait, Labels
  <2>2. UNCHANGED <<mem, live, heap, head, size, answer, reg>>
    BY <1>b DEF get_wait, blocks
  <2>4. RegInv(p, s, n, G)'
    <3>1. pc'[p] = "wait" /\ call' = call /\ answer' = answer /\ call[p].op = "peek"
      BY <1>2, <2>1, <2>2
         DEF Moves, LabelOK, PushLabels, PeekLabels, RemoveLabels
    <3> QED
      BY <1>1, <3>1 DEF RegInv, Suits
  <2>5. UNCHANGED <<mem, live, heap, head, size, apart>> /\ pc[p] = "look" /\ pc'[p] = "wait"
    BY <2>1, <2>2 DEF Moves
  <2>6. Held(p)' = Held(p)
    BY <2>5 DEF Held
  <2>7. \A q \in Procs \ {p} : OtherAsBefore(q)
    BY <2>1, <2>2, MoveOthers
  <2> QED
    BY <2>4, <2>5, <2>6, <2>7, QuietStep DEF PushLabels
<1>c. CASE get_match(p)
  <2>1. Moves(p, "look", "getClone")
    BY <1>2, <1>c, MoveMoves DEF get_match, Labels
  <2>2. UNCHANGED <<mem, live, heap, head, size, answer, reg>> /\ at_match(p)
    BY <1>c DEF get_match, blocks, list
  <2>4. RegInv(p, s, n, G)'
    <3>1. pc[p] = "look" /\ pc'[p] = "getClone" /\ call' = call /\ call[p].op = "peek"
      BY <1>2, <2>1, <2>2
         DEF Moves, LabelOK, PushLabels, PeekLabels, RemoveLabels
    <3>2. reg'[p].at \in G
      BY <1>1, <2>2, <3>1 DEF RegInv, at_match, Readable, Is
    <3>3. Suits(p, Value(reg[p].at))'
      BY <2>2, <3>1 DEF Suits, at_match, Wants, Value
    <3> QED
      BY <1>1, <2>2, <3>1, <3>2, <3>3 DEF RegInv, Suits
  <2>5. UNCHANGED <<mem, live, heap, head, size, apart>> /\ pc[p] = "look" /\ pc'[p] = "getClone"
    BY <2>1, <2>2 DEF Moves
  <2>6. Held(p)' = Held(p)
    BY <2>5 DEF Held
  <2>7. \A q \in Procs \ {p} : OtherAsBefore(q)
    BY <2>1, <2>2, MoveOthers
  <2> QED
    BY <2>4, <2>5, <2>6, <2>7, QuietStep DEF PushLabels
<1>d. CASE get_clone(p)
  <2>1. Moves(p, "getClone", "signal")
    BY <1>2, <1>d, MoveMoves DEF get_clone, Labels
  <2>2. /\ UNCHANGED <<mem, live, heap, head, size, reg>>
        /\ Readable(reg[p].at) /\ answers(p, 0, Value(reg[p].at))
    BY <1>d DEF get_clone, blocks, list
  <2>3. /\ answer'[p].tuple = Value(reg[p].at)
        /\ \A q \in Procs \ {p} : answer'[q] = answer[q]
    BY <1>2, <2>2 DEF answers, TypeInv
  <2>4. RegInv(p, s, n, G)'
    <3>1. pc[p] = "getClone" /\ pc'[p] = "signal" /\ call' = call /\ call[p].op = "peek"
      BY <1>2, <2>1, <2>2
         DEF Moves, LabelOK, PushLabels, PeekLabels, RemoveLabels
    <3>2. Suits(p, answer[p].tuple)'
      BY <1>1, <2>3, <3>1 DEF RegInv, Suits
    <3> QED
      BY <1>1, <3>1, <3>2 DEF RegInv
  <2>5. UNCHANGED <<mem, live, heap, head, size, apart>> /\ pc[p] = "getClone" /\ pc'[p] = "signal"
    BY <2>1, <2>2 DEF Moves
  <2>6. Held(p)' = Held(p)
    BY <2>5 DEF Held
  <2>7. \A q \in Procs \ {p} : OtherAsBefore(q)
    BY <2>1, <2>2, <2>3, MoveOthers
  <2> QED
    BY <2>4, <2>5, <2>6, <2>7, QuietStep DEF PushLabels
<1>e. CASE get_signal(p)
  <2>1. PICK woken \in SUBSET {q \in Procs : pc[q] = "wait"} :
          pc' = [q \in Procs |-> IF q = p THEN "return"
                                 ELSE IF q \in woken THEN "enter" ELSE pc[q]]
    BY <1>e DEF get_signal
  <2>2. /\ pc[p] = "signal"
        /\ UNCHANGED <<mem, live, heap, head, size, call, answer, reg, apart>>
    BY <1>e DEF get_signal, blocks, program
  <2>3. pc'[p] = "return"
    BY <2>1
  <2>4. RegInv(p, s, n, G)'
    <3>1. call[p].op = "peek"
      BY <1>2, <2>2 DEF LabelOK, PushLabels, PeekLabels, RemoveLabels
    <3> QED
      BY <1>1, <2>2, <2>3, <3>1 DEF RegInv, Suits
  <2>6. Held(p)' = Held(p)
    BY <2>2, <2>3 DEF Held
  <2>7. \A q \in Procs \ {p} : OtherAsBefore(q)
    BY <2>1, <2>2 DEF OtherAsBefore
  <2> QED
    BY <2>2, <2>3, <2>4, <2>6, <2>7, QuietStep DEF PushLabels
<1> QED
  BY <1>a, <1>b, <1>c, <1>d, <1>e DEF Peek

(* Elements are blocks, and so are the tuples behind them.                 *)
LEMMA ChainBlocks ==
  ASSUME TypeInv, NEW s, NEW n, ChainInv(s, n)
  PROVE  /\ \A i \in 1..n : /\ s[i] \in Addresses /\ s[i] # Null
                            /\ mem[s[i]].data \in Addresses /\ mem[s[i]].data # Null
                            /\ mem[s[i]].data \notin Elems(s, n) /\ s[i] \notin Datas(s, n)
         /\ Elems(s, n) \subseteq Addresses /\ Datas(s, n) \subseteq Addresses
<1>1. /\ n \in Nat /\ s \in [1..n -> Addresses]
      /\ \A i \in 1..n : mem[s[i]].kind = "element"
      /\ \A i \in 1..n : mem[s[i]].data # Null /\ mem[mem[s[i]].data].kind = "tuple"
  BY DEF ChainInv, Is
<1>2. \A i \in 1..n : s[i] \in Addresses /\ s[i] # Null
  BY <1>1, TupleListAssumption DEF Null
<1>3. \A i \in 1..n : mem[s[i]].data \in Addresses
  BY <1>1, <1>2 DEF TypeInv, BlockType, Room
<1>4. \A i, j \in 1..n : mem[s[i]].data # s[j]
  BY <1>1
<1> QED
  BY <1>1, <1>2, <1>3, <1>4 DEF Elems, Datas

(* A write to a block that is neither an element nor behind one.           *)
LEMMA WriteElsewhere ==
  ASSUME TypeInv, NEW s, NEW n, NEW G, ChainInv(s, n), WalkInv(s, n, G), G = Elems(s, n),
         NEW b, b \notin Elems(s, n), b \notin Datas(s, n),
         \A x \in Addresses \ {b} : mem'[x] = mem[x], head' = head, apart' = apart,
         \A q \in Procs : pc'[q] \in PushLabels => pc[q] \in PushLabels
  PROVE  /\ ChainInv(s, n)' /\ WalkInv(s, n, G)' /\ Datas(s, n)' = Datas(s, n)
         /\ \A x \in G : Value(x)' = Value(x)
<1>1. /\ n \in Nat /\ s \in [1..n -> Addresses]
      /\ \A i, j \in 1..n : s[i] = s[j] => i = j
      /\ head = At(s, n, 1)
      /\ \A i \in 1..n : mem[s[i]].kind = "element" /\ mem[s[i]].next = At(s, n, i + 1)
      /\ \A i \in 1..n : mem[s[i]].data # Null /\ mem[mem[s[i]].data].kind = "tuple"
      /\ \A i, j \in 1..n : mem[s[i]].data = mem[s[j]].data => i = j
  BY DEF ChainInv, Is
<1>2. \A i \in 1..n : s[i] \in Addresses /\ s[i] # b /\ mem[s[i]].data \in Addresses
                      /\ mem[s[i]].data # b
  BY ChainBlocks DEF Elems, Datas
<1>3. \A i \in 1..n : mem'[s[i]] = mem[s[i]] /\ mem'[mem[s[i]].data] = mem[mem[s[i]].data]
  BY <1>2
<1>4. ChainInv(s, n)'
  <2>1. \A i \in 1..n : mem'[s[i]].kind = "element" /\ mem'[s[i]].next = At(s, n, i + 1)
    BY <1>1, <1>3
  <2>2. \A i \in 1..n : Is(mem[s[i]].data, "tuple")'
    BY <1>1, <1>3 DEF Is
  <2>3. \A i, j \in 1..n : mem'[s[i]].data = mem'[s[j]].data => i = j
    BY <1>1, <1>3
  <2> QED
    BY <1>1, <2>1, <2>2, <2>3 DEF ChainInv
<1>5. Datas(s, n)' = Datas(s, n)
  BY <1>3 DEF Datas
<1>6. \A x \in G : \E i \in 1..n : x = s[i]
  BY DEF Elems
<1>7. \A x \in G : mem'[x] = mem[x] /\ mem'[mem[x].data] = mem[mem[x].data]
  BY <1>3, <1>6
<1>8. \A x \in G : Value(x)' = Value(x)
  BY <1>7 DEF Value
<1>9. WalkInv(s, n, G)'
  <2>1. \A x \in G : Readable(x)' /\ mem'[x].next \in G \cup {Null}
    BY <1>7 DEF WalkInv, Readable, Is
  <2> QED
    BY <2>1 DEF WalkInv, PushesWithPeeks
<1> QED
  BY <1>4, <1>5, <1>8, <1>9

LEMMA SizeAlone ==
  ASSUME NEW m, NEW p \in Procs,
         \A q \in Procs \ {p} : pc'[q] \notin {"grow", "grown", "free", "shrink", "shrunk"},
         pc'[p] \in {"grow", "grown"} => size' = m - 1,
         pc'[p] \in {"free", "shrink", "shrunk"} => size' = m + 1,
         pc'[p] \notin {"grow", "grown", "free", "shrink", "shrunk"} => size' = m,
         pc'[p] \in {"grown", "shrunk"} => reg'[p].count = size'
  PROVE  SizeInv(m)'
BY DEF SizeInv

(* A push that is in the monitor counts alone.                             *)
LEMMA PushCounts ==
  ASSUME BaseInv, BesideInv, NEW p \in Procs, pc[p] \in PushLabels \cap MonLabels,
         NEW q \in Procs \ {p}, OtherAsBefore(q)
  PROVE  pc'[q] \notin {"grow", "grown", "free", "shrink", "shrunk"}
BY PushCompany, MonitorCompany DEF OtherAsBefore, MonLabels, RemoverLabels, RemoveLabels

LEMMA PushShapeQuiet ==
  ASSUME BaseInv, NEW p \in Procs, NEW s, NEW n, NEW G, ShapeInv(s, n, G),
         is_in(p) \/ insert_enter(p) \/ grow_read(p) \/ put_leave(p) \/ put_broadcast(p)
  PROVE  ShapeInv(s, n, G)'
<1>1. /\ ChainInv(s, n) /\ WalkInv(s, n, G) /\ RegInv(p, s, n, G)
  BY ShapeParts
<1>2. TypeInv /\ LabelOK(p)
  BY DEF BaseInv, LabelInv
<1>a. CASE is_in(p)
  <2>1. Moves(p, "isin", "return")
    BY <1>2, <1>a, MoveMoves DEF is_in, Labels
  <2>2. /\ UNCHANGED <<mem, live, heap, head, size, reg>>
        /\ answers(p, 1, NoValue)
    BY <1>a DEF is_in, blocks, list
  <2>3. \A q \in Procs \ {p} : answer'[q] = answer[q]
    BY <1>2, <2>2 DEF answers, TypeInv
  <2>4. UNCHANGED <<mem, live, heap, head, size, apart>> /\ pc[p] = "isin" /\ pc'[p] = "return"
    BY <2>1, <2>2 DEF Moves
  <2>5. RegInv(p, s, n, G)'
    <3>1. call' = call /\ call[p].op = "push"
      BY <1>2, <2>1
         DEF Moves, LabelOK, PushLabels, PeekLabels, RemoveLabels
    <3> QED
      BY <2>4, <3>1 DEF RegInv
  <2>6. Held(p)' = Held(p)
    BY <2>4 DEF Held
  <2>7. \A q \in Procs \ {p} : OtherAsBefore(q)
    BY <2>1, <2>2, <2>3, MoveOthers
  <2> QED
    BY <2>4, <2>5, <2>6, <2>7, QuietStep DEF PushLabels
<1>b. CASE insert_enter(p)
  <2>1. Moves(p, "insertEnter", "insertClone")
    BY <1>2, <1>b, MoveMoves DEF insert_enter, Labels
  <2>2. UNCHANGED <<mem, live, heap, head, size, answer, reg>>
    BY <1>b DEF insert_enter, blocks
  <2>4. /\ UNCHANGED <<mem, live, heap, head, size, apart>>
        /\ pc[p] = "insertEnter" /\ pc'[p] = "insertClone"
    BY <2>1, <2>2 DEF Moves
  <2>5. RegInv(p, s, n, G)'
    <3>1. call' = call /\ call[p].op = "push"
      BY <1>2, <2>1
         DEF Moves, LabelOK, PushLabels, PeekLabels, RemoveLabels
    <3> QED
      BY <1>1, <2>2, <2>4, <3>1 DEF RegInv
  <2>6. Held(p)' = Held(p)
    BY <2>2, <2>4 DEF Held
  <2>7. \A q \in Procs \ {p} : OtherAsBefore(q)
    BY <2>1, <2>2, MoveOthers
  <2> QED
    BY <2>4, <2>5, <2>6, <2>7, QuietStep DEF PushLabels
<1>c. CASE grow_read(p)
  <2>1. Moves(p, "grow", "grown")
    BY <1>2, <1>c, MoveMoves DEF grow_read, Labels
  <2>2. /\ UNCHANGED <<mem, live, heap, head, size, answer>>
        /\ sets(p, [count |-> size])
    BY <1>c DEF grow_read, blocks, list
  <2>3. /\ \A q \in Procs \ {p} : reg'[q] = reg[q]
        /\ reg'[p].count = size
    BY <1>2, <2>2, SetsCount DEF RegsAre, TypeInv
  <2>4. /\ UNCHANGED <<mem, live, heap, head, size, apart>>
        /\ pc[p] = "grow" /\ pc'[p] = "grown"
    BY <2>1, <2>2 DEF Moves
  <2>5. RegInv(p, s, n, G)'
    <3>1. call' = call /\ call[p].op = "push"
      BY <1>2, <2>1
         DEF Moves, LabelOK, PushLabels, PeekLabels, RemoveLabels
    <3> QED
      BY <1>1, <2>2, <2>4, <3>1 DEF RegInv
  <2>6. Held(p)' = Held(p)
    BY <2>4 DEF Held
  <2>7. \A q \in Procs \ {p} : OtherAsBefore(q)
    BY <2>1, <2>2, <2>3, MoveOthers
  <2> QED
    BY <2>3, <2>4, <2>5, <2>6, <2>7, QuietStep DEF PushLabels
<1>d. CASE put_leave(p)
  <2>1. Moves(p, "leave", "broadcast")
    BY <1>2, <1>d, MoveMoves DEF put_leave, Labels
  <2>2. UNCHANGED <<mem, live, heap, head, size, answer, reg>>
    BY <1>d DEF put_leave, blocks
  <2>4. /\ UNCHANGED <<mem, live, heap, head, size, apart>>
        /\ pc[p] = "leave" /\ pc'[p] = "broadcast"
    BY <2>1, <2>2 DEF Moves
  <2>5. RegInv(p, s, n, G)'
    <3>1. call' = call /\ call[p].op = "push"
      BY <1>2, <2>1
         DEF Moves, LabelOK, PushLabels, PeekLabels, RemoveLabels
    <3> QED
      BY <1>1, <2>2, <2>4, <3>1 DEF RegInv
  <2>6. Held(p)' = Held(p)
    BY <2>4 DEF Held
  <2>7. \A q \in Procs \ {p} : OtherAsBefore(q)
    BY <2>1, <2>2, MoveOthers
  <2> QED
    BY <2>4, <2>5, <2>6, <2>7, QuietStep DEF PushLabels
<1>e. CASE put_broadcast(p)
  <2>1. /\ pc[p] = "broadcast"
        /\ pc' = [q \in Procs |-> IF q = p THEN "return"
                                  ELSE IF pc[q] = "wait" THEN "enter" ELSE pc[q]]
        /\ UNCHANGED <<mem, live, heap, head, size, call, reg, apart>>
        /\ answers(p, 0, NoValue)
    BY <1>e DEF put_broadcast, blocks, list, program
  <2>2. pc'[p] = "return"
    BY <2>1
  <2>3. \A q \in Procs \ {p} : answer'[q] = answer[q]
    BY <1>2, <2>1 DEF answers, TypeInv
  <2>5. RegInv(p, s, n, G)'
    <3>1. call[p].op = "push"
      BY <1>2, <2>1 DEF LabelOK, PushLabels, PeekLabels, RemoveLabels
    <3> QED
      BY <1>1, <2>1, <2>2, <3>1 DEF RegInv
  <2>6. Held(p)' = Held(p)
    BY <2>1, <2>2 DEF Held
  <2>7. \A q \in Procs \ {p} : OtherAsBefore(q)
    BY <2>1, <2>3 DEF OtherAsBefore
  <2> QED
    BY <2>1, <2>2, <2>5, <2>6, <2>7, QuietStep DEF PushLabels
<1> QED
  BY <1>a, <1>b, <1>c, <1>d, <1>e

(* Blocks are taken from the heap, given back, or change hands. *)
LEMMA HeldTakes ==
  ASSUME NEW s, NEW n, HeldInv(s, n), NEW p \in Procs,
         NEW a \in Addresses, a \notin live, live' = live \cup {a}, heap' = heap,
         Datas(s, n)' = Datas(s, n), Held(p)' = Held(p) \cup {a},
         \A q \in Procs \ {p} : Held(q)' = Held(q)
  PROVE  HeldInv(s, n)'
<1>1. a \notin Elems(s, n) /\ a \notin Datas(s, n) /\ \A q \in Procs : a \notin Held(q)
  BY DEF HeldInv
<1>2. \A b \in Addresses : b \in live' <=>
        b \in Elems(s, n) \/ b \in Datas(s, n)' \/ (\E q \in Procs : b \in Held(q)')
  BY DEF HeldInv
<1>3. ASSUME NEW q \in Procs, NEW b \in Held(q)'
      PROVE  /\ b \in Addresses /\ b \notin Elems(s, n) /\ b \notin Datas(s, n)'
             /\ \A r \in Procs \ {q} : b \notin Held(r)'
  <2>1. CASE q = p
    BY <1>1, <1>3, <2>1 DEF HeldInv
  <2>2. CASE q # p
    BY <1>1, <1>3, <2>2 DEF HeldInv
  <2> QED
    BY <2>1, <2>2
<1> QED
  BY <1>2, <1>3 DEF HeldInv

LEMMA HeldGives ==
  ASSUME NEW s, NEW n, HeldInv(s, n), NEW p \in Procs, NEW a \in Held(p),
         live' = live \ {a}, heap' = heap,
         Datas(s, n)' = Datas(s, n), Held(p)' = Held(p) \ {a},
         \A q \in Procs \ {p} : Held(q)' = Held(q)
  PROVE  HeldInv(s, n)'
<1>1. /\ a \notin Elems(s, n) /\ a \notin Datas(s, n)
      /\ \A q \in Procs \ {p} : a \notin Held(q)
  BY DEF HeldInv
<1>2. \A b \in Addresses : b \in live' <=>
        b \in Elems(s, n) \/ b \in Datas(s, n)' \/ (\E q \in Procs : b \in Held(q)')
  BY <1>1 DEF HeldInv
<1>3. ASSUME NEW q \in Procs, NEW b \in Held(q)'
      PROVE  /\ b \in Addresses /\ b \notin Elems(s, n) /\ b \notin Datas(s, n)'
             /\ \A r \in Procs \ {q} : b \notin Held(r)'
  <2>1. CASE q = p
    BY <1>1, <1>3, <2>1 DEF HeldInv
  <2>2. CASE q # p
    BY <1>1, <1>3, <2>2 DEF HeldInv
  <2> QED
    BY <2>1, <2>2
<1> QED
  BY <1>2, <1>3 DEF HeldInv

LEMMA HeldMoves ==
  ASSUME NEW s, NEW n, NEW z, NEW m, HeldInv(s, n), NEW p \in Procs,
         live' = live, heap' = heap,
         \A a \in Addresses :
           (a \in Elems(s, n) \/ a \in Datas(s, n) \/ a \in Held(p))
             <=> (a \in Elems(z, m) \/ a \in Datas(z, m)' \/ a \in Held(p)'),
         \A a \in Held(p)' :
           a \in Addresses /\ a \notin Elems(z, m) /\ a \notin Datas(z, m)',
         \A q \in Procs \ {p} : Held(q)' = Held(q)
  PROVE  HeldInv(z, m)'
<1>2. \A b \in Addresses : b \in live' <=>
        b \in Elems(z, m) \/ b \in Datas(z, m)' \/ (\E q \in Procs : b \in Held(q)')
  BY DEF HeldInv
<1>3. ASSUME NEW q \in Procs, NEW b \in Held(q)'
      PROVE  /\ b \in Addresses /\ b \notin Elems(z, m) /\ b \notin Datas(z, m)'
             /\ \A r \in Procs \ {q} : b \notin Held(r)'
  <2>1. CASE q = p
    BY <1>3, <2>1 DEF HeldInv
  <2>2. CASE q # p
    <3>1. b \in Addresses /\ b \notin Elems(s, n) /\ b \notin Datas(s, n) /\ b \notin Held(p)
          /\ \A r \in Procs \ {q} : b \notin Held(r)
      BY <1>3, <2>2 DEF HeldInv
    <3> QED
      BY <2>2, <3>1
  <2> QED
    BY <2>1, <2>2
<1> QED
  BY <1>2, <1>3 DEF HeldInv

LEMMA ShapeFrom ==
  ASSUME NEW z, NEW m, NEW H, NEW p \in Procs,
         ChainInv(z, m)', WalkInv(z, m, H)', HeldInv(z, m)', SizeInv(m)',
         RegInv(p, z, m, H)', \A q \in Procs \ {p} : RegInv(q, z, m, H)'
  PROVE  ShapeInv(z, m, H)'
BY DEF ShapeInv

(* Beside a push, the peeks are at elements of the list.                   *)
LEMMA PushWalk ==
  ASSUME NEW s, NEW n, NEW G, WalkInv(s, n, G), NEW p \in Procs, pc[p] \in PushLabels
  PROVE  G = Elems(s, n)
BY DEF WalkInv

LEMMA IsNotInShape ==
  ASSUME BaseInv, NEW p \in Procs, is_not_in(p), NEW s, NEW n, NEW G, ShapeInv(s, n, G)
  PROVE  ShapeInv(s, n, G)'
<1>1. /\ ChainInv(s, n) /\ WalkInv(s, n, G) /\ HeldInv(s, n) /\ SizeInv(n)
      /\ RegInv(p, s, n, G)
  BY ShapeParts
<1>2. TypeInv /\ LabelOK(p)
  BY DEF BaseInv, LabelInv
<1>3. Moves(p, "isin", "insertEnter")
  BY <1>2, MoveMoves DEF is_not_in, Labels
<1>4. PICK a \in Addresses : balloc(a) /\ sets(p, [new |-> a])
  BY DEF is_not_in
<1>5. UNCHANGED <<mem, head, size, answer>>
  BY DEF is_not_in, list
<1>6. (\A q \in Procs \ {p} : reg'[q] = reg[q]) /\ reg'[p].new = a
  BY <1>2, <1>4, SetsNew DEF RegsAre, Room
<1>7. a \notin live /\ live' = live \cup {a} /\ heap' = heap
  BY <1>2, <1>4, BallocFresh
<1>8. \A q \in Procs \ {p} : OtherAsBefore(q)
  BY <1>3, <1>5, <1>6, MoveOthers
<1>9. pc[p] = "isin" /\ pc'[p] = "insertEnter" /\ call' = call /\ apart' = apart
      /\ call[p].op = "push"
  BY <1>2, <1>3 DEF Moves, LabelOK, PushLabels, PeekLabels, RemoveLabels
<1>10. ChainInv(s, n)'
  BY <1>1, <1>5, ChainSame
<1>11. WalkInv(s, n, G)'
  <2>1. \A q \in Procs : pc'[q] \in PushLabels => pc[q] \in PushLabels
    BY <1>8, <1>9 DEF OtherAsBefore, PushLabels
  <2> QED
    BY <1>1, <1>5, <1>9, <2>1, WalkSame
<1>12. HeldInv(s, n)'
  <2>1. Held(p) = {} /\ Held(p)' = {a}
    BY <1>6, <1>9 DEF Held
  <2>2. Datas(s, n)' = Datas(s, n)
    BY <1>5 DEF Datas
  <2>3. \A q \in Procs \ {p} : Held(q)' = Held(q)
    BY <1>8, OtherHeld
  <2>4. Held(p)' = Held(p) \cup {a}
    BY <2>1
  <2> QED
    BY <1>1, <1>7, <2>2, <2>3, <2>4, HeldTakes
<1>13. SizeInv(n)'
  <2>1. ASSUME NEW q \in Procs
        PROVE  /\ pc'[q] \in {"grow", "grown"} <=> pc[q] \in {"grow", "grown"}
               /\ pc'[q] \in {"free", "shrink", "shrunk"} <=> pc[q] \in {"free", "shrink", "shrunk"}
               /\ pc'[q] \in {"grown", "shrunk"} => reg'[q].count = size
    BY <1>1, <1>8, <1>9 DEF OtherAsBefore, SizeInv
  <2> QED
    BY <1>1, <1>5, <2>1, SizeSame
<1>14. RegInv(p, s, n, G)'
  BY <1>6, <1>9 DEF RegInv
<1>15. \A q \in Procs \ {p} : RegInv(q, s, n, G)'
  BY <1>5, <1>8, OtherSame DEF ShapeInv
<1> QED
  BY <1>10, <1>11, <1>12, <1>13, <1>14, <1>15, ShapeFrom

LEMMA InsertCloneShape ==
  ASSUME BaseInv, BesideInv, NEW p \in Procs, insert_clone(p),
         NEW s, NEW n, NEW G, ShapeInv(s, n, G)
  PROVE  ShapeInv(s, n, G)'
<1>1. /\ ChainInv(s, n) /\ WalkInv(s, n, G) /\ HeldInv(s, n) /\ SizeInv(n)
      /\ RegInv(p, s, n, G)
  BY ShapeParts
<1>2. TypeInv /\ LabelOK(p)
  BY DEF BaseInv, LabelInv
<1>3. Moves(p, "insertClone", "insertLink")
  BY <1>2, MoveMoves DEF insert_clone, Labels
<1>4. PICK a \in Addresses :
        /\ balloc(a) /\ mem' = [mem EXCEPT ![a] = Tuple(call[p].arg)]
        /\ sets(p, [data |-> a])
  BY DEF insert_clone
<1>5. UNCHANGED <<head, size, answer>>
  BY DEF insert_clone, list
<1>6. /\ \A q \in Procs \ {p} : reg'[q] = reg[q]
      /\ reg'[p].data = a /\ reg'[p].new = reg[p].new
  BY <1>2, <1>4, SetsData DEF RegsAre, Room
<1>7. a \notin live /\ live' = live \cup {a} /\ heap' = heap
  BY <1>2, <1>4, BallocFresh
<1>8. \A q \in Procs \ {p} : OtherAsBefore(q)
  BY <1>3, <1>5, <1>6, MoveOthers
<1>9. pc[p] = "insertClone" /\ pc'[p] = "insertLink" /\ call' = call /\ apart' = apart
      /\ call[p].op = "push"
  BY <1>2, <1>3 DEF Moves, LabelOK, PushLabels, PeekLabels, RemoveLabels
<1>10. /\ a \notin Elems(s, n) /\ a \notin Datas(s, n) /\ \A q \in Procs : a \notin Held(q)
  BY <1>1, <1>7 DEF HeldInv
<1>11. /\ mem'[a] = Tuple(call[p].arg)
       /\ \A x \in Addresses \ {a} : mem'[x] = mem[x]
  BY <1>2, <1>4 DEF TypeInv
<1>12. pc[p] \in PushLabels /\ G = Elems(s, n)
  BY <1>1, <1>9, PushWalk DEF PushLabels
<1>13. /\ ChainInv(s, n)' /\ WalkInv(s, n, G)' /\ Datas(s, n)' = Datas(s, n)
       /\ \A x \in G : Value(x)' = Value(x)
  <2>1. \A q \in Procs : pc'[q] \in PushLabels => pc[q] \in PushLabels
    BY <1>8, <1>9 DEF OtherAsBefore, PushLabels
  <2> QED
    BY <1>1, <1>2, <1>5, <1>9, <1>10, <1>11, <1>12, <2>1, WriteElsewhere
<1>14. HeldInv(s, n)'
  <2>1. Held(p) = {reg[p].new} /\ Held(p)' = {reg[p].new, a}
    BY <1>6, <1>9 DEF Held
  <2>3. \A q \in Procs \ {p} : Held(q)' = Held(q)
    BY <1>8, OtherHeld
  <2>4. Held(p)' = Held(p) \cup {a}
    BY <2>1
  <2> QED
    BY <1>1, <1>7, <1>13, <2>3, <2>4, HeldTakes
<1>15. SizeInv(n)'
  <2>1. ASSUME NEW q \in Procs
        PROVE  /\ pc'[q] \in {"grow", "grown"} <=> pc[q] \in {"grow", "grown"}
               /\ pc'[q] \in {"free", "shrink", "shrunk"} <=> pc[q] \in {"free", "shrink", "shrunk"}
               /\ pc'[q] \in {"grown", "shrunk"} => reg'[q].count = size
    BY <1>1, <1>8, <1>9 DEF OtherAsBefore, SizeInv
  <2> QED
    BY <1>1, <1>5, <2>1, SizeSame
<1>16. RegInv(p, s, n, G)'
  <2>1. reg[p].new \in Addresses /\ reg[p].new # a
    BY <1>1, <1>9, <1>10 DEF RegInv, Held
  <2> QED
    BY <1>6, <1>9, <1>11, <2>1 DEF RegInv, Tuple
<1>17. ASSUME NEW q \in Procs \ {p} PROVE RegInv(q, s, n, G)'
  <2>1. RegInv(q, s, n, G)
    BY DEF ShapeInv
  <2>2. pc[q] \notin RemoverLabels /\ call[q].op # "destroy"
    BY <1>12, PushCompany
  <2>3. pc[q] = "getClone" => Value(reg[q].at)' = Value(reg[q].at)
    <3>1. OtherAsBefore(q)
      BY <1>8
    <3> QED
      BY <1>13, <2>1, <3>1 DEF RegInv, OtherAsBefore, Value
  <2>4. pc[q] \notin {"insertLink", "insertHead"}
    BY <1>9, MonitorCompany DEF MonLabels
  <2> QED
    BY <1>8, <2>1, <2>2, <2>3, <2>4, OtherElsewhere
<1> QED
  BY <1>13, <1>14, <1>15, <1>16, <1>17, ShapeFrom

LEMMA InsertLinkShape ==
  ASSUME BaseInv, BesideInv, NEW p \in Procs, insert_link(p),
         NEW s, NEW n, NEW G, ShapeInv(s, n, G)
  PROVE  ShapeInv(s, n, G)'
<1> DEFINE b == reg[p].new
<1>1. /\ ChainInv(s, n) /\ WalkInv(s, n, G) /\ HeldInv(s, n) /\ SizeInv(n)
      /\ RegInv(p, s, n, G)
  BY ShapeParts
<1>2. TypeInv /\ LabelOK(p)
  BY DEF BaseInv, LabelInv
<1>3. Moves(p, "insertLink", "insertHead")
  BY <1>2, MoveMoves DEF insert_link, Labels
<1>4. /\ UNCHANGED <<live, heap, head, size, answer, reg>>
      /\ mem' = [mem EXCEPT ![b] = Element(reg[p].data, head)]
  BY DEF insert_link, list
<1>5. \A q \in Procs \ {p} : OtherAsBefore(q)
  BY <1>3, <1>4, MoveOthers
<1>6. pc[p] = "insertLink" /\ pc'[p] = "insertHead" /\ call' = call /\ apart' = apart
      /\ call[p].op = "push"
  BY <1>2, <1>3 DEF Moves, LabelOK, PushLabels, PeekLabels, RemoveLabels
<1>7. /\ b \in Addresses /\ reg[p].data \in Addresses /\ reg[p].data # b
      /\ mem[reg[p].data] = Tuple(call[p].arg)
  BY <1>1, <1>6 DEF RegInv
<1>8. Held(p) = {b, reg[p].data} /\ Held(p)' = Held(p)
  BY <1>4, <1>6 DEF Held
<1>9. /\ b \notin Elems(s, n) /\ b \notin Datas(s, n)
      /\ \A q \in Procs \ {p} : b \notin Held(q)
  BY <1>1, <1>8 DEF HeldInv
<1> HIDE DEF b
<1>10. /\ mem'[b] = Element(reg[p].data, head)
       /\ \A x \in Addresses \ {b} : mem'[x] = mem[x]
  BY <1>2, <1>4, <1>7 DEF TypeInv
<1>11. pc[p] \in PushLabels /\ G = Elems(s, n)
  BY <1>1, <1>6, PushWalk DEF PushLabels
<1>12. /\ ChainInv(s, n)' /\ WalkInv(s, n, G)' /\ Datas(s, n)' = Datas(s, n)
       /\ \A x \in G : Value(x)' = Value(x)
  <2>1. \A q \in Procs : pc'[q] \in PushLabels => pc[q] \in PushLabels
    BY <1>5, <1>6 DEF OtherAsBefore, PushLabels
  <2> QED
    BY <1>1, <1>2, <1>4, <1>6, <1>9, <1>10, <1>11, <2>1, WriteElsewhere
<1>13. HeldInv(s, n)'
  <2>1. \A q \in Procs \ {p} : Held(q)' = Held(q)
    BY <1>5, OtherHeld
  <2>2. \A a \in Held(p)' :
           a \in Addresses /\ a \notin Elems(s, n) /\ a \notin Datas(s, n)'
    BY <1>1, <1>8, <1>12 DEF HeldInv
  <2> QED
    BY <1>1, <1>4, <1>8, <1>12, <2>1, <2>2, HeldMoves
<1>14. SizeInv(n)'
  <2>1. ASSUME NEW q \in Procs
        PROVE  /\ pc'[q] \in {"grow", "grown"} <=> pc[q] \in {"grow", "grown"}
               /\ pc'[q] \in {"free", "shrink", "shrunk"} <=> pc[q] \in {"free", "shrink", "shrunk"}
               /\ pc'[q] \in {"grown", "shrunk"} => reg'[q].count = size
    BY <1>1, <1>5, <1>6 DEF OtherAsBefore, SizeInv
  <2> QED
    BY <1>1, <1>4, <2>1, SizeSame
<1>15. RegInv(p, s, n, G)'
  <2>1. mem'[reg'[p].new] = Element(reg'[p].data, head')
    BY <1>4, <1>10 DEF b
  <2>2. mem'[reg'[p].data] = Tuple(call'[p].arg)
    BY <1>4, <1>6, <1>7, <1>10
  <2>3. reg'[p].new \in Addresses /\ reg'[p].data \in Addresses /\ reg'[p].data # reg'[p].new
    BY <1>4, <1>7 DEF b
  <2> QED
    BY <1>6, <2>1, <2>2, <2>3 DEF RegInv, Tuple, Element
<1>16. ASSUME NEW q \in Procs \ {p} PROVE RegInv(q, s, n, G)'
  <2>1. RegInv(q, s, n, G)
    BY DEF ShapeInv
  <2>2. pc[q] \notin RemoverLabels /\ call[q].op # "destroy"
    BY <1>11, PushCompany
  <2>3. pc[q] = "getClone" => Value(reg[q].at)' = Value(reg[q].at)
    <3>1. OtherAsBefore(q)
      BY <1>5
    <3> QED
      BY <1>12, <2>1, <3>1 DEF RegInv, OtherAsBefore, Value
  <2>4. pc[q] \notin {"insertLink", "insertHead"}
    BY <1>6, MonitorCompany DEF MonLabels
  <2> QED
    BY <1>5, <2>1, <2>2, <2>3, <2>4, OtherElsewhere
<1> QED
  BY <1>12, <1>13, <1>14, <1>15, <1>16, ShapeFrom

LEMMA GrowWriteShape ==
  ASSUME RoomToCount, BaseInv, BesideInv, NEW p \in Procs, grow_write(p),
         NEW s, NEW n, NEW G, ShapeInv(s, n, G), n <= Cardinality(Addresses)
  PROVE  ShapeInv(s, n, G)'
<1>1. /\ ChainInv(s, n) /\ WalkInv(s, n, G) /\ HeldInv(s, n) /\ SizeInv(n)
      /\ RegInv(p, s, n, G)
  BY ShapeParts
<1>2. TypeInv /\ LabelOK(p)
  BY DEF BaseInv, LabelInv
<1>3. Moves(p, "grown", "leave")
  BY <1>2, MoveMoves DEF grow_write, Labels
<1>4. /\ UNCHANGED <<mem, live, heap, head, answer, reg>>
      /\ size' = (reg[p].count + 1) % SizeModulus
  BY DEF grow_write, blocks
<1>5. \A q \in Procs \ {p} : OtherAsBefore(q)
  BY <1>3, <1>4, MoveOthers
<1>6. pc[p] = "grown" /\ pc'[p] = "leave" /\ call' = call /\ apart' = apart
      /\ call[p].op = "push"
  BY <1>2, <1>3 DEF Moves, LabelOK, PushLabels, PeekLabels, RemoveLabels
<1>7. ChainInv(s, n)'
  BY <1>1, <1>4, ChainSame
<1>8. WalkInv(s, n, G)'
  <2>1. \A q \in Procs : pc'[q] \in PushLabels => pc[q] \in PushLabels
    BY <1>5, <1>6 DEF OtherAsBefore, PushLabels
  <2> QED
    BY <1>1, <1>4, <1>6, <2>1, WalkSame
<1>9. HeldInv(s, n)'
  <2>1. \A q \in Procs \ {p} : Held(q)' = Held(q)
    BY <1>5, OtherHeld
  <2>2. Held(p)' = Held(p)
    BY <1>6 DEF Held
  <2> QED
    BY <1>1, <1>4, <2>1, <2>2, HeldSame
<1>10. size' = n
  <2>1. reg[p].count = n - 1 /\ n \in Nat
    BY <1>1, <1>6 DEF SizeInv, ChainInv
  <2>2. Cardinality(Addresses) \in Nat
    BY TupleListAssumption, FS_CardinalityType
  <2>3. n \in 0..(SizeModulus - 1)
    BY <2>1, <2>2, TupleListAssumption DEF RoomToCount
  <2>4. n % SizeModulus = n
    BY <2>3, SizeFits
  <2>5. reg[p].count + 1 = n
    BY <2>1
  <2> QED
    BY <1>4, <2>4, <2>5
<1>11. SizeInv(n)'
  <2>1. \A q \in Procs \ {p} : pc'[q] \notin {"grow", "grown", "free", "shrink", "shrunk"}
    BY <1>5, <1>6, PushCounts DEF PushLabels, MonLabels
  <2> QED
    BY <1>6, <1>10, <2>1, SizeAlone
<1>12. RegInv(p, s, n, G)'
  BY <1>1, <1>4, <1>6 DEF RegInv
<1>13. \A q \in Procs \ {p} : RegInv(q, s, n, G)'
  BY <1>4, <1>5, OtherSame DEF ShapeInv
<1> QED
  BY <1>7, <1>8, <1>9, <1>11, <1>12, <1>13, ShapeFrom

(***************************************************************************)
(* The new element becomes the first of the list.                          *)
(***************************************************************************)
Longer(s, n, b) == [i \in 1..(n + 1) |-> IF i = 1 THEN b ELSE s[i - 1]]

IsLonger(z, m, s, n, b) ==
  /\ m = n + 1 /\ m \in Nat /\ z \in [1..m -> Addresses] /\ z[1] = b
  /\ \A i \in 1..n : i + 1 \in 1..m /\ z[i + 1] = s[i]
  /\ \A i \in 1..m : i = 1 \/ (i - 1 \in 1..n /\ z[i] = s[i - 1])
  /\ Elems(z, m) = Elems(s, n) \cup {b}
  /\ \A i \in Nat \ {0} : At(z, m, i + 1) = At(s, n, i)
  /\ At(z, m, 1) = b

LEMMA LongerIs ==
  ASSUME NEW n \in Nat, NEW s \in [1..n -> Addresses], NEW b \in Addresses
  PROVE  IsLonger(Longer(s, n, b), n + 1, s, n, b)
<1> DEFINE z == Longer(s, n, b)
<1>1. z \in [1..(n + 1) -> Addresses] /\ n + 1 \in Nat
  BY DEF Longer
<1>2. z[1] = b /\ \A i \in 1..(n + 1) : i = 1 \/ (i - 1 \in 1..n /\ z[i] = s[i - 1])
  BY DEF Longer
<1>3. \A i \in 1..n : i + 1 \in 1..(n + 1) /\ z[i + 1] = s[i]
  BY DEF Longer
<1>4. Elems(z, n + 1) = Elems(s, n) \cup {b}
  <2>1. 1 \in 1..(n + 1)
    OBVIOUS
  <2> HIDE DEF z
  <2> QED
    BY <1>2, <1>3, <2>1 DEF Elems
<1>5. \A i \in Nat \ {0} : At(z, n + 1, i + 1) = At(s, n, i)
  <2>1. \A i \in Nat \ {0} : i + 1 \in 1..(n + 1) <=> i \in 1..n
    OBVIOUS
  <2> HIDE DEF z
  <2> QED
    BY <1>3, <2>1 DEF At
<1>6. At(z, n + 1, 1) = b
  BY <1>2 DEF At
<1> QED
  BY <1>1, <1>2, <1>3, <1>4, <1>5, <1>6 DEF IsLonger

(* Where nothing removed is walked on, the walks are in the list.          *)
LEMMA WalkInList ==
  ASSUME NEW z, NEW m, ChainInv(z, m)'
  PROVE  WalkInv(z, m, Elems(z, m))'
<1>1. /\ m \in Nat /\ z \in [1..m -> Addresses]
      /\ \A i \in 1..m : mem'[z[i]].kind = "element" /\ mem'[z[i]].next = At(z, m, i + 1)
      /\ \A i \in 1..m : Is(mem[z[i]].data, "tuple")'
  BY DEF ChainInv
<1>2. Elems(z, m) \subseteq Addresses
  BY <1>1 DEF Elems
<1>3. \A i \in 1..m : At(z, m, i + 1) \in Elems(z, m) \cup {Null}
  BY <1>1 DEF At, Elems
<1>4. \A i \in 1..m : Readable(z[i])' /\ mem'[z[i]].next \in Elems(z, m) \cup {Null}
  <2>1. Null \notin Addresses
    BY TupleListAssumption DEF Null
  <2> QED
    BY <1>1, <1>3, <2>1 DEF Readable, Is
<1>5. \A a \in Elems(z, m) : \E i \in 1..m : a = z[i]
  BY DEF Elems
<1> QED
  BY <1>2, <1>4, <1>5 DEF WalkInv

LEMMA LongerChain ==
  ASSUME NEW s, NEW n, ChainInv(s, n), NEW b \in Addresses, NEW d \in Addresses,
         b \notin Elems(s, n), d \notin Datas(s, n),
         mem[b] = Element(d, head), mem[d].kind = "tuple", mem' = mem, head' = b,
         NEW z, NEW m, IsLonger(z, m, s, n, b)
  PROVE  ChainInv(z, m)' /\ Datas(z, m)' = Datas(s, n) \cup {d}
<1>1. /\ n \in Nat /\ s \in [1..n -> Addresses]
      /\ \A i, j \in 1..n : s[i] = s[j] => i = j
      /\ head = At(s, n, 1)
      /\ \A i \in 1..n : mem[s[i]].kind = "element" /\ mem[s[i]].next = At(s, n, i + 1)
      /\ \A i \in 1..n : Is(mem[s[i]].data, "tuple")
      /\ \A i, j \in 1..n : mem[s[i]].data = mem[s[j]].data => i = j
  BY DEF ChainInv
<1>2. /\ m \in Nat /\ z \in [1..m -> Addresses] /\ z[1] = b
      /\ \A i \in 1..n : i + 1 \in 1..m /\ z[i + 1] = s[i]
      /\ \A i \in 1..m : i = 1 \/ (i - 1 \in 1..n /\ z[i] = s[i - 1])
      /\ \A i \in Nat \ {0} : At(z, m, i + 1) = At(s, n, i)
      /\ At(z, m, 1) = b
  BY DEF IsLonger
<1>3. mem[b].kind = "element" /\ mem[b].data = d /\ mem[b].next = head
      /\ mem[d].kind = "tuple" /\ d # Null
  BY TupleListAssumption DEF Element, Null
<1>4. \A i \in 1..m : mem[z[i]].kind = "element" /\ mem[z[i]].next = At(z, m, i + 1)
  <2>1. ASSUME NEW i \in 1..m, i = 1
        PROVE  mem[z[i]].kind = "element" /\ mem[z[i]].next = At(z, m, i + 1)
    <3>1. At(z, m, 1 + 1) = At(s, n, 1)
      BY <1>2
    <3> QED
      BY <1>1, <1>2, <1>3, <2>1, <3>1
  <2>2. ASSUME NEW i \in 1..m, i # 1
        PROVE  mem[z[i]].kind = "element" /\ mem[z[i]].next = At(z, m, i + 1)
    <3>1. i - 1 \in 1..n /\ z[i] = s[i - 1] /\ (i - 1) + 1 = i /\ i \in Nat \ {0}
      BY <1>2, <2>2
    <3>2. At(z, m, i + 1) = At(s, n, i)
      BY <1>2, <3>1
    <3>3. mem[s[i - 1]].kind = "element" /\ mem[s[i - 1]].next = At(s, n, (i - 1) + 1)
      BY <1>1, <3>1
    <3> QED
      BY <3>1, <3>2, <3>3
  <2> QED
    BY <2>1, <2>2
<1>5. ASSUME NEW i \in 1..m PROVE Is(mem[z[i]].data, "tuple")
  <2>1. CASE i = 1
    BY <1>2, <1>3, <2>1 DEF Is
  <2>2. CASE i # 1
    BY <1>1, <1>2, <2>2
  <2> QED
    BY <2>1, <2>2
<1>6. \A i \in 1..n : mem[s[i]].data # d /\ s[i] # b
  BY DEF Datas, Elems
<1>7. \A i, j \in 1..m : mem[z[i]].data = mem[z[j]].data => i = j
  <2>1. ASSUME NEW i \in 1..m, NEW j \in 1..m, mem[z[i]].data = mem[z[j]].data
        PROVE  i = j
    <3>1. CASE i = 1 \/ j = 1
      <4>1. ASSUME NEW x \in 1..m, x # 1 PROVE mem[z[x]].data # d
        <5>1. x - 1 \in 1..n /\ z[x] = s[x - 1]
          BY <1>2, <4>1
        <5> QED
          BY <1>6, <5>1
      <4>2. mem[z[1]].data = d
        BY <1>2, <1>3
      <4> QED
        BY <2>1, <3>1, <4>1, <4>2
    <3>2. CASE i # 1 /\ j # 1
      <4>1. i - 1 \in 1..n /\ j - 1 \in 1..n /\ z[i] = s[i - 1] /\ z[j] = s[j - 1]
        BY <1>2, <3>2
      <4>2. i - 1 = j - 1
        BY <1>1, <2>1, <4>1
      <4> QED
        BY <4>2, <1>2
    <3> QED
      BY <3>1, <3>2
  <2> QED
    BY <2>1
<1>8. \A i, j \in 1..m : z[i] = z[j] => i = j
  BY <1>7
<1>9. ChainInv(z, m)'
  <2>1. head' = At(z, m, 1)
    BY <1>2
  <2>2. \A i \in 1..m : mem'[z[i]].kind = "element" /\ mem'[z[i]].next = At(z, m, i + 1)
    BY <1>4
  <2>3. \A i \in 1..m : Is(mem[z[i]].data, "tuple")'
    BY <1>5 DEF Is
  <2>4. \A i, j \in 1..m : mem'[z[i]].data = mem'[z[j]].data => i = j
    BY <1>7
  <2> QED
    BY <1>2, <1>8, <2>1, <2>2, <2>3, <2>4 DEF ChainInv
<1>10. Datas(z, m)' = Datas(s, n) \cup {d}
  <2>1. \A i \in 1..m : mem'[z[i]].data \in Datas(s, n) \cup {d}
    BY <1>2, <1>3 DEF Datas
  <2>2. \A i \in 1..n : \E j \in 1..m : mem'[z[j]].data = mem[s[i]].data
    BY <1>2
  <2>3. \E j \in 1..m : mem'[z[j]].data = d
    <3>1. 1 \in 1..m
      BY <1>1 DEF IsLonger
    <3> QED
      BY <1>2, <1>3, <3>1
  <2> QED
    BY <2>1, <2>2, <2>3 DEF Datas
<1> QED
  BY <1>9, <1>10

LEMMA InsertHeadShape ==
  ASSUME BaseInv, BesideInv, NEW p \in Procs, insert_head(p),
         NEW s, NEW n, NEW G, ShapeInv(s, n, G)
  PROVE  \E m \in Nat : \E z \in [1..m -> Addresses] : \E H \in SUBSET Addresses :
           ShapeInv(z, m, H)'
<1>1. /\ ChainInv(s, n) /\ WalkInv(s, n, G) /\ HeldInv(s, n) /\ SizeInv(n)
      /\ RegInv(p, s, n, G)
  BY ShapeParts
<1>2. TypeInv /\ LabelOK(p)
  BY DEF BaseInv, LabelInv
<1>3. Moves(p, "insertHead", "grow")
  BY <1>2 DEF insert_head, TypeInv, Moves, Labels, program
<1>4. UNCHANGED <<mem, live, heap, size, answer, reg>> /\ head' = reg[p].new
  BY DEF insert_head, blocks
<1>5. \A q \in Procs \ {p} : OtherAsBefore(q)
  BY <1>3, <1>4, MoveOthers
<1>6. pc[p] = "insertHead" /\ pc'[p] = "grow" /\ call' = call /\ apart' = apart
      /\ call[p].op = "push"
  BY <1>2, <1>3 DEF Moves, LabelOK, PushLabels, PeekLabels, RemoveLabels
<1>7. PICK b \in Addresses, d \in Addresses :
        /\ b = reg[p].new /\ d = reg[p].data /\ d # b
        /\ mem[d] = Tuple(call[p].arg) /\ mem[b] = Element(d, head)
  BY <1>1, <1>6 DEF RegInv
<1>8. Held(p) = {b, d} /\ Held(p)' = {}
  BY <1>6, <1>7 DEF Held
<1>9. b \notin Elems(s, n) /\ b \notin Datas(s, n) /\ d \notin Elems(s, n) /\ d \notin Datas(s, n)
  BY <1>1, <1>8 DEF HeldInv
<1> DEFINE z == Longer(s, n, b)
           m == n + 1
           H == Elems(z, m)
<1>10. IsLonger(z, m, s, n, b)
  BY <1>1, LongerIs DEF ChainInv
<1> HIDE DEF z, m, H
<1>11. m \in Nat /\ z \in [1..m -> Addresses] /\ m = n + 1 /\ n \in Nat
  BY <1>1, <1>10 DEF IsLonger, ChainInv
<1>12. H = Elems(z, m) /\ H = Elems(s, n) \cup {b}
  BY <1>10 DEF IsLonger, H
<1>13. ChainInv(z, m)' /\ Datas(z, m)' = Datas(s, n) \cup {d}
  BY <1>1, <1>4, <1>7, <1>9, <1>10, LongerChain DEF Tuple
<1>14. WalkInv(z, m, H)'
  BY <1>12, <1>13, WalkInList
<1>15. HeldInv(z, m)'
  <2>1. \A q \in Procs \ {p} : Held(q)' = Held(q)
    BY <1>5, OtherHeld
  <2>2. \A a \in Addresses :
           (a \in Elems(s, n) \/ a \in Datas(s, n) \/ a \in Held(p))
             <=> (a \in Elems(z, m) \/ a \in Datas(z, m)' \/ a \in Held(p)')
    BY <1>8, <1>12, <1>13
  <2> QED
    BY <1>1, <1>4, <1>8, <2>1, <2>2, HeldMoves
<1>16. pc[p] \in PushLabels /\ pc[p] \in MonLabels /\ G = Elems(s, n)
  BY <1>1, <1>6, PushWalk DEF PushLabels, MonLabels
<1>17. \A q \in Procs \ {p} : pc'[q] \notin {"grow", "grown", "free", "shrink", "shrunk"}
  BY <1>5, <1>16, PushCounts
<1>18. SizeInv(m)'
  <2>1. \A q \in Procs : pc[q] \notin {"grow", "grown", "free", "shrink", "shrunk"}
    BY <1>5, <1>6, <1>17 DEF OtherAsBefore
  <2>2. size = n
    BY <1>1, <2>1 DEF SizeInv
  <2>3. size' = m - 1
    BY <1>4, <1>11, <2>2
  <2> QED
    BY <1>6, <1>17, <2>3, SizeAlone
<1>19. RegInv(p, z, m, H)'
  BY <1>6 DEF RegInv
<1>20. ASSUME NEW q \in Procs \ {p} PROVE RegInv(q, z, m, H)'
  <2>1. RegInv(q, s, n, G) /\ OtherAsBefore(q)
    BY <1>5 DEF ShapeInv
  <2>2. pc[q] \notin RemoverLabels /\ call[q].op # "destroy"
    BY <1>16, PushCompany
  <2>3. pc[q] = "getClone" => Value(reg[q].at)' = Value(reg[q].at)
    BY <1>4, <2>1 DEF OtherAsBefore, Value
  <2>4. pc[q] \notin {"insertLink", "insertHead"}
    BY <1>6, MonitorCompany DEF MonLabels
  <2>5. Elems(s, n) \subseteq Elems(z, m) /\ G \subseteq H
    BY <1>12, <1>16
  <2> QED
    BY <2>1, <2>2, <2>3, <2>4, <2>5, OtherElsewhere
<1>21. H \in SUBSET Addresses
  BY <1>14 DEF WalkInv
<1>22. ShapeInv(z, m, H)'
  BY <1>13, <1>14, <1>15, <1>18, <1>19, <1>20, ShapeFrom
<1> QED
  BY <1>11, <1>21, <1>22

-----------------------------------------------------------------------------
(* The list is no longer than there are blocks.                            *)
LEMMA LengthFits ==
  ASSUME NEW s, NEW n, ChainInv(s, n)
  PROVE  n <= Cardinality(Addresses) /\ Cardinality(Elems(s, n)) = n
<1>1. /\ n \in Nat /\ s \in [1..n -> Addresses]
      /\ \A i, j \in 1..n : s[i] = s[j] => i = j
  BY DEF ChainInv
<1>2. IsFiniteSet(1..n) /\ Cardinality(1..n) = n
  BY <1>1, FS_Interval
<1>3. n <= Cardinality(Addresses)
  <2>1. s \in Injection(1..n, Addresses)
    BY <1>1 DEF Injection, IsInjective
  <2> QED
    BY <1>2, <2>1, FS_Injection, TupleListAssumption
<1>4. Cardinality(Elems(s, n)) = n
  <2>1. s \in [1..n -> Elems(s, n)]
    BY <1>1 DEF Elems
  <2>2. s \in Injection(1..n, Elems(s, n))
    BY <1>1, <2>1 DEF Injection, IsInjective
  <2>3. s \in Surjection(1..n, Elems(s, n))
    BY <1>1, <2>1 DEF Elems, Surjection
  <2>4. ExistsBijection(1..n, Elems(s, n))
    BY <2>2, <2>3 DEF ExistsBijection, Bijection
  <2> QED
    BY <1>2, <2>4, FS_Bijection
<1> QED
  BY <1>3, <1>4

(* A call that removes counts alone.                                       *)
LEMMA RemoverCounts ==
  ASSUME BaseInv, BesideInv, NEW p \in Procs, pc[p] \in RemoverLabels,
         NEW q \in Procs \ {p}
  PROVE  /\ pc[q] \notin {"grow", "grown", "free", "shrink", "shrunk"}
         /\ OtherAsBefore(q)
              => pc'[q] \notin {"grow", "grown", "free", "shrink", "shrunk"}
BY RemoverCompany DEF OtherAsBefore, RemoverLabels, RemoveLabels, PushLabels

LEMMA RemoverSize ==
  ASSUME BaseInv, BesideInv, NEW p \in Procs, NEW n, SizeInv(n),
         pc[p] \in RemoverLabels \ {"free", "shrink", "shrunk"}
  PROVE  size = n
<1>1. \A q \in Procs : pc[q] \notin {"grow", "grown", "free", "shrink", "shrunk"}
  BY RemoverCounts DEF RemoverLabels, RemoveLabels
<1> QED
  BY <1>1 DEF SizeInv

(* What stands behind the element before the k-th.                         *)
LEMMA AfterIs ==
  ASSUME NEW s, NEW n, ChainInv(s, n), NEW p, NEW k, Target(p, s, n, k)
  PROVE  /\ k \in 1..n /\ After(reg[p].prev) = s[k] /\ s[k] # Null /\ s[k] \in Addresses
         /\ mem[s[k]].kind = "element"
         /\ reg[p].prev = Null <=> k = 1
         /\ k # 1 => k - 1 \in 1..n /\ reg[p].prev = s[k - 1]
<1>1. /\ n \in Nat /\ s \in [1..n -> Addresses] /\ head = At(s, n, 1)
      /\ \A i \in 1..n : mem[s[i]].kind = "element" /\ mem[s[i]].next = At(s, n, i + 1)
  BY DEF ChainInv
<1>2. k \in 1..n /\ reg[p].prev = At(s, n, k - 1)
  BY DEF Target
<1>3. Null \notin Addresses /\ s[k] \in Addresses /\ mem[s[k]].kind = "element"
  BY <1>1, <1>2, TupleListAssumption DEF Null
<1>4. CASE k = 1
  <2>1. reg[p].prev = Null
    BY <1>1, <1>2, <1>4 DEF At
  <2>2. head = s[1]
    BY <1>1, <1>2, <1>4 DEF At
  <2> QED
    BY <1>2, <1>3, <1>4, <2>1, <2>2 DEF After
<1>5. CASE k # 1
  <2>1. k - 1 \in 1..n
    BY <1>1, <1>2, <1>5
  <2>2. reg[p].prev = s[k - 1]
    BY <1>2, <2>1 DEF At
  <2>3. s[k - 1] # Null
    BY <1>1, <1>3, <2>1
  <2>4. mem[s[k - 1]].next = At(s, n, (k - 1) + 1) /\ (k - 1) + 1 = k
    BY <1>1, <1>2, <2>1
  <2>5. At(s, n, k) = s[k]
    BY <1>2 DEF At
  <2> QED
    BY <1>2, <1>3, <1>5, <2>1, <2>2, <2>3, <2>4, <2>5 DEF After
<1> QED
  BY <1>4, <1>5

(* A step by which a remover moves on, its registers set anew.             *)
LEMMA RemoverQuiet ==
  ASSUME NEW p \in Procs, NEW s, NEW n, NEW G, ShapeInv(s, n, G), NEW from, NEW to,
         Moves(p, from, to), UNCHANGED <<mem, live, heap, head, size>>,
         from \in {"scan", "remove", "data", "old", "test"}
           /\ to \in {"remove", "data", "old", "unlink", "return"},
         \A q \in Procs \ {p} : reg'[q] = reg[q] /\ answer'[q] = answer[q],
         RegInv(p, s, n, G)'
  PROVE  ShapeInv(s, n, G)'
<1>1. pc[p] = from /\ pc'[p] = to /\ apart' = apart
  BY DEF Moves
<1>2. Held(p)' = Held(p)
  BY <1>1 DEF Held
<1>3. \A q \in Procs \ {p} : OtherAsBefore(q)
  BY MoveOthers
<1> QED
  BY <1>1, <1>2, <1>3, QuietStep DEF PushLabels

(* What pop found in its scan is still there when it removes it.           *)
LEMMA NothingAtTheEnd ==
  ASSUME BaseInv, BesideInv, NEW p \in Procs, remove_nothing(p),
         NEW s, NEW n, NEW G, ShapeInv(s, n, G)
  PROVE  pc[p] = "scan" /\ reg[p].at = Null
<1>1. /\ ChainInv(s, n) /\ SizeInv(n) /\ RegInv(p, s, n, G) /\ n \in Nat
  BY ShapeParts DEF ChainInv
<1>2. /\ pc[p] \in {"scan", "remove", "data"}
      /\ CASE pc[p] = "scan" -> reg[p].at = Null
           [] pc[p] = "remove" -> size = 0
           [] pc[p] = "data" -> reg[p].prev # Null /\ mem[reg[p].prev].next = Null
  BY DEF remove_nothing
<1>3. ASSUME pc[p] = "remove" PROVE FALSE
  <2>1. size = 0
    BY <1>2, <1>3
  <2>2. size = n
    BY <1>1, <1>3, RemoverSize DEF RemoverLabels, RemoveLabels
  <2>3. \E k \in 1..n : TRUE
    BY <1>1, <1>3 DEF RegInv
  <2> QED
    BY <2>1, <2>2, <2>3
<1>4. ASSUME pc[p] = "data" PROVE FALSE
  <2>1. reg[p].prev # Null /\ mem[reg[p].prev].next = Null
    BY <1>2, <1>4
  <2>2. PICK k \in 1..n : Target(p, s, n, k)
    BY <1>1, <1>4 DEF RegInv
  <2> QED
    BY <1>1, <2>1, <2>2, AfterIs DEF After
<1> QED
  BY <1>2, <1>3, <1>4

LEMMA RemoveShapeQuiet ==
  ASSUME BaseInv, BesideInv, NEW p \in Procs, NEW s, NEW n, NEW G, ShapeInv(s, n, G),
         \/ remove_match(p) \/ remove_nothing(p) \/ remove_test(p) \/ remove_data(p)
         \/ remove_old(p) \/ destroy_test(p)
  PROVE  ShapeInv(s, n, G)'
<1>1. /\ ChainInv(s, n) /\ SizeInv(n) /\ RegInv(p, s, n, G)
  BY ShapeParts
<1>2. TypeInv /\ LabelInv /\ LabelOK(p)
  BY DEF BaseInv, LabelInv
<1>3. n \in Nat /\ s \in [1..n -> Addresses] /\ Null \notin Addresses
  BY <1>1, TupleListAssumption DEF ChainInv, Null
<1>a. CASE remove_match(p)
  <2>1. Moves(p, "scan", "remove")
    BY <1>2, <1>a, MoveMoves DEF remove_match, Labels
  <2>2. UNCHANGED <<mem, live, heap, head, size, answer, reg>> /\ at_match(p)
    BY <1>a DEF remove_match, blocks, list
  <2>3. pc[p] = "scan" /\ pc'[p] = "remove" /\ call' = call /\ call[p].op = "pop"
    BY <1>2, <2>1, RemoveOps DEF Moves
  <2>4. RegInv(p, s, n, G)'
    <3>1. PICK k \in 1..(n + 1) : reg[p].prev = At(s, n, k - 1) /\ reg[p].at = At(s, n, k)
      BY <1>1, <2>3 DEF RegInv
    <3>2. reg[p].at # Null
      BY <2>2 DEF at_match, Readable, Is
    <3>3. k \in 1..n /\ reg[p].at = s[k]
      BY <3>1, <3>2 DEF At
    <3>4. Suits(p, Value(s[k]))'
      BY <2>2, <2>3, <3>3 DEF Suits, at_match, Wants, Value
    <3>5. Target(p, s, n, k)'
      BY <2>2, <3>1, <3>3 DEF Target
    <3> QED
      BY <1>1, <2>2, <2>3, <3>3, <3>4, <3>5 DEF RegInv, Suits
  <2> QED
    BY <2>1, <2>2, <2>4, RemoverQuiet
<1>b. CASE remove_nothing(p)
  <2>1. pc[p] \in {"scan", "remove", "data"} /\ Moves(p, pc[p], "return")
    BY <1>2, <1>b, MoveMoves DEF remove_nothing, Labels
  <2>2. /\ UNCHANGED <<mem, live, heap, head, size, reg>>
        /\ answers(p, -1, NoValue)
    BY <1>b DEF remove_nothing, blocks, list
  <2>3. /\ \A q \in Procs \ {p} : answer'[q] = answer[q]
        /\ answer'[p].status = -1
    BY <1>2, <2>2 DEF answers, TypeInv
  <2>4. pc[p] = "scan"
    BY <1>b, NothingAtTheEnd
  <2>5. pc'[p] = "return" /\ call' = call /\ call[p].op = "pop"
    BY <1>2, <2>1, <2>4, RemoveOps DEF Moves
  <2>6. RegInv(p, s, n, G)'
    BY <2>3, <2>5 DEF RegInv
  <2> QED
    BY <2>1, <2>2, <2>3, <2>6, RemoverQuiet
<1>c. CASE remove_test(p)
  <2>1. Moves(p, "remove", "data")
    BY <1>2, <1>c, MoveMoves DEF remove_test, Labels
  <2>2. UNCHANGED <<mem, live, heap, head, size, answer, reg>>
    BY <1>c DEF remove_test, blocks, list
  <2>3. pc[p] = "remove" /\ pc'[p] = "data" /\ call' = call
    BY <2>1 DEF Moves
  <2>4. RegInv(p, s, n, G)'
    <3>1. PICK k \in 1..n :
            /\ Target(p, s, n, k)
            /\ call[p].op = "pop" => reg[p].at = s[k] /\ Suits(p, Value(s[k]))
      BY <1>1, <2>3 DEF RegInv
    <3>2. /\ Target(p, s, n, k)'
          /\ call'[p].op = "pop" => reg'[p].at = s[k] /\ Suits(p, Value(s[k]))'
      BY <2>2, <2>3, <3>1 DEF Target, Suits, Value
    <3>3. call[p].op \in {"peek", "pop"} /\ answer[p].status = 0 => Suits(p, answer[p].tuple)'
      BY <1>1, <2>2, <2>3 DEF RegInv, Suits
    <3> QED
      BY <2>2, <2>3, <3>2, <3>3 DEF RegInv
  <2> QED
    BY <2>1, <2>2, <2>4, RemoverQuiet
<1>d. CASE remove_data(p)
  <2>1. Moves(p, "data", "old")
    BY <1>2, <1>d, MoveMoves DEF remove_data, Labels
  <2>2. /\ UNCHANGED <<mem, live, heap, head, size, answer>>
        /\ sets(p, [at |-> After(reg[p].prev), data |-> mem[After(reg[p].prev)].data])
    BY <1>d DEF remove_data, blocks, list
  <2>3. pc[p] = "data" /\ pc'[p] = "old" /\ call' = call
        /\ call[p].op \in {"pop", "destroy"}
    BY <1>2, <2>1, RemoveOps DEF Moves, RemoveLabels
  <2>4. PICK k \in 1..n :
          /\ Target(p, s, n, k)
          /\ call[p].op = "pop" => reg[p].at = s[k] /\ Suits(p, Value(s[k]))
    BY <1>1, <2>3 DEF RegInv
  <2>5. After(reg[p].prev) = s[k] /\ s[k] \in Addresses
    BY <1>1, <2>4, AfterIs
  <2>6. RegsAre(p, s[k], reg[p].prev, reg[p].new, mem[s[k]].data, reg[p].old, reg[p].count)
    <3>1. s[k] \in Room /\ mem[s[k]].data \in Room
      BY <1>2, <2>5 DEF TypeInv, BlockType, Room
    <3>2. sets(p, [at |-> s[k], data |-> mem[s[k]].data])
      BY <2>2, <2>5
    <3> QED
      BY <1>2, <3>1, <3>2, SetsFound
  <2>7. RegInv(p, s, n, G)'
    <3>1. /\ Target(p, s, n, k)' /\ reg'[p].at = s[k] /\ reg'[p].data = mem'[s[k]].data
          /\ Suits(p, Value(s[k]))'
      BY <2>2, <2>3, <2>4, <2>6 DEF Target, RegsAre, Suits, Value
    <3>3. call[p].op \in {"peek", "pop"} /\ answer[p].status = 0 => Suits(p, answer[p].tuple)'
      BY <1>1, <2>2, <2>3 DEF RegInv, Suits
    <3> QED
      BY <2>2, <2>3, <3>1, <3>3 DEF RegInv
  <2>8. \A q \in Procs \ {p} : reg'[q] = reg[q]
    BY <2>6 DEF RegsAre
  <2> QED
    BY <2>1, <2>2, <2>7, <2>8, RemoverQuiet
<1>e. CASE remove_old(p)
  <2>1. Moves(p, "old", "unlink")
    BY <1>2, <1>e, MoveMoves DEF remove_old, Labels
  <2>2. /\ UNCHANGED <<mem, live, heap, head, size, answer>>
        /\ sets(p, [old |-> After(reg[p].prev)])
    BY <1>e DEF remove_old, blocks, list
  <2>3. pc[p] = "old" /\ pc'[p] = "unlink" /\ call' = call
    BY <2>1 DEF Moves
  <2>4. PICK k \in 1..n :
          /\ Target(p, s, n, k) /\ reg[p].at = s[k] /\ reg[p].data = mem[s[k]].data
          /\ Suits(p, Value(s[k]))
    BY <1>1, <2>3 DEF RegInv
  <2>5. After(reg[p].prev) = s[k] /\ s[k] \in Addresses
    BY <1>1, <2>4, AfterIs
  <2>6. RegsAre(p, reg[p].at, reg[p].prev, reg[p].new, reg[p].data, s[k], reg[p].count)
    BY <1>2, <2>2, <2>5, SetsOld DEF Room
  <2>7. RegInv(p, s, n, G)'
    <3>1. /\ Target(p, s, n, k)' /\ reg'[p].at = s[k] /\ reg'[p].data = mem'[s[k]].data
          /\ Suits(p, Value(s[k]))' /\ reg'[p].old = s[k]
      BY <2>2, <2>3, <2>4, <2>6 DEF Target, RegsAre, Suits, Value
    <3>3. call[p].op \in {"peek", "pop"} /\ answer[p].status = 0 => Suits(p, answer[p].tuple)'
      BY <1>1, <2>2, <2>3 DEF RegInv, Suits
    <3> QED
      BY <2>2, <2>3, <3>1, <3>3 DEF RegInv
  <2>8. \A q \in Procs \ {p} : reg'[q] = reg[q]
    BY <2>6 DEF RegsAre
  <2> QED
    BY <2>1, <2>2, <2>7, <2>8, RemoverQuiet
<1>f. CASE destroy_test(p)
  <2> DEFINE to == IF size > 0 THEN "remove" ELSE "return"
  <2>1. Moves(p, "test", to)
    BY <1>2, <1>f, MoveMoves DEF destroy_test, Labels
  <2>2. /\ UNCHANGED <<mem, live, heap, head, size>>
        /\ reg' = [reg EXCEPT ![p] = Registers]
        /\ IF size > 0 THEN UNCHANGED answer ELSE answers(p, 0, NoValue)
    BY <1>f DEF destroy_test, blocks, list
  <2>3. pc[p] = "test" /\ pc'[p] = to /\ call' = call /\ call[p].op = "destroy"
    BY <1>2, <2>1, RemoveOps DEF Moves
  <2>4. size = n
    BY <1>1, <2>3, RemoverSize DEF RemoverLabels, RemoveLabels
  <2>5. /\ reg'[p] = Registers /\ \A q \in Procs \ {p} : reg'[q] = reg[q]
        /\ \A q \in Procs \ {p} : answer'[q] = answer[q]
    BY <1>2, <2>2 DEF TypeInv, answers
  <2>6. RegInv(p, s, n, G)'
    <3>1. CASE size > 0
      <4>1. 1 \in 1..n /\ Target(p, s, n, 1)'
        <5>1. 1 \in 1..n /\ 1 - 1 \notin 1..n
          BY <1>3, <2>4, <3>1
        <5> QED
          BY <2>5, <5>1 DEF Target, At, Registers
      <4>2. pc'[p] = "remove"
        BY <2>3, <3>1
      <4> QED
        BY <2>3, <4>1, <4>2 DEF RegInv
    <3>2. CASE ~ (size > 0)
      <4>1. pc'[p] = "return" /\ n = 0
        BY <1>3, <2>3, <2>4, <3>2
      <4> QED
        BY <2>3, <4>1 DEF RegInv
    <3> QED
      BY <3>1, <3>2
  <2> QED
    BY <2>1, <2>2, <2>5, <2>6, RemoverQuiet
<1> QED
  BY <1>a, <1>b, <1>c, <1>d, <1>e, <1>f

LEMMA RemoveShapeCopies ==
  ASSUME BaseInv, BesideInv, NEW p \in Procs, NEW s, NEW n, NEW G, ShapeInv(s, n, G),
         shrink_read(p) \/ pop_clone(p)
  PROVE  ShapeInv(s, n, G)'
<1>1. RegInv(p, s, n, G)
  BY ShapeParts
<1>2. TypeInv /\ LabelInv
  BY DEF BaseInv
<1>a. CASE shrink_read(p)
  <2>1. Moves(p, "shrink", "shrunk")
    BY <1>2, <1>a, MoveMoves DEF shrink_read, Labels
  <2>2. /\ UNCHANGED <<mem, live, heap, head, size, answer>>
        /\ sets(p, [count |-> size])
    BY <1>a DEF shrink_read, blocks, list
  <2>3. RegsAre(p, reg[p].at, reg[p].prev, reg[p].new, reg[p].data, reg[p].old, size)
    BY <1>2, <2>2, SetsCount DEF TypeInv
  <2>4. /\ reg'[p].data = reg[p].data /\ reg'[p].count = size
        /\ \A q \in Procs \ {p} : reg'[q] = reg[q]
    BY <2>3 DEF RegsAre
  <2>5. /\ pc[p] = "shrink" /\ pc'[p] = "shrunk" /\ call' = call /\ apart' = apart
        /\ UNCHANGED <<mem, live, heap, head, size>>
    BY <2>1, <2>2 DEF Moves
  <2>6. RegInv(p, s, n, G)'
    BY <1>1, <2>2, <2>4, <2>5 DEF RegInv, Suits, Is
  <2>7. Held(p)' = Held(p)
    BY <2>4, <2>5 DEF Held
  <2>8. \A q \in Procs \ {p} : OtherAsBefore(q)
    BY <2>1, <2>2, <2>4, MoveOthers
  <2> QED
    BY <2>4, <2>5, <2>6, <2>7, <2>8, QuietStep DEF PushLabels
<1>b. CASE pop_clone(p)
  <2>1. Moves(p, "popClone", "destroyTuple")
    BY <1>2, <1>b, MoveMoves DEF pop_clone, Labels
  <2>2. /\ UNCHANGED <<mem, live, heap, head, size, reg>>
        /\ Is(reg[p].data, "tuple") /\ answers(p, 0, mem[reg[p].data].value)
    BY <1>b DEF pop_clone, blocks, list
  <2>3. /\ answer'[p].tuple = mem[reg[p].data].value
        /\ \A q \in Procs \ {p} : answer'[q] = answer[q]
    BY <1>2, <2>2 DEF answers, TypeInv
  <2>5. /\ pc[p] = "popClone" /\ pc'[p] = "destroyTuple" /\ call' = call /\ apart' = apart
        /\ UNCHANGED <<mem, live, heap, head, size>>
    BY <2>1, <2>2 DEF Moves
  <2>6. RegInv(p, s, n, G)'
    <3>1. reg[p].data \in Addresses
      BY <1>2, <2>2 DEF TypeInv, RegisterType, Room, Is
    <3>2. Suits(p, mem[reg[p].data].value)
      BY <1>1, <2>5 DEF RegInv
    <3>3. Suits(p, answer[p].tuple)'
      BY <2>3, <2>5, <3>2 DEF Suits
    <3> QED
      BY <2>2, <2>5, <3>1, <3>3 DEF RegInv
  <2>7. Held(p)' = Held(p)
    BY <2>2, <2>5 DEF Held
  <2>8. \A q \in Procs \ {p} : OtherAsBefore(q)
    BY <2>1, <2>2, <2>3, MoveOthers
  <2> QED
    BY <2>5, <2>6, <2>7, <2>8, QuietStep DEF PushLabels
<1> QED
  BY <1>a, <1>b

(* The two blocks that a pop gives back are its own, so that the heap's    *)
(* semaphore is free again.                                                *)
LEMMA RemoveShapeFrees ==
  ASSUME BaseInv, BesideInv, NEW p \in Procs, NEW s, NEW n, NEW G, ShapeInv(s, n, G),
         remove_free(p) \/ destroy_tuple(p)
  PROVE  ShapeInv(s, n, G)'
<1>1. /\ ChainInv(s, n) /\ WalkInv(s, n, G) /\ HeldInv(s, n) /\ SizeInv(n)
      /\ RegInv(p, s, n, G)
  BY ShapeParts
<1>2. TypeInv /\ LabelInv
  BY DEF BaseInv
<1> DEFINE to == IF call[p].op = "pop" THEN "return" ELSE "test"
<1>3. PICK a : /\ \/ remove_free(p) /\ a = reg[p].old
                  \/ destroy_tuple(p) /\ a = reg[p].data
  OBVIOUS
<1>4. /\ Moves(p, "free", "shrink") \/ Moves(p, "destroyTuple", to)
      /\ UNCHANGED <<head, size, answer, reg>> /\ bfree(p, a)
      /\ Moves(p, "free", "shrink") => a = reg[p].old
      /\ Moves(p, "destroyTuple", to) => a = reg[p].data
  <2>1. CASE remove_free(p) /\ a = reg[p].old
    <3>1. Moves(p, "free", "shrink") /\ pc[p] = "free"
      BY <1>2, <2>1, MoveMoves DEF remove_free, Labels, move
    <3> QED
      BY <2>1, <3>1 DEF remove_free, list, Moves
  <2>2. CASE destroy_tuple(p) /\ a = reg[p].data
    <3>1. Moves(p, "destroyTuple", to) /\ pc[p] = "destroyTuple"
      BY <1>2, <2>2, MoveMoves DEF destroy_tuple, Labels, move
    <3> QED
      BY <2>2, <3>1 DEF destroy_tuple, list, Moves
  <2> QED
    BY <1>3, <2>1, <2>2
<1>5. /\ call' = call /\ apart' = apart
      /\ \/ pc[p] = "free" /\ pc'[p] = "shrink" /\ a = reg[p].old
         \/ pc[p] = "destroyTuple" /\ pc'[p] = to /\ a = reg[p].data
  BY <1>4 DEF Moves
<1>6. \A q \in Procs \ {p} : OtherAsBefore(q)
  BY <1>4, MoveOthers
<1>7. a \in Held(p) /\ Held(p)' = Held(p) \ {a}
  <2>1. CASE pc[p] = "free"
    <3>1. reg[p].old # reg[p].data
      BY <1>1, <2>1 DEF RegInv
    <3> QED
      BY <1>4, <1>5, <2>1, <3>1 DEF Held
  <2>2. CASE pc[p] = "destroyTuple"
    BY <1>4, <1>5, <2>2 DEF Held
  <2> QED
    BY <1>5, <2>1, <2>2
<1>8. a \in live
  BY <1>1, <1>7 DEF HeldInv
<1>9. live' = live \ {a} /\ heap' = heap /\ mem' = mem
  BY <1>4, <1>8 DEF bfree
<1>10. ChainInv(s, n)'
  BY <1>1, <1>4, <1>9, ChainSame
<1>11. WalkInv(s, n, G)'
  <2>1. \A q \in Procs : pc'[q] \in PushLabels => pc[q] \in PushLabels
    BY <1>5, <1>6 DEF OtherAsBefore, PushLabels
  <2> QED
    BY <1>1, <1>5, <1>9, <2>1, WalkSame
<1>12. HeldInv(s, n)'
  <2>1. Datas(s, n)' = Datas(s, n)
    BY <1>9 DEF Datas
  <2>2. \A q \in Procs \ {p} : Held(q)' = Held(q)
    BY <1>6, OtherHeld
  <2> QED
    BY <1>1, <1>7, <1>9, <2>1, <2>2, HeldGives
<1>13. SizeInv(n)'
  <2>1. ASSUME NEW q \in Procs
        PROVE  /\ pc'[q] \in {"grow", "grown"} <=> pc[q] \in {"grow", "grown"}
               /\ pc'[q] \in {"free", "shrink", "shrunk"} <=> pc[q] \in {"free", "shrink", "shrunk"}
               /\ pc'[q] \in {"grown", "shrunk"} => reg'[q].count = size
    BY <1>1, <1>5, <1>6 DEF OtherAsBefore, SizeInv
  <2> QED
    BY <1>1, <1>4, <2>1, SizeSame
<1>14. RegInv(p, s, n, G)'
  <2>1. CASE pc[p] = "free"
    BY <1>1, <1>4, <1>5, <1>9, <2>1 DEF RegInv, Suits, Is
  <2>2. CASE pc[p] = "destroyTuple"
    <3>1. call[p].op \in {"pop", "destroy"}
      BY <1>2, <2>2, RemoveOps DEF RemoveLabels
    <3> QED
      BY <1>1, <1>4, <1>5, <2>2, <3>1 DEF RegInv, Suits
  <2> QED
    BY <1>5, <2>1, <2>2
<1>15. \A q \in Procs \ {p} : RegInv(q, s, n, G)'
  BY <1>4, <1>6, <1>9, OtherSame DEF ShapeInv
<1> QED
  BY <1>10, <1>11, <1>12, <1>13, <1>14, <1>15, ShapeFrom

LEMMA ShrinkWriteShape ==
  ASSUME RoomToCount, BaseInv, BesideInv, NEW p \in Procs, shrink_write(p),
         NEW s, NEW n, NEW G, ShapeInv(s, n, G)
  PROVE  ShapeInv(s, n, G)'
<1>1. /\ ChainInv(s, n) /\ WalkInv(s, n, G) /\ HeldInv(s, n) /\ SizeInv(n)
      /\ RegInv(p, s, n, G)
  BY ShapeParts
<1>2. TypeInv /\ LabelInv
  BY DEF BaseInv
<1> DEFINE to == IF call[p].op = "pop" THEN "popClone" ELSE "destroyTuple"
<1>3. Moves(p, "shrunk", to)
  BY <1>2, MoveMoves DEF shrink_write, Labels
<1>4. /\ UNCHANGED <<mem, live, heap, head, answer, reg>>
      /\ size' = (reg[p].count + SizeModulus - 1) % SizeModulus
  BY DEF shrink_write, blocks
<1>5. \A q \in Procs \ {p} : OtherAsBefore(q)
  BY <1>3, <1>4, MoveOthers
<1>6. pc[p] = "shrunk" /\ pc'[p] = to /\ call' = call /\ apart' = apart
      /\ call[p].op \in {"pop", "destroy"}
  BY <1>2, <1>3, RemoveOps DEF Moves, RemoveLabels
<1>7. ChainInv(s, n)'
  BY <1>1, <1>4, ChainSame
<1>8. WalkInv(s, n, G)'
  <2>1. \A q \in Procs : pc'[q] \in PushLabels => pc[q] \in PushLabels
    BY <1>5, <1>6 DEF OtherAsBefore, PushLabels
  <2> QED
    BY <1>1, <1>4, <1>6, <2>1, WalkSame
<1>9. HeldInv(s, n)'
  <2>1. \A q \in Procs \ {p} : Held(q)' = Held(q)
    BY <1>5, OtherHeld
  <2>2. Held(p)' = Held(p)
    BY <1>4, <1>6 DEF Held
  <2> QED
    BY <1>1, <1>4, <2>1, <2>2, HeldSame
<1>10. size' = n
  <2>1. reg[p].count = n + 1 /\ n \in Nat
    BY <1>1, <1>6 DEF SizeInv, ChainInv
  <2>2. n \in 0..(SizeModulus - 1)
    <3>1. Cardinality(Addresses) \in Nat
      BY TupleListAssumption, FS_CardinalityType
    <3>2. n <= Cardinality(Addresses)
      BY <1>1, LengthFits
    <3> QED
      BY <2>1, <3>1, <3>2, TupleListAssumption DEF RoomToCount
  <2>3. (n + SizeModulus) % SizeModulus = n
    BY <2>2, SizeFits
  <2>4. reg[p].count + SizeModulus - 1 = n + SizeModulus
    BY <2>1, TupleListAssumption
  <2> QED
    BY <1>4, <2>3, <2>4
<1>11. SizeInv(n)'
  <2>1. \A q \in Procs \ {p} : pc'[q] \notin {"grow", "grown", "free", "shrink", "shrunk"}
    BY <1>5, <1>6, RemoverCounts DEF RemoverLabels, RemoveLabels
  <2> QED
    BY <1>6, <1>10, <2>1, SizeAlone
<1>12. RegInv(p, s, n, G)'
  <2>1. Is(reg[p].data, "tuple") /\ Suits(p, mem[reg[p].data].value)
    BY <1>1, <1>6 DEF RegInv
  <2>2. reg[p].data \in Addresses
    BY <1>2, <2>1 DEF TypeInv, RegisterType, Room, Is
  <2> QED
    BY <1>1, <1>4, <1>6, <2>1, <2>2 DEF RegInv, Suits, Is
<1>13. \A q \in Procs \ {p} : RegInv(q, s, n, G)'
  BY <1>4, <1>5, OtherSame DEF ShapeInv
<1> QED
  BY <1>7, <1>8, <1>9, <1>11, <1>12, <1>13, ShapeFrom

(***************************************************************************)
(* An element leaves the list.                                             *)
(***************************************************************************)
Shorter(s, n, k) == [i \in 1..(n - 1) |-> IF i < k THEN s[i] ELSE s[i + 1]]

IsShorter(z, m, s, n, k) ==
  /\ m = n - 1 /\ m \in Nat /\ z \in [1..m -> Addresses]
  /\ \A i \in 1..m : \/ i < k /\ i \in 1..n /\ z[i] = s[i]
                     \/ i >= k /\ i + 1 \in 1..n /\ z[i] = s[i + 1]
  /\ \A i \in 1..n : /\ i < k => i \in 1..m /\ z[i] = s[i]
                     /\ i > k => i - 1 \in 1..m /\ z[i - 1] = s[i]
  /\ \A i \in Nat \ {0} : /\ i < k => At(z, m, i) = At(s, n, i)
                          /\ i >= k => At(z, m, i) = At(s, n, i + 1)

LEMMA ShorterIs ==
  ASSUME NEW n \in Nat, NEW s \in [1..n -> Addresses], NEW k \in 1..n
  PROVE  IsShorter(Shorter(s, n, k), n - 1, s, n, k)
<1> DEFINE z == Shorter(s, n, k)
           m == n - 1
<1>1. m \in Nat
  OBVIOUS
<1>2. \A i \in 1..m : z[i] = IF i < k THEN s[i] ELSE s[i + 1]
  BY DEF Shorter
<1>3. \A i \in 1..m : i \in 1..n /\ i + 1 \in 1..n
  OBVIOUS
<1>4. z \in [1..m -> Addresses]
  BY <1>3 DEF Shorter
<1> HIDE DEF z
<1>5. \A i \in 1..m : \/ i < k /\ i \in 1..n /\ z[i] = s[i]
                      \/ i >= k /\ i + 1 \in 1..n /\ z[i] = s[i + 1]
  BY <1>2, <1>3
<1>6. \A i \in 1..n : i < k => i \in 1..m /\ z[i] = s[i]
  <2>1. \A i \in 1..n : i < k => i \in 1..m
    OBVIOUS
  <2> QED
    BY <1>2, <2>1
<1>7. \A i \in 1..n : i > k => i - 1 \in 1..m /\ z[i - 1] = s[i]
  <2>1. \A i \in 1..n : i > k => i - 1 \in 1..m /\ ~ (i - 1 < k) /\ (i - 1) + 1 = i
    OBVIOUS
  <2> QED
    BY <1>2, <2>1
<1>8. ASSUME NEW i \in Nat \ {0}
      PROVE  /\ i < k => At(z, m, i) = At(s, n, i)
             /\ i >= k => At(z, m, i) = At(s, n, i + 1)
  <2>1. i < k => (i \in 1..m /\ i \in 1..n)
    OBVIOUS
  <2>2. i >= k => (i \in 1..m <=> i + 1 \in 1..n)
    OBVIOUS
  <2> HIDE DEF m
  <2> QED
    BY <1>5, <2>1, <2>2 DEF At
<1> HIDE DEF m
<1>9. m = n - 1
  BY DEF m
<1>10. IsShorter(z, m, s, n, k)
  BY <1>1, <1>4, <1>5, <1>6, <1>7, <1>8, <1>9 DEF IsShorter
<1> QED
  BY <1>10 DEF z, m

LEMMA ShorterElems ==
  ASSUME NEW n \in Nat, NEW s \in [1..n -> Addresses], NEW k \in 1..n, NEW z, NEW m,
         IsShorter(z, m, s, n, k),
         \A i, j \in 1..n : s[i] = s[j] => i = j
  PROVE  /\ Elems(z, m) = Elems(s, n) \ {s[k]}
         /\ \A i, j \in 1..m : z[i] = z[j] => i = j
<1>1. /\ m = n - 1 /\ m \in Nat
      /\ \A i \in 1..m : \/ i < k /\ i \in 1..n /\ z[i] = s[i]
                         \/ i >= k /\ i + 1 \in 1..n /\ z[i] = s[i + 1]
      /\ \A i \in 1..n : /\ i < k => i \in 1..m /\ z[i] = s[i]
                         /\ i > k => i - 1 \in 1..m /\ z[i - 1] = s[i]
  BY DEF IsShorter
<1>2. \A i \in 1..m : z[i] \in Elems(s, n) \ {s[k]}
  BY <1>1 DEF Elems
<1>3. \A i \in 1..n : i # k => \E j \in 1..m : z[j] = s[i]
  BY <1>1
<1>4. ASSUME NEW i \in 1..m, NEW j \in 1..m, z[i] = z[j] PROVE i = j
  BY <1>1, <1>4
<1> QED
  BY <1>2, <1>3, <1>4 DEF Elems

(* The k-th element is unlinked: nothing changes but the pointer to it.    *)
Unlinks(s, k) ==
  /\ \A x \in Addresses : /\ mem'[x].kind = mem[x].kind /\ mem'[x].data = mem[x].data
                          /\ mem'[x].value = mem[x].value
  /\ k = 1 => head' = mem[s[k]].next /\ mem' = mem
  /\ k # 1 => /\ head' = head /\ mem'[s[k - 1]].next = mem[s[k]].next
              /\ \A x \in Addresses \ {s[k - 1]} : mem'[x].next = mem[x].next

LEMMA UnlinkChain ==
  ASSUME TypeInv, NEW s, NEW n, NEW k \in 1..n, ChainInv(s, n), Unlinks(s, k),
         NEW z, NEW m, IsShorter(z, m, s, n, k)
  PROVE  ChainInv(z, m)' /\ Datas(z, m)' = Datas(s, n) \ {mem[s[k]].data}
<1>1. /\ n \in Nat /\ s \in [1..n -> Addresses]
      /\ \A i, j \in 1..n : s[i] = s[j] => i = j
      /\ head = At(s, n, 1)
      /\ \A i \in 1..n : mem[s[i]].kind = "element" /\ mem[s[i]].next = At(s, n, i + 1)
      /\ \A i \in 1..n : Is(mem[s[i]].data, "tuple")
      /\ \A i, j \in 1..n : mem[s[i]].data = mem[s[j]].data => i = j
  BY DEF ChainInv
<1>2. \A i \in 1..n : s[i] \in Addresses /\ mem[s[i]].data \in Addresses
  BY ChainBlocks
<1>3. /\ \A x \in Addresses : mem'[x].kind = mem[x].kind /\ mem'[x].data = mem[x].data
      /\ k = 1 => head' = mem[s[k]].next /\ mem' = mem
      /\ k # 1 => /\ head' = head /\ mem'[s[k - 1]].next = mem[s[k]].next
                  /\ \A x \in Addresses \ {s[k - 1]} : mem'[x].next = mem[x].next
  BY DEF Unlinks
<1>4. /\ m = n - 1 /\ m \in Nat /\ z \in [1..m -> Addresses]
      /\ \A i \in 1..m : \/ i < k /\ i \in 1..n /\ z[i] = s[i]
                         \/ i >= k /\ i + 1 \in 1..n /\ z[i] = s[i + 1]
      /\ \A i \in 1..n : /\ i < k => i \in 1..m /\ z[i] = s[i]
                         /\ i > k => i - 1 \in 1..m /\ z[i - 1] = s[i]
      /\ \A i \in Nat \ {0} : /\ i < k => At(z, m, i) = At(s, n, i)
                              /\ i >= k => At(z, m, i) = At(s, n, i + 1)
  BY DEF IsShorter
<1>5. \A i, j \in 1..m : z[i] = z[j] => i = j
  BY <1>1, ShorterElems
<1>6. head' = At(z, m, 1)
  <2>1. CASE k = 1
    <3>1. At(z, m, 1) = At(s, n, 1 + 1)
      BY <1>4, <2>1
    <3>2. mem[s[1]].next = At(s, n, 1 + 1)
      BY <1>1, <2>1
    <3> QED
      BY <1>3, <2>1, <3>1, <3>2
  <2>2. CASE k # 1
    <3>1. 1 < k
      BY <2>2
    <3>2. At(z, m, 1) = At(s, n, 1)
      BY <1>4, <3>1
    <3> QED
      BY <1>1, <1>3, <2>2, <3>2
  <2> QED
    BY <2>1, <2>2
<1>7. ASSUME NEW i \in 1..m
      PROVE  mem'[z[i]].kind = "element" /\ mem'[z[i]].next = At(z, m, i + 1)
  <2>0. i \in Nat \ {0} /\ i + 1 \in Nat \ {0}
    BY <1>4
  <2>1. CASE i >= k
    <3>1. i + 1 \in 1..n /\ z[i] = s[i + 1]
      BY <1>4, <2>1
    <3>2. mem[s[i + 1]].kind = "element" /\ mem[s[i + 1]].next = At(s, n, (i + 1) + 1)
      BY <1>1, <3>1
    <3>3. At(z, m, i + 1) = At(s, n, (i + 1) + 1)
      <4>1. i + 1 >= k
        BY <2>0, <2>1
      <4> QED
        BY <1>4, <2>0, <4>1
    <3>4. mem'[s[i + 1]].next = mem[s[i + 1]].next
      <4>1. CASE k = 1
        BY <1>3, <4>1
      <4>2. CASE k # 1
        <5>1. k - 1 \in 1..n /\ k - 1 # i + 1
          BY <1>1, <2>1, <4>2
        <5>2. s[k - 1] # s[i + 1]
          BY <1>1, <3>1, <5>1
        <5> QED
          BY <1>2, <1>3, <3>1, <4>2, <5>2
      <4> QED
        BY <4>1, <4>2
    <3> QED
      BY <1>2, <1>3, <3>1, <3>2, <3>3, <3>4
  <2>2. CASE i < k - 1
    <3>1. i \in 1..n /\ z[i] = s[i]
      BY <1>4, <2>2
    <3>2. mem[s[i]].kind = "element" /\ mem[s[i]].next = At(s, n, i + 1)
      BY <1>1, <3>1
    <3>3. At(z, m, i + 1) = At(s, n, i + 1)
      <4>1. i + 1 < k
        BY <2>0, <2>2
      <4> QED
        BY <1>4, <2>0, <4>1
    <3>4. k # 1 /\ k - 1 \in 1..n /\ k - 1 # i
      BY <1>1, <2>0, <2>2
    <3>5. s[k - 1] # s[i]
      BY <1>1, <3>1, <3>4
    <3> QED
      BY <1>2, <1>3, <3>1, <3>2, <3>3, <3>4, <3>5
  <2>3. CASE i = k - 1
    <3>1. i \in 1..n /\ z[i] = s[i] /\ i + 1 = k /\ k # 1
      BY <1>4, <2>0, <2>3
    <3>2. mem[s[k]].next = At(s, n, k + 1) /\ mem[s[i]].kind = "element"
      BY <1>1, <3>1
    <3>3. At(z, m, k) = At(s, n, k + 1)
      BY <1>4
    <3>4. mem'[s[i]].next = mem[s[k]].next
      BY <1>3, <2>3, <3>1
    <3> QED
      BY <1>2, <1>3, <3>1, <3>2, <3>3, <3>4
  <2> QED
    BY <2>0, <2>1, <2>2, <2>3
<1>8. \A i \in 1..m : \E j \in 1..n : j # k /\ z[i] = s[j]
  BY <1>4
<1>9. \A i \in 1..n : i # k => \E j \in 1..m : z[j] = s[i]
  BY <1>4
<1>10. \A i \in 1..m : mem'[z[i]].data = mem[z[i]].data /\ Is(mem[z[i]].data, "tuple")'
  <2>1. ASSUME NEW i \in 1..m
        PROVE  mem'[z[i]].data = mem[z[i]].data /\ Is(mem[z[i]].data, "tuple")'
    <3>1. PICK j \in 1..n : z[i] = s[j]
      BY <1>8
    <3>2. mem'[s[j]].data = mem[s[j]].data /\ Is(mem[s[j]].data, "tuple")
      BY <1>1, <1>2, <1>3
    <3>3. mem'[mem[s[j]].data].kind = mem[mem[s[j]].data].kind
      BY <1>2, <1>3
    <3> QED
      BY <3>1, <3>2, <3>3 DEF Is
  <2> QED
    BY <2>1
<1>11. \A i, j \in 1..m : mem'[z[i]].data = mem'[z[j]].data => i = j
  <2>1. ASSUME NEW i \in 1..m, NEW j \in 1..m, mem'[z[i]].data = mem'[z[j]].data
        PROVE  i = j
    <3>1. PICK x \in 1..n : z[i] = s[x]
      BY <1>8
    <3>2. PICK y \in 1..n : z[j] = s[y]
      BY <1>8
    <3>3. mem[s[x]].data = mem[s[y]].data
      BY <1>10, <2>1, <3>1, <3>2
    <3>4. z[i] = z[j]
      BY <1>1, <3>1, <3>2, <3>3
    <3> QED
      BY <1>5, <3>4
  <2> QED
    BY <2>1
<1>12. ChainInv(z, m)'
  BY <1>4, <1>5, <1>6, <1>7, <1>10, <1>11 DEF ChainInv
<1>13. Datas(z, m)' = Datas(s, n) \ {mem[s[k]].data}
  <2>1. \A i \in 1..m : mem'[z[i]].data \in Datas(s, n) \ {mem[s[k]].data}
    BY <1>1, <1>8, <1>10 DEF Datas
  <2>2. \A i \in 1..n : i # k => \E j \in 1..m : mem'[z[j]].data = mem[s[i]].data
    BY <1>9, <1>10
  <2> QED
    BY <2>1, <2>2 DEF Datas
<1> QED
  BY <1>12, <1>13

LEMMA UnlinkAt ==
  ASSUME BaseInv, NEW p \in Procs, remove_unlink(p), NEW s, NEW n, NEW G, ShapeInv(s, n, G)
  PROVE  \E k \in 1..n :
           /\ reg[p].data = mem[s[k]].data /\ Suits(p, Value(s[k])) /\ reg[p].old = s[k]
           /\ Unlinks(s, k)
<1>1. ChainInv(s, n) /\ RegInv(p, s, n, G) /\ mem \in [Addresses -> BlockType]
  BY ShapeParts DEF BaseInv, TypeInv
<1>2. /\ pc[p] = "unlink"
      /\ IF reg[p].prev = Null
           THEN head' = mem[reg[p].at].next /\ UNCHANGED mem
           ELSE mem' = [mem EXCEPT ![reg[p].prev].next = mem[reg[p].at].next] /\ UNCHANGED head
  BY DEF remove_unlink, move
<1>3. PICK k \in 1..n :
        /\ Target(p, s, n, k) /\ reg[p].at = s[k] /\ reg[p].data = mem[s[k]].data
        /\ Suits(p, Value(s[k])) /\ reg[p].old = s[k]
  BY <1>1, <1>2 DEF RegInv
<1>4. n \in Nat /\ s \in [1..n -> Addresses]
  BY <1>1 DEF ChainInv
<1>5. Unlinks(s, k)
  <2>1. /\ reg[p].prev = Null <=> k = 1
        /\ k # 1 => k - 1 \in 1..n /\ reg[p].prev = s[k - 1]
    BY <1>1, <1>3, AfterIs
  <2>2. CASE k = 1
    <3>1. mem' = mem /\ head' = mem[s[k]].next
      BY <1>2, <1>3, <2>1, <2>2
    <3> QED
      BY <2>2, <3>1 DEF Unlinks
  <2>3. CASE k # 1
    <3>1. s[k - 1] \in Addresses
      BY <1>4, <2>1, <2>3
    <3>2. mem' = [mem EXCEPT ![s[k - 1]].next = mem[s[k]].next] /\ head' = head
      BY <1>2, <1>3, <2>1, <2>3
    <3>3. /\ mem'[s[k - 1]] = [mem[s[k - 1]] EXCEPT !.next = mem[s[k]].next]
          /\ \A x \in Addresses \ {s[k - 1]} : mem'[x] = mem[x]
      BY <1>1, <3>1, <3>2
    <3>4. mem[s[k - 1]] \in BlockType
      BY <1>1, <3>1
    <3>5. /\ mem'[s[k - 1]].kind = mem[s[k - 1]].kind
          /\ mem'[s[k - 1]].data = mem[s[k - 1]].data
          /\ mem'[s[k - 1]].value = mem[s[k - 1]].value
          /\ mem'[s[k - 1]].next = mem[s[k]].next
      BY <3>3, <3>4 DEF BlockType
    <3> QED
      BY <2>3, <3>2, <3>3, <3>5 DEF Unlinks
  <2> QED
    BY <2>2, <2>3
<1> QED
  BY <1>3, <1>5

LEMMA UnlinkShape ==
  ASSUME BaseInv, BesideInv, NEW p \in Procs, remove_unlink(p),
         NEW s, NEW n, NEW G, ShapeInv(s, n, G)
  PROVE  \E m \in Nat : \E z \in [1..m -> Addresses] : \E H \in SUBSET Addresses :
           ShapeInv(z, m, H)'
<1>1. /\ ChainInv(s, n) /\ WalkInv(s, n, G) /\ HeldInv(s, n) /\ SizeInv(n)
      /\ RegInv(p, s, n, G)
  BY ShapeParts
<1>2. TypeInv /\ LabelInv
  BY DEF BaseInv
<1>3. Moves(p, "unlink", "free")
  BY <1>2, MoveMoves DEF remove_unlink, Labels
<1>4. UNCHANGED <<live, heap, size, answer, reg>>
  BY DEF remove_unlink
<1>5. \A q \in Procs \ {p} : OtherAsBefore(q)
  BY <1>3, <1>4, MoveOthers
<1>6. /\ pc[p] = "unlink" /\ pc'[p] = "free" /\ call' = call /\ apart' = apart
      /\ call[p].op \in {"pop", "destroy"} /\ pc[p] \in RemoverLabels
  BY <1>2, <1>3, RemoveOps DEF Moves, RemoverLabels, RemoveLabels
<1>7. PICK k \in 1..n :
        /\ reg[p].data = mem[s[k]].data /\ Suits(p, Value(s[k])) /\ reg[p].old = s[k]
        /\ Unlinks(s, k)
  BY UnlinkAt
<1>8. /\ n \in Nat /\ s \in [1..n -> Addresses]
      /\ \A i, j \in 1..n : s[i] = s[j] => i = j
      /\ \A i \in 1..n : mem[s[i]].kind = "element" /\ Is(mem[s[i]].data, "tuple")
      /\ \A i \in 1..n : mem[s[i]].next = At(s, n, i + 1)
  BY <1>1 DEF ChainInv
<1>9. /\ s[k] \in Addresses /\ mem[s[k]].data \in Addresses
      /\ s[k] \notin Datas(s, n) /\ mem[s[k]].data \notin Elems(s, n)
      /\ mem[s[k]].data # s[k]
      /\ s[k] \in Elems(s, n) /\ mem[s[k]].data \in Datas(s, n)
  BY <1>1, <1>2, ChainBlocks DEF Elems, Datas
<1>10. mem \in [Addresses -> BlockType]
  BY <1>2 DEF TypeInv
<1> DEFINE z == Shorter(s, n, k)
           m == n - 1
<1>11. IsShorter(z, m, s, n, k)
  BY <1>8, ShorterIs
<1> HIDE DEF z, m
<1>12. m = n - 1 /\ m \in Nat /\ z \in [1..m -> Addresses]
  BY <1>11 DEF IsShorter
<1>13. Elems(z, m) = Elems(s, n) \ {s[k]}
  BY <1>8, <1>11, ShorterElems
<1>14. ChainInv(z, m)' /\ Datas(z, m)' = Datas(s, n) \ {mem[s[k]].data}
  BY <1>1, <1>2, <1>7, <1>11, UnlinkChain
<1>15. \A q \in Procs \ {p} :
         /\ pc[q] \notin RemoverLabels /\ pc[q] \notin PushLabels
         /\ call[q].op # "destroy"
         /\ PushesWithPeeks => pc[q] \in {"idle", "wait"}
  BY <1>6, RemoverCompany
<1>16. HeldInv(z, m)'
  <2>1. \A q \in Procs \ {p} : Held(q)' = Held(q)
    BY <1>5, OtherHeld
  <2>2. Held(p) = {} /\ Held(p)' = {s[k], mem[s[k]].data}
    BY <1>4, <1>6, <1>7 DEF Held
  <2>3. \A a \in Addresses :
           (a \in Elems(s, n) \/ a \in Datas(s, n) \/ a \in Held(p))
             <=> (a \in Elems(z, m) \/ a \in Datas(z, m)' \/ a \in Held(p)')
    BY <1>9, <1>13, <1>14, <2>2
  <2>4. \A a \in Held(p)' :
           a \in Addresses /\ a \notin Elems(z, m) /\ a \notin Datas(z, m)'
    BY <1>9, <1>13, <1>14, <2>2
  <2> QED
    BY <1>1, <1>4, <2>1, <2>3, <2>4, HeldMoves
<1>17. SizeInv(m)'
  <2>1. \A q \in Procs \ {p} : pc'[q] \notin {"grow", "grown", "free", "shrink", "shrunk"}
    BY <1>5, <1>6, RemoverCounts
  <2>2. size = n
    BY <1>1, <1>6, RemoverSize
  <2>3. size' = m + 1
    BY <1>4, <1>8, <1>12, <2>2
  <2> QED
    BY <1>6, <2>1, <2>3, SizeAlone
<1>18. /\ \A x \in Addresses : /\ mem'[x].kind = mem[x].kind /\ mem'[x].data = mem[x].data
                               /\ mem'[x].value = mem[x].value
       /\ \A x \in Addresses : mem'[x].next = mem[x].next
                                 \/ mem'[x].next \in Elems(s, n) \cup {Null}
  <2>1. mem[s[k]].next \in Elems(s, n) \cup {Null}
    BY <1>8 DEF At, Elems
  <2> QED
    BY <1>7, <2>1 DEF Unlinks
<1>19. ASSUME NEW H PROVE RegInv(p, z, m, H)'
  <2>1. /\ reg'[p].old = s[k] /\ reg'[p].data = mem[s[k]].data
        /\ mem'[mem[s[k]].data].kind = "tuple" /\ mem[s[k]].data # Null
        /\ mem'[mem[s[k]].data].value = Value(s[k])
    BY <1>4, <1>7, <1>8, <1>9, <1>18 DEF Value, Is
  <2>2. Is(reg[p].data, "tuple")'
    BY <2>1 DEF Is
  <2>3. Suits(p, mem[reg[p].data].value)'
    BY <1>6, <1>7, <2>1 DEF Suits
  <2>4. call[p].op \in {"peek", "pop"} /\ answer[p].status = 0 => Suits(p, answer[p].tuple)'
    BY <1>1, <1>4, <1>6 DEF RegInv, Suits
  <2> QED
    BY <1>4, <1>6, <1>9, <2>1, <2>2, <2>3, <2>4 DEF RegInv
<1>20. ASSUME NEW H, PushesWithPeeks \/ G \subseteq H, NEW q \in Procs \ {p}
       PROVE  RegInv(q, z, m, H)'
  <2>1. RegInv(q, s, n, G) /\ OtherAsBefore(q)
    BY <1>5 DEF ShapeInv
  <2>2. pc[q] \in {"look", "getClone"} => ~ PushesWithPeeks /\ G \subseteq H
    BY <1>15, <1>20
  <2>3. pc[q] = "getClone" => Value(reg[q].at)' = Value(reg[q].at)
    <3>1. SUFFICES ASSUME pc[q] = "getClone"
                   PROVE  Value(reg[q].at)' = Value(reg[q].at)
      OBVIOUS
    <3>2. reg[q].at \in G /\ reg'[q] = reg[q]
      BY <2>1, <3>1 DEF RegInv, OtherAsBefore
    <3>3. reg[q].at \in Addresses /\ mem[reg[q].at].data # Null
      BY <1>1, <3>2 DEF WalkInv, Readable, Is
    <3>4. mem[reg[q].at].data \in Addresses
      BY <1>10, <3>3 DEF BlockType, Room
    <3> QED
      BY <1>18, <3>2, <3>3, <3>4 DEF Value
  <2>4. pc[q] # "isin" /\ pc[q] \notin {"insertLink", "insertHead"}
    BY <1>15 DEF PushLabels
  <2> QED
    BY <1>15, <2>1, <2>2, <2>3, <2>4, OtherElsewhere
<1>21. CASE PushesWithPeeks
  <2>1. WalkInv(z, m, Elems(z, m))'
    BY <1>14, WalkInList
  <2>2. ShapeInv(z, m, Elems(z, m))'
    BY <1>14, <1>16, <1>17, <1>19, <1>20, <1>21, <2>1, ShapeFrom
  <2>3. Elems(z, m) \in SUBSET Addresses
    BY <2>1 DEF WalkInv
  <2> QED
    BY <1>12, <2>2, <2>3
<1>22. CASE ~ PushesWithPeeks
  <2>1. /\ G \subseteq Addresses /\ Elems(s, n) \subseteq G
        /\ \A a \in G : Readable(a) /\ mem[a].next \in G \cup {Null}
    BY <1>1 DEF WalkInv
  <2>2. ASSUME NEW a \in G PROVE Readable(a)' /\ mem'[a].next \in G \cup {Null}
    <3>1. a \in Addresses /\ a # Null /\ mem[a].kind = "element" /\ mem[a].data # Null
          /\ mem[mem[a].data].kind = "tuple"
      BY <2>1 DEF Readable, Is
    <3>2. mem[a].data \in Addresses
      BY <1>10, <3>1 DEF BlockType, Room
    <3>3. Readable(a)'
      BY <1>18, <3>1, <3>2 DEF Readable, Is
    <3>4. mem'[a].next \in G \cup {Null}
      BY <1>18, <2>1, <3>1
    <3> QED
      BY <3>3, <3>4
  <2>3. ~ (\E q \in Procs : pc'[q] \in PushLabels)
    BY <1>5, <1>6, <1>15 DEF OtherAsBefore, PushLabels
  <2>4. ~ PushesWithPeeks'
    BY <1>6, <1>22 DEF PushesWithPeeks
  <2>5. WalkInv(z, m, G)'
    BY <1>13, <2>1, <2>2, <2>3, <2>4 DEF WalkInv
  <2>6. ShapeInv(z, m, G)'
    BY <1>14, <1>16, <1>17, <1>19, <1>20, <2>5, ShapeFrom
  <2> QED
    BY <1>12, <2>1, <2>6
<1> QED
  BY <1>21, <1>22

-----------------------------------------------------------------------------
(***************************************************************************)
(* The programs: calls, loops and returns.                                 *)
(***************************************************************************)
LEMMA GoesOnShape ==
  ASSUME BaseInv, NEW p \in Procs, goes_on(p), NEW s, NEW n, NEW G, ShapeInv(s, n, G)
  PROVE  ShapeInv(s, n, G)'
<1>1. /\ ChainInv(s, n) /\ WalkInv(s, n, G) /\ RegInv(p, s, n, G)
  BY ShapeParts
<1>2. TypeInv /\ LabelInv
  BY DEF BaseInv
<1>3. /\ pc[p] \in {"isin", "look", "scan"} /\ Readable(reg[p].at)
      /\ sets(p, [prev |-> reg[p].at, at |-> mem[reg[p].at].next])
      /\ UNCHANGED <<mem, live, heap, head, size, pc, call, answer, apart>>
  BY DEF goes_on, blocks, list, program
<1>4. reg[p].at # Null /\ reg[p].at \in Addresses /\ mem[reg[p].at].next \in Room
  BY <1>2, <1>3 DEF Readable, Is, TypeInv, RegisterType, BlockType, Room
<1>5. /\ reg'[p].at = mem[reg[p].at].next /\ reg'[p].prev = reg[p].at
      /\ \A q \in Procs \ {p} : reg'[q] = reg[q]
  BY <1>2, <1>3, <1>4, SetsNext DEF RegsAre, Room
<1>6. /\ n \in Nat /\ s \in [1..n -> Addresses]
      /\ \A i \in 1..n : mem[s[i]].next = At(s, n, i + 1)
  BY <1>1 DEF ChainInv
<1>7. call[p].op \in {"peek", "pop"} /\ answer[p].status = 0 => Suits(p, answer[p].tuple)'
  BY <1>1, <1>3 DEF RegInv, Suits
<1>8. RegInv(p, s, n, G)'
  <2>1. CASE pc[p] = "isin"
    <3>1. reg[p].at \in Elems(s, n)
      BY <1>1, <1>4, <2>1 DEF RegInv
    <3>2. PICK i \in 1..n : reg[p].at = s[i]
      BY <3>1 DEF Elems
    <3>3. reg'[p].at \in Elems(s, n) \cup {Null}
      BY <1>5, <1>6, <3>2 DEF At, Elems
    <3> QED
      BY <1>3, <1>7, <2>1, <3>3 DEF RegInv
  <2>2. CASE pc[p] = "look"
    <3>1. reg[p].at \in G
      BY <1>1, <1>4, <2>2 DEF RegInv
    <3>2. reg'[p].at \in G \cup {Null}
      BY <1>1, <1>5, <3>1 DEF WalkInv
    <3> QED
      BY <1>3, <1>7, <2>2, <3>2 DEF RegInv
  <2>3. CASE pc[p] = "scan"
    <3>1. PICK k \in 1..(n + 1) : reg[p].at = At(s, n, k)
      BY <1>1, <2>3 DEF RegInv
    <3>2. k \in 1..n /\ reg[p].at = s[k]
      BY <1>4, <3>1 DEF At
    <3>3. k + 1 \in 1..(n + 1) /\ (k + 1) - 1 = k
      BY <1>6, <3>2
    <3>4. reg'[p].prev = At(s, n, (k + 1) - 1) /\ reg'[p].at = At(s, n, k + 1)
      BY <1>5, <1>6, <3>2, <3>3 DEF At
    <3> QED
      BY <1>3, <1>7, <2>3, <3>3, <3>4 DEF RegInv
  <2> QED
    BY <1>3, <2>1, <2>2, <2>3
<1>9. Held(p)' = Held(p)
  BY <1>3 DEF Held
<1>10. \A q \in Procs \ {p} : OtherAsBefore(q)
  BY <1>3, <1>5 DEF OtherAsBefore
<1> QED
  BY <1>3, <1>8, <1>9, <1>10, QuietStep

LEMMA ReturnShape ==
  ASSUME BaseInv, NEW p \in Procs, return(p), NEW s, NEW n, NEW G, ShapeInv(s, n, G)
  PROVE  ShapeInv(s, n, G)'
<1>1. /\ pc[p] = "return" /\ pc' = [pc EXCEPT ![p] = "idle"]
      /\ call' = [call EXCEPT ![p] = NoCall]
      /\ answer' = [answer EXCEPT ![p] = Pending]
      /\ reg' = [reg EXCEPT ![p] = Registers]
      /\ UNCHANGED <<mem, live, heap, head, size, apart>>
  BY DEF return, blocks, list, program
<1>2. /\ pc'[p] = "idle" /\ call'[p] = NoCall /\ answer'[p] = Pending
      /\ \A q \in Procs \ {p} : /\ pc'[q] = pc[q] /\ call'[q] = call[q]
                                /\ answer'[q] = answer[q] /\ reg'[q] = reg[q]
  BY <1>1 DEF BaseInv, TypeInv
<1>3. RegInv(p, s, n, G)'
  BY <1>2 DEF RegInv, NoCall
<1>4. Held(p)' = Held(p)
  BY <1>1, <1>2 DEF Held
<1>5. \A q \in Procs \ {p} : OtherAsBefore(q)
  BY <1>2 DEF OtherAsBefore
<1> QED
  BY <1>1, <1>2, <1>3, <1>4, <1>5, QuietStep DEF PushLabels

LEMMA StartShape ==
  ASSUME BaseInv, BesideInv, BesideInv', NEW p \in Procs, NEW r \in Calls[p], start(p, r),
         NEW s, NEW n, NEW G, ShapeInv(s, n, G)
  PROVE  \E H \in SUBSET Addresses : ShapeInv(s, n, H)'
<1>1. /\ ChainInv(s, n) /\ WalkInv(s, n, G) /\ HeldInv(s, n) /\ SizeInv(n)
      /\ RegInv(p, s, n, G)
  BY ShapeParts
<1>2. TypeInv /\ LabelInv /\ LabelOK(p)
  BY DEF BaseInv, LabelInv
<1>3. /\ pc[p] = "idle" /\ left[p] > 0
      /\ pc' = [pc EXCEPT ![p] = FirstLabel(r.op)]
      /\ call' = [call EXCEPT ![p] = r]
      /\ sets(p, [at |-> head])
      /\ UNCHANGED <<mem, live, heap, head, size, answer, apart>>
  BY DEF start, blocks, list
<1>4. r \in Requests
  BY CallsAssumption
<1>5. r.op \in {"push", "peek", "pop", "destroy"}
  BY <1>4 DEF Requests, DestroyCall
<1>6. RegsAre(p, head, reg[p].prev, reg[p].new, reg[p].data, reg[p].old, reg[p].count)
  BY <1>2, <1>3, SetsAt DEF TypeInv
<1>7. /\ pc'[p] = FirstLabel(r.op) /\ call'[p] = r /\ answer'[p] = answer[p]
      /\ reg'[p].at = head /\ reg'[p].prev = reg[p].prev
      /\ \A q \in Procs \ {p} : /\ pc'[q] = pc[q] /\ call'[q] = call[q]
                                /\ answer'[q] = answer[q] /\ reg'[q] = reg[q]
  BY <1>2, <1>3, <1>6 DEF TypeInv, RegsAre
<1>8. \A q \in Procs \ {p} : OtherAsBefore(q)
  BY <1>7 DEF OtherAsBefore
<1>9. reg[p].prev = Null /\ answer[p] = Pending
  BY <1>1, <1>2, <1>3
     DEF LabelOK, Registers, RegInv, PushLabels, PeekLabels, RemoveLabels
<1>10. n \in Nat /\ head = At(s, n, 1)
  BY <1>1 DEF ChainInv
<1>11. ASSUME NEW H PROVE RegInv(p, s, n, H)'
  <2>1. answer'[p].status # 0
    BY <1>7, <1>9 DEF Pending
  <2>2. CASE r.op = "push"
    <3>1. pc'[p] = "isin"
      BY <1>7, <2>2 DEF FirstLabel
    <3>2. reg'[p].at \in Elems(s, n) \cup {Null}
      BY <1>1, <1>7, HeadIn
    <3> QED
      BY <2>1, <3>1, <3>2 DEF RegInv
  <2>3. CASE r.op \in {"peek", "destroy"}
    <3>1. pc'[p] \in {"enter", "test"}
      BY <1>7, <2>3 DEF FirstLabel
    <3> QED
      BY <2>1, <3>1 DEF RegInv
  <2>4. CASE r.op = "pop"
    <3>1. pc'[p] = "scan"
      BY <1>7, <2>4 DEF FirstLabel
    <3>2. 1 \in 1..(n + 1) /\ reg'[p].prev = At(s, n, 1 - 1) /\ reg'[p].at = At(s, n, 1)
      BY <1>7, <1>9, <1>10 DEF At
    <3> QED
      BY <2>1, <3>1, <3>2 DEF RegInv
  <2> QED
    BY <1>5, <2>2, <2>3, <2>4
<1>12. /\ pc'[p] \in {"isin", "enter", "scan", "test"}
       /\ Held(p)' = Held(p)
       /\ r.op # "push" => pc'[p] \notin PushLabels
  BY <1>3, <1>5, <1>7 DEF FirstLabel, Held, PushLabels
<1>13. CASE r.op # "push"
  <2>1. ShapeInv(s, n, G)'
    BY <1>3, <1>8, <1>11, <1>12, <1>13, QuietStep
  <2> QED
    BY <1>1, <2>1 DEF WalkInv
<1>14. CASE r.op = "push"
  <2> DEFINE H == Elems(s, n)
  <2>1. ChainInv(s, n)'
    BY <1>1, <1>3, ChainSame
  <2>2. WalkInv(s, n, H)'
    BY <2>1, WalkInList
  <2>3. HeldInv(s, n)'
    <3>1. \A q \in Procs \ {p} : Held(q)' = Held(q)
      BY <1>8, OtherHeld
    <3> QED
      BY <1>1, <1>3, <1>12, <3>1, HeldSame
  <2>4. SizeInv(n)'
    <3>1. ASSUME NEW q \in Procs
          PROVE  /\ pc'[q] \in {"grow", "grown"} <=> pc[q] \in {"grow", "grown"}
                 /\ pc'[q] \in {"free", "shrink", "shrunk"} <=> pc[q] \in {"free", "shrink", "shrunk"}
                 /\ pc'[q] \in {"grown", "shrunk"} => reg'[q].count = size
      <4>1. CASE q = p
        BY <1>3, <1>12, <4>1
      <4>2. CASE q # p
        BY <1>1, <1>7, <4>2 DEF SizeInv
      <4> QED
        BY <4>1, <4>2
    <3> QED
      BY <1>1, <1>3, <3>1, SizeSame
  <2>5. ASSUME NEW q \in Procs \ {p} PROVE RegInv(q, s, n, H)'
    <3>1. RegInv(q, s, n, G)
      BY DEF ShapeInv
    <3>2. CASE PushesWithPeeks
      <4>1. G = H
        BY <1>1, <3>2 DEF WalkInv
      <4>2. RegInv(q, s, n, G)'
        BY <1>3, <1>8, <3>1, OtherSame
      <4> QED
        BY <4>1, <4>2
    <3>3. CASE ~ PushesWithPeeks
      <4>1. ~ PushesWithPeeks'
        BY <1>3, <3>3 DEF PushesWithPeeks
      <4>2. call'[p].op = "push" /\ pc'[p] = "isin"
        BY <1>7, <1>14 DEF FirstLabel
      <4>3. ~ Awake(q)'
        BY <4>1, <4>2 DEF BesideInv, Beside, Awake
      <4>4. pc[q] \in {"idle", "wait"}
        BY <1>7, <4>3 DEF Awake
      <4>5. call[q].op # "destroy"
        BY <1>3 DEF BesideInv
      <4> HIDE DEF H
      <4> QED
        BY <1>8, <3>1, <4>4, <4>5, OtherElsewhere DEF RemoverLabels, RemoveLabels
    <3> QED
      BY <3>2, <3>3
  <2>6. ShapeInv(s, n, H)'
    BY <1>11, <2>1, <2>2, <2>3, <2>4, <2>5, ShapeFrom
  <2>7. H \in SUBSET Addresses
    BY <2>2 DEF WalkInv
  <2> QED
    BY <2>6, <2>7
<1> QED
  BY <1>13, <1>14

LEMMA InitShape ==
  ASSUME Init
  PROVE  \E n \in Nat : \E s \in [1..n -> Addresses] : \E G \in SUBSET Addresses :
           ShapeInv(s, n, G)
<1> DEFINE s == [i \in 1..0 |-> Null]
<1>1. /\ live = {} /\ heap = Nobody /\ head = Null /\ size = 0
      /\ \A p \in Procs : /\ pc[p] = "idle" /\ call[p] = NoCall
                          /\ answer[p] = Pending
  BY DEF Init
<1>2. \A i : i \notin 1..0
  OBVIOUS
<1>3. s \in [1..0 -> Addresses] /\ Elems(s, 0) = {} /\ Datas(s, 0) = {}
  BY <1>2 DEF Elems, Datas
<1> HIDE DEF s
<1>4. ChainInv(s, 0)
  BY <1>1, <1>2, <1>3 DEF ChainInv, At
<1>5. WalkInv(s, 0, {})
  BY <1>3 DEF WalkInv
<1>6. HeldInv(s, 0)
  BY <1>1, <1>3 DEF HeldInv, Held
<1>7. SizeInv(0)
  BY <1>1 DEF SizeInv
<1>8. \A p \in Procs : RegInv(p, s, 0, {})
  BY <1>1 DEF RegInv, Pending, NoCall
<1>9. ShapeInv(s, 0, {})
  BY <1>4, <1>5, <1>6, <1>7, <1>8 DEF ShapeInv
<1> QED
  BY <1>3, <1>9

LEMMA ShapeStutter ==
  ASSUME UNCHANGED vars, NEW s, NEW n, NEW G, ShapeInv(s, n, G)
  PROVE  ShapeInv(s, n, G)'
<1>1. UNCHANGED <<mem, live, heap, head, size, pc, call, answer, reg, apart>>
  BY DEF vars
<1>2. \A q \in Procs : OtherAsBefore(q) /\ Held(q)' = Held(q) /\ RegInv(q, s, n, G)
  BY <1>1 DEF OtherAsBefore, Held, ShapeInv
<1>3. \A q \in Procs : RegInv(q, s, n, G)'
  BY <1>1, <1>2, OtherSame
<1>4. ChainInv(s, n)' /\ WalkInv(s, n, G)' /\ HeldInv(s, n)'
  BY <1>1, <1>2, ChainSame, WalkSame, HeldSame DEF ShapeInv
<1>5. SizeInv(n)'
  BY <1>1 DEF ShapeInv, SizeInv
<1> QED
  BY <1>3, <1>4, <1>5 DEF ShapeInv

LEMMA RunShape ==
  ASSUME RoomToCount, BaseInv, BesideInv, BesideInv', NEW p \in Procs, Run(p),
         NEW n \in Nat, NEW s \in [1..n -> Addresses], NEW G \in SUBSET Addresses,
         ShapeInv(s, n, G)
  PROVE  \E m \in Nat : \E z \in [1..m -> Addresses] : \E H \in SUBSET Addresses :
           ShapeInv(z, m, H)'
<1>1. n <= Cardinality(Addresses)
  BY LengthFits DEF ShapeInv
<1>2. ASSUME NEW r \in Calls[p], start(p, r)
      PROVE  \E H \in SUBSET Addresses : ShapeInv(s, n, H)'
  BY <1>2, StartShape
<1>3. CASE goes_on(p) \/ return(p) \/ Peek(p)
  BY <1>3, GoesOnShape, ReturnShape, PeekShape
<1>4. CASE Push(p)
  <2>1. CASE is_in(p) \/ insert_enter(p) \/ grow_read(p) \/ put_leave(p) \/ put_broadcast(p)
    BY <2>1, PushShapeQuiet
  <2>2. CASE is_not_in(p)
    BY <2>2, IsNotInShape
  <2>3. CASE insert_clone(p)
    BY <2>3, InsertCloneShape
  <2>4. CASE insert_link(p)
    BY <2>4, InsertLinkShape
  <2>5. CASE insert_head(p)
    BY <2>5, InsertHeadShape
  <2>6. CASE grow_write(p)
    BY <1>1, <2>6, GrowWriteShape
  <2> QED
    BY <1>4, <2>1, <2>2, <2>3, <2>4, <2>5, <2>6 DEF Push
<1>5. CASE Remove(p)
  <2>1. CASE \/ remove_match(p) \/ remove_nothing(p) \/ remove_test(p) \/ remove_data(p)
             \/ remove_old(p) \/ destroy_test(p)
    BY <2>1, RemoveShapeQuiet
  <2>2. CASE shrink_read(p) \/ pop_clone(p)
    BY <2>2, RemoveShapeCopies
  <2>3. CASE remove_free(p) \/ destroy_tuple(p)
    BY <2>3, RemoveShapeFrees
  <2>4. CASE shrink_write(p)
    BY <2>4, ShrinkWriteShape
  <2>5. CASE remove_unlink(p)
    BY <2>5, UnlinkShape
  <2> QED
    BY <1>5, <2>1, <2>2, <2>3, <2>4, <2>5 DEF Remove
<1> QED
  BY <1>2, <1>3, <1>4, <1>5 DEF Run

LEMMA InitList ==
  ASSUME Init
  PROVE  ListInv
BY InitBase, InitShape DEF ListInv, BaseInv

LEMMA NextList ==
  ASSUME ConventionsKept, RoomToCount, ListInv, [Next]_vars
  PROVE  ListInv'
<1>1. BaseInv /\ BesideInv
  BY DEF ListInv, BaseInv
<1>2. BaseInv' /\ BesideInv'
  BY <1>1, NextBase
<1>3. PICK n, s, G :
        /\ n \in Nat /\ s \in [1..n -> Addresses] /\ G \in SUBSET Addresses
        /\ ShapeInv(s, n, G)
  BY DEF ListInv
<1>4. \E m \in Nat : \E z \in [1..m -> Addresses] : \E H \in SUBSET Addresses :
        ShapeInv(z, m, H)'
  <2>1. CASE UNCHANGED vars
    BY <1>3, <2>1, ShapeStutter
  <2>2. CASE Next
    BY <1>1, <1>2, <1>3, <2>2, RunShape DEF Next
  <2> QED
    BY <2>1, <2>2
<1> QED
  BY <1>2, <1>4 DEF ListInv, BaseInv

LEMMA ListInvHolds ==
  ASSUME ConventionsKept, RoomToCount
  PROVE  Spec => []ListInv
<1>1. Init => ListInv
  BY InitList
<1>2. ListInv /\ [Next]_vars => ListInv'
  BY NextList
<1> QED
  BY <1>1, <1>2, PTL DEF Spec

(* No program follows a pointer into a block that was given back or filled *)
(* with something else, nor the null pointer, while peeks, without regard  *)
(* for pop's unlocked removals, walk through the list.                     *)
THEOREM PointersLeadToElements ==
  ASSUME ConventionsKept, RoomToCount
  PROVE  Spec => []NoStrayPointer
<1>1. ListInv => NoStrayPointer
  <2>1. SUFFICES ASSUME ListInv, NEW p \in Procs
                 PROVE  ~ Astray(p)
    BY DEF NoStrayPointer
  <2>2. PICK n, s, G :
        /\ n \in Nat /\ s \in [1..n -> Addresses] /\ G \in SUBSET Addresses
        /\ ShapeInv(s, n, G)
    BY <2>1 DEF ListInv
  <2>3. ChainInv(s, n) /\ WalkInv(s, n, G) /\ RegInv(p, s, n, G)
    BY <2>1, <2>2, ShapeParts
  <2>4. \A a \in G : Readable(a)
    BY <2>3 DEF WalkInv
  <2>5. Elems(s, n) \subseteq G
    BY <2>3 DEF WalkInv
  <2>6. CASE pc[p] \in {"isin", "look", "scan"}
    <3>1. reg[p].at \in G \cup {Null}
      BY <2>3, <2>5, <2>6 DEF RegInv, At, Elems
    <3> QED
      BY <2>4, <2>6, <3>1 DEF Astray
  <2>7. CASE pc[p] = "getClone"
    BY <2>3, <2>4, <2>7 DEF Astray, RegInv
  <2>8. CASE pc[p] = "data"
    <3>1. PICK k \in 1..n : Target(p, s, n, k)
      BY <2>3, <2>8 DEF RegInv
    <3>2. Is(After(reg[p].prev), "element")
      BY <2>3, <3>1, AfterIs DEF Is
    <3> QED
      BY <2>8, <3>2 DEF Astray
  <2>9. CASE pc[p] = "popClone"
    BY <2>3, <2>9 DEF Astray, RegInv
  <2>10. CASE pc[p] \notin {"isin", "look", "scan", "getClone", "data", "popClone"}
    BY <2>10 DEF Astray
  <2> QED
    BY <2>6, <2>7, <2>8, <2>9, <2>10
<1> QED
  BY <1>1, ListInvHolds, PTL

(* The tuple that peek_tuple or pop_tuple returns matches the pattern it   *)
(* was called with, whatever was pushed and popped between the comparison  *)
(* and the copy.                                                           *)
THEOREM AnswersMatchPatterns ==
  ASSUME ConventionsKept, RoomToCount
  PROVE  Spec => []AnswersMatch
<1>1. ListInv => AnswersMatch
  <2>1. SUFFICES ASSUME ListInv, NEW p \in Procs, call[p].op \in {"peek", "pop"},
                        answer[p].status = 0
                 PROVE  answer[p].tuple \in MatchedBy[call[p].arg]
    BY DEF AnswersMatch
  <2>2. PICK n, s, G :
        /\ n \in Nat /\ s \in [1..n -> Addresses] /\ G \in SUBSET Addresses
        /\ ShapeInv(s, n, G)
    BY <2>1 DEF ListInv
  <2>3. RegInv(p, s, n, G)
    BY <2>1, <2>2, ShapeParts
  <2> QED
    BY <2>1, <2>3 DEF RegInv, Suits
<1> QED
  BY <1>1, ListInvHolds, PTL

(* destroy_tuple_space gives every block back, and leaves the heap's       *)
(* semaphore free, whatever was pushed and popped before.                  *)
THEOREM TeardownFreesEverything ==
  ASSUME ConventionsKept, RoomToCount
  PROVE  Spec => []TeardownFreesAll
<1>1. ListInv => TeardownFreesAll
  <2>1. SUFFICES ASSUME ListInv, NEW p \in Procs, call[p] = DestroyCall, pc[p] = "return"
                 PROVE  live = {} /\ heap = Nobody
    BY DEF TeardownFreesAll
  <2>2. PICK n, s, G :
        /\ n \in Nat /\ s \in [1..n -> Addresses] /\ G \in SUBSET Addresses
        /\ ShapeInv(s, n, G)
    BY <2>1 DEF ListInv
  <2>3. HeldInv(s, n) /\ RegInv(p, s, n, G)
    BY <2>1, <2>2, ShapeParts
  <2>4. call[p].op = "destroy"
    BY <2>1 DEF DestroyCall
  <2>5. n = 0
    BY <2>1, <2>3, <2>4 DEF RegInv
  <2>6. \A q \in Procs : pc[q] \in {"idle", "return"}
    BY <2>1, <2>4 DEF ListInv, BesideInv
  <2>7. \A q \in Procs : Held(q) = {}
    BY <2>6 DEF Held
  <2>8. Elems(s, n) = {} /\ Datas(s, n) = {}
    BY <2>5 DEF Elems, Datas
  <2>9. live \subseteq Addresses
    BY <2>1 DEF ListInv, TypeInv
  <2> QED
    BY <2>3, <2>7, <2>8, <2>9 DEF HeldInv
<1> QED
  BY <1>1, ListInvHolds, PTL

(***************************************************************************)
(* The blocks that are reached from the head are the elements of the list. *)
(***************************************************************************)
Reached(f) ==
  f = [n \in 0..Cardinality(Addresses) |->
         IF n = 0 THEN {head} ELSE f[n - 1] \cup {mem[a].next : a \in f[n - 1] \ {Null}}]

Steps(s, n) ==
  [k \in 0..Cardinality(Addresses) |-> {At(s, n, i) : i \in 1..(k + 1)}]

LEMMA StepsReach ==
  ASSUME NEW s, NEW n, ChainInv(s, n)
  PROVE  Reached(Steps(s, n))
<1> DEFINE C == Cardinality(Addresses)
           f == Steps(s, n)
<1>1. /\ n \in Nat /\ s \in [1..n -> Addresses] /\ head = At(s, n, 1)
      /\ \A i \in 1..n : mem[s[i]].next = At(s, n, i + 1)
  BY DEF ChainInv
<1>2. C \in Nat /\ Null \notin Addresses
  BY TupleListAssumption, FS_CardinalityType DEF Null
<1> HIDE DEF C
<1>3. \A k \in 0..C : f[k] = {At(s, n, i) : i \in 1..(k + 1)}
  BY DEF Steps, C
<1> HIDE DEF f
<1>4. f[0] = {head}
  <2>1. 0 \in 0..C /\ \A i : i \in 1..(0 + 1) <=> i = 1
    BY <1>2
  <2>2. f[0] = {At(s, n, i) : i \in 1..(0 + 1)}
    BY <1>3, <2>1
  <2> QED
    BY <1>1, <2>1, <2>2
<1>5. ASSUME NEW k \in 0..C, k # 0
      PROVE  f[k] = f[k - 1] \cup {mem[a].next : a \in f[k - 1] \ {Null}}
  <2>1. k - 1 \in 0..C /\ k \in Nat
    BY <1>2, <1>5
  <2>2. f[k] = {At(s, n, i) : i \in 1..(k + 1)} /\ f[k - 1] = {At(s, n, i) : i \in 1..k}
    <3>1. (k - 1) + 1 = k
      BY <2>1
    <3> QED
      BY <1>3, <2>1, <3>1
  <2>3. \A a \in f[k - 1] : a # Null => mem[a].next \in f[k]
    <3>1. SUFFICES ASSUME NEW a \in f[k - 1], a # Null PROVE mem[a].next \in f[k]
      OBVIOUS
    <3>2. PICK i \in 1..k : a = At(s, n, i)
      BY <2>2
    <3>3. i \in 1..n /\ a = s[i]
      BY <3>1, <3>2 DEF At
    <3>4. i + 1 \in 1..(k + 1)
      BY <2>1
    <3> QED
      BY <1>1, <2>2, <3>3, <3>4
  <2>4. \A a \in f[k - 1] : a \in f[k]
    <3>1. \A i \in 1..k : i \in 1..(k + 1)
      BY <2>1
    <3> QED
      BY <2>2, <3>1
  <2>5. \A a \in f[k] : a \in f[k - 1] \/ \E b \in f[k - 1] \ {Null} : a = mem[b].next
    <3>1. SUFFICES ASSUME NEW a \in f[k], a \notin f[k - 1]
                   PROVE  \E b \in f[k - 1] \ {Null} : a = mem[b].next
      OBVIOUS
    <3>2. PICK i \in 1..(k + 1) : a = At(s, n, i)
      BY <2>2
    <3>3. i = k + 1
      BY <2>1, <2>2, <3>1, <3>2
    <3>4. k \in 1..k
      BY <1>5, <2>1
    <3>5. CASE k \in 1..n
      <4>1. s[k] \in f[k - 1] \ {Null} /\ mem[s[k]].next = At(s, n, k + 1)
        BY <1>1, <1>2, <2>2, <3>4, <3>5 DEF At
      <4> QED
        BY <3>2, <3>3, <4>1
    <3>6. CASE k \notin 1..n
      <4>1. At(s, n, k) = Null /\ At(s, n, k + 1) = Null
        BY <1>1, <1>5, <2>1, <3>6 DEF At
      <4> QED
        BY <2>2, <3>1, <3>2, <3>3, <3>4, <4>1
    <3> QED
      BY <3>5, <3>6
  <2> QED
    BY <2>3, <2>4, <2>5
<1>6. f = [k \in 0..C |-> f[k]]
  BY DEF f, Steps, C
<1>7. f = [k \in 0..C |->
             IF k = 0 THEN {head} ELSE f[k - 1] \cup {mem[a].next : a \in f[k - 1] \ {Null}}]
  BY <1>4, <1>5, <1>6
<1> QED
  BY <1>7 DEF Reached, f, C

LEMMA ReachedOnce ==
  ASSUME NEW f, NEW g, Reached(f), Reached(g)
  PROVE  f = g
<1> DEFINE C == Cardinality(Addresses)
           T == {k \in 0..C : f[k] # g[k]}
<1>1. C \in Nat
  BY TupleListAssumption, FS_CardinalityType
<1>2. \A h \in {f, g} :
        /\ h = [k \in 0..C |-> h[k]]
        /\ \A k \in 0..C : h[k] = IF k = 0 THEN {head}
             ELSE h[k - 1] \cup {mem[a].next : a \in h[k - 1] \ {Null}}
  BY DEF Reached
<1> HIDE DEF C
<1>3. ASSUME T # {} PROVE FALSE
  <2>1. T \in SUBSET Nat
    BY <1>1
  <2>2. PICK k \in T : \A j \in T : k <= j
    BY <1>3, <2>1, LeastNatural
  <2>3. k \in 0..C /\ f[k] # g[k]
    OBVIOUS
  <2>4. k # 0
    BY <1>2, <2>3
  <2>5. k - 1 \in 0..C /\ k - 1 \notin T
    BY <1>1, <2>2, <2>3, <2>4
  <2>6. f[k - 1] = g[k - 1]
    BY <2>5
  <2> QED
    BY <1>2, <2>3, <2>4, <2>6
<1>4. \A k \in 0..C : f[k] = g[k]
  BY <1>3
<1> QED
  BY <1>2, <1>4

LEMMA LinkedIs ==
  ASSUME NEW s, NEW n, ChainInv(s, n)
  PROVE  Linked = Elems(s, n)
<1> DEFINE C == Cardinality(Addresses)
           upto == CHOOSE f : Reached(f)
<1>1. C \in Nat /\ Null \notin Addresses /\ n <= C
  BY TupleListAssumption, FS_CardinalityType, LengthFits DEF Null
<1>2. Linked = upto[C] \ {Null}
  BY DEF Linked, Reached
<1>3. Reached(upto)
  BY StepsReach
<1>4. upto = Steps(s, n)
  BY <1>3, StepsReach, ReachedOnce
<1> HIDE DEF upto
<1>5. upto[C] = {At(s, n, i) : i \in 1..(C + 1)}
  BY <1>1, <1>4 DEF Steps
<1> HIDE DEF C
<1>6. /\ n \in Nat /\ s \in [1..n -> Addresses]
  BY DEF ChainInv
<1>7. \A i \in 1..n : i \in 1..(C + 1) /\ At(s, n, i) = s[i] /\ s[i] # Null
  BY <1>1, <1>6 DEF At
<1>8. \A i \in 1..(C + 1) : At(s, n, i) = Null \/ (i \in 1..n /\ At(s, n, i) = s[i])
  BY DEF At
<1> QED
  BY <1>2, <1>5, <1>7, <1>8 DEF Elems

(* Between calls, the allocated blocks are those of the list, the heap's   *)
(* semaphore is free and list->size, which pop decrements outside of the   *)
(* monitor, is the length of the list: nothing was lost.                   *)
THEOREM NothingIsLost ==
  ASSUME ConventionsKept, RoomToCount
  PROVE  Spec => []NothingLost
<1>1. ListInv => NothingLost
  <2>1. SUFFICES ASSUME ListInv, Quiet
                 PROVE  /\ live = Linked \cup {mem[a].data : a \in Linked}
                        /\ heap = Nobody
                        /\ size = Cardinality(Linked)
    BY DEF NothingLost
  <2>2. PICK n, s, G :
          /\ n \in Nat /\ s \in [1..n -> Addresses] /\ G \in SUBSET Addresses
          /\ ShapeInv(s, n, G)
    BY <2>1 DEF ListInv
  <2>3. ChainInv(s, n) /\ HeldInv(s, n) /\ SizeInv(n)
    BY <2>2 DEF ShapeInv
  <2>4. Linked = Elems(s, n) /\ Cardinality(Elems(s, n)) = n
    BY <2>3, LinkedIs, LengthFits
  <2>5. {mem[a].data : a \in Elems(s, n)} = Datas(s, n)
    BY DEF Elems, Datas
  <2>6. \A q \in Procs : Held(q) = {}
    BY <2>1 DEF Quiet, Held
  <2>7. live \subseteq Addresses /\ Elems(s, n) \subseteq Addresses /\ Datas(s, n) \subseteq Addresses
    BY <2>1, <2>3, ChainBlocks DEF ListInv, TypeInv
  <2>8. live = Elems(s, n) \cup Datas(s, n)
    BY <2>3, <2>6, <2>7 DEF HeldInv
  <2>9. size = n
    BY <2>1, <2>3 DEF Quiet, SizeInv
  <2>10. heap = Nobody
    BY <2>3 DEF HeldInv
  <2> QED
    BY <2>4, <2>5, <2>8, <2>9, <2>10
<1> QED
  BY <1>1, ListInvHolds, PTL

-----------------------------------------------------------------------------

(***************************************************************************)
(* The bucket is a set of tuples on which every call acts at once.         *)
(***************************************************************************)
(* Where pushes run together no two programs push the same tuple: the      *)
(* search for an equal tuple and the insertion are not one critical        *)
(* section (hash_table_t.c:31).                                            *)
NoSharedPushes ==
  \A c \in Conventions :
    {{"push", "pop"}, {"pop", "peek"}, {"pop"}} \subseteq c =>
      \A p, q \in Procs : \A r \in Calls[p] \cap Calls[q] : r.op = "push" => p = q

(* A call has its answer once it has acted and the answer is written.      *)
Answered(p) ==
  IF pc[p] \in {"signal", "return"} \/ (call[p].op = "pop" /\ pc[p] = "destroyTuple")
    THEN answer[p].status # 2
    ELSE answer[p] = Pending

(* What is in the list has been there during every peek that runs.         *)
Witnessed(p) == IF Peeks(p) THEN Stored \subseteq seen[p] ELSE seen[p] = {}

(* A peek beside a pop has what it can reach, removed or not, from its     *)
(* call's time.                                                            *)
Reach(p, R) ==
  /\ reg[p].at \in R \cup {Null}
  /\ \A a \in R : Readable(a) /\ mem[a].next \in R \cup {Null} /\ Value(a) \in seen[p]

Met(p) ==
  ~ PushesWithPeeks /\ pc[p] \in {"look", "getClone"} =>
    \E R \in SUBSET Addresses : Reach(p, R)

(* No tuple is in the list twice.  Behind p's search there is nothing that *)
(* it looks for, nor anywhere when its search found nothing.               *)
Distinct(s, n) == \A i, j \in 1..n : Value(s[i]) = Value(s[j]) => i = j

InsertLabels == {"insertEnter", "insertClone", "insertLink", "insertHead"}

Searched(p, s, n) ==
  /\ pc[p] \in {"isin", "scan"} =>
       \E k \in 1..(n + 1) :
         reg[p].at = At(s, n, k) /\ \A i \in 1..n : i < k => ~ Wants(p, s[i])
  /\ pc[p] \in InsertLabels => \A i \in 1..n : ~ Wants(p, s[i])

OrderInv(s, n) == Distinct(s, n) /\ \A p \in Procs : Searched(p, s, n)

SpaceInv ==
  /\ seen = [p \in Procs |-> seen[p]]
  /\ \A p \in Procs :
       call[p] \in Calls[p] \cup {NoCall} /\ Answered(p) /\ Witnessed(p) /\ Met(p)
  /\ \A n \in Nat : \A s \in [1..n -> Addresses] : ChainInv(s, n) => OrderInv(s, n)

(* The list has one chain.                                                 *)
IsChain(h, M, s, n) ==
  /\ n \in Nat /\ s \in [1..n -> Addresses] /\ h = At(s, n, 1)
  /\ \A i \in 1..n : M[s[i]].next = At(s, n, i + 1)

LEMMA OneChain ==
  ASSUME NEW h, NEW M, NEW s, NEW n, NEW z, NEW m,
         IsChain(h, M, s, n), IsChain(h, M, z, m)
  PROVE  s = z /\ n = m
<1> DEFINE T == {i \in Nat \ {0} : At(s, n, i) # At(z, m, i)}
<1>1. /\ n \in Nat /\ s \in [1..n -> Addresses] /\ h = At(s, n, 1)
      /\ \A i \in 1..n : M[s[i]].next = At(s, n, i + 1)
  BY DEF IsChain
<1>2. /\ m \in Nat /\ z \in [1..m -> Addresses] /\ h = At(z, m, 1)
      /\ \A i \in 1..m : M[z[i]].next = At(z, m, i + 1)
  BY DEF IsChain
<1>3. Null \notin Addresses
  BY TupleListAssumption DEF Null
<1>4. /\ \A i \in 1..n : At(s, n, i) = s[i] /\ s[i] # Null
      /\ \A i \in 1..m : At(z, m, i) = z[i] /\ z[i] # Null
      /\ \A i : (i \notin 1..n => At(s, n, i) = Null) /\ (i \notin 1..m => At(z, m, i) = Null)
  BY <1>1, <1>2, <1>3 DEF At
<1>5. T = {}
  <2>1. SUFFICES ASSUME T # {} PROVE FALSE
    OBVIOUS
  <2>2. T \in SUBSET Nat
    OBVIOUS
  <2>3. PICK i \in T : \A j \in T : i <= j
    BY <2>1, <2>2, LeastNatural
  <2>4. i \in Nat \ {0} /\ At(s, n, i) # At(z, m, i)
    OBVIOUS
  <2>5. i # 1
    BY <1>1, <1>2, <2>4
  <2>6. i - 1 \in Nat \ {0} /\ (i - 1) + 1 = i /\ ~ (i <= i - 1)
    BY <2>4, <2>5
  <2>7. At(s, n, i - 1) = At(z, m, i - 1)
    BY <2>3, <2>6
  <2>8. CASE i - 1 \in 1..n
    <3>1. i - 1 \in 1..m /\ z[i - 1] = s[i - 1]
      BY <1>4, <2>7, <2>8
    <3> QED
      BY <1>1, <1>2, <2>4, <2>6, <2>8, <3>1
  <2>9. CASE i - 1 \notin 1..n
    <3>1. i - 1 \notin 1..m
      BY <1>4, <2>7, <2>9
    <3>2. i \notin 1..n /\ i \notin 1..m
      BY <1>1, <1>2, <2>6, <2>9, <3>1
    <3> QED
      BY <1>4, <2>4, <3>2
  <2> QED
    BY <2>8, <2>9
<1>6. \A i \in Nat \ {0} : At(s, n, i) = At(z, m, i)
  BY <1>5
<1>7. \A i \in Nat \ {0} : i \in 1..n <=> i \in 1..m
  BY <1>4, <1>6
<1>8. n = m
  <2>1. ASSUME n < m PROVE FALSE
    <3>1. m \in Nat \ {0} /\ m \in 1..m /\ m \notin 1..n
      BY <1>1, <1>2, <2>1
    <3> QED
      BY <1>7, <3>1
  <2>2. ASSUME m < n PROVE FALSE
    <3>1. n \in Nat \ {0} /\ n \in 1..n /\ n \notin 1..m
      BY <1>1, <1>2, <2>2
    <3> QED
      BY <1>7, <3>1
  <2> QED
    BY <1>1, <1>2, <2>1, <2>2
<1>9. \A i \in 1..n : s[i] = z[i]
  <2>1. \A i \in 1..n : i \in Nat \ {0}
    OBVIOUS
  <2> QED
    BY <1>4, <1>6, <1>8, <2>1
<1> QED
  BY <1>1, <1>2, <1>8, <1>9

(* The tuples in the list.                                                 *)
Values(s, n) == {Value(s[i]) : i \in 1..n}

StoredInv ==
  \A n \in Nat : \A s \in [1..n -> Addresses] : ChainInv(s, n) => Stored = Values(s, n)

LEMMA StoredHolds == StoredInv
<1>1. SUFFICES ASSUME NEW n \in Nat, NEW s \in [1..n -> Addresses], ChainInv(s, n)
               PROVE  Stored = Values(s, n)
  BY DEF StoredInv
<1>2. Linked = Elems(s, n)
  BY <1>1, LinkedIs
<1>3. /\ Null \notin Addresses
      /\ \A i \in 1..n : s[i] \in Addresses /\ mem[s[i]].kind = "element"
      /\ \A i \in 1..n : Is(mem[s[i]].data, "tuple")
  BY <1>1, TupleListAssumption DEF ChainInv, Null
<1>4. \A i \in 1..n : Readable(s[i])
  BY <1>3 DEF Readable, Is
<1> QED
  BY <1>2, <1>4 DEF Stored, Values, Elems

LEMMA StoredNext == StoredInv'
BY StoredHolds, PTL

(* A step that leaves the chain and its tuples leaves the space.           *)
LEMMA StoredSame ==
  ASSUME NEW s, NEW n, ChainInv(s, n), ChainInv(s, n)',
         \A i \in 1..n : Value(s[i])' = Value(s[i])
  PROVE  Stored' = Stored
<1>1. n \in Nat /\ s \in [1..n -> Addresses]
  BY DEF ChainInv
<1>2. Stored = Values(s, n)
  BY <1>1, StoredHolds DEF StoredInv
<1>3. Stored' = Values(s, n)'
  BY <1>1, StoredNext DEF StoredInv
<1>4. Values(s, n)' = Values(s, n)
  BY DEF Values
<1> QED
  BY <1>2, <1>3, <1>4

AllOrdered ==
  \A n \in Nat : \A s \in [1..n -> Addresses] : ChainInv(s, n) => OrderInv(s, n)

(* It is enough to show the order of one chain.                            *)
LEMMA OrderedNext ==
  ASSUME NEW s, NEW n, ChainInv(s, n)', OrderInv(s, n)'
  PROVE  AllOrdered'
<1>1. SUFFICES ASSUME NEW m \in Nat, NEW z \in [1..m -> Addresses], ChainInv(z, m)'
               PROVE  OrderInv(z, m)'
  BY DEF AllOrdered
<1>2. IsChain(head', mem', s, n) /\ IsChain(head', mem', z, m)
  BY <1>1 DEF ChainInv, IsChain
<1>3. s = z /\ n = m
  BY <1>2, OneChain
<1> QED
  BY <1>3

(* What the space's users see of the answers, and of a step.               *)
Acted == [p \in Procs |-> ActedAs(p)]

Abstraction == Abstract!Next \/ UNCHANGED <<Stored, call, Acted, seen>>

(* What another process's search, walk and answer keep.                    *)
LEMMA SearchedSame ==
  ASSUME NEW q \in Procs, NEW s, NEW n, Searched(q, s, n), OtherAsBefore(q),
         \A i \in 1..n : Value(s[i])' = Value(s[i])
  PROVE  Searched(q, s, n)'
<1>1. /\ reg'[q] = reg[q] /\ call'[q] = call[q]
      /\ pc'[q] \in {"isin", "scan"} \cup InsertLabels => pc'[q] = pc[q]
  BY DEF OtherAsBefore, InsertLabels
<1>2. \A i \in 1..n : Wants(q, s[i])' <=> Wants(q, s[i])
  BY <1>1 DEF Wants
<1> QED
  BY <1>1, <1>2 DEF Searched

LEMMA MetSame ==
  ASSUME NEW q \in Procs, Met(q), OtherAsBefore(q), apart' = apart, mem' = mem,
         seen[q] \subseteq seen'[q]
  PROVE  Met(q)'
<1>1. SUFFICES ASSUME ~ PushesWithPeeks', pc'[q] \in {"look", "getClone"}
               PROVE  \E R \in SUBSET Addresses : Reach(q, R)'
  BY DEF Met
<1>2. ~ PushesWithPeeks /\ pc[q] \in {"look", "getClone"} /\ reg'[q] = reg[q]
  BY <1>1 DEF PushesWithPeeks, OtherAsBefore
<1>3. PICK R \in SUBSET Addresses : Reach(q, R)
  BY <1>2 DEF Met
<1>4. Reach(q, R)'
  BY <1>2, <1>3 DEF Reach, Readable, Is, Value
<1> QED
  BY <1>4

LEMMA ActsSame ==
  ASSUME NEW q \in Procs, OtherAsBefore(q), mem' = mem \/ pc[q] \notin RemoverLabels
  PROVE  ActedAs(q)' = ActedAs(q)
BY DEF OtherAsBefore, ActedAs, RemoverLabels, RemoveLabels

LEMMA AnsweredSame ==
  ASSUME NEW q \in Procs, Answered(q), OtherAsBefore(q)
  PROVE  Answered(q)'
BY DEF Answered, OtherAsBefore

LEMMA WitnessedSame ==
  ASSUME NEW q \in Procs, Witnessed(q), call'[q] = call[q], seen'[q] = seen[q],
         Stored' \subseteq Stored
  PROVE  Witnessed(q)'
BY DEF Witnessed, Peeks

(* A step of p that leaves the chain and the calls.                        *)
LEMMA SteadySpace ==
  ASSUME SpaceInv, NEW p \in Procs, NEW s, NEW n, ChainInv(s, n), ChainInv(s, n)',
         \A i \in 1..n : Value(s[i])' = Value(s[i]),
         call' = call, seen' = seen,
         \A q \in Procs \ {p} : OtherAsBefore(q) /\ Met(q)' /\ ActedAs(q)' = ActedAs(q),
         Answered(p)', Met(p)', Searched(p, s, n)'
  PROVE  SpaceInv' /\ Stored' = Stored /\ Acted' = [Acted EXCEPT ![p] = ActedAs(p)']
<1>1. Stored' = Stored
  BY StoredSame
<1>2. n \in Nat /\ s \in [1..n -> Addresses]
  BY DEF ChainInv
<1>3. OrderInv(s, n)
  BY <1>2 DEF SpaceInv
<1>4. OrderInv(s, n)'
  <2>1. Distinct(s, n)'
    BY <1>3 DEF OrderInv, Distinct
  <2>2. \A q \in Procs \ {p} : Searched(q, s, n)'
    BY <1>3, SearchedSame DEF OrderInv
  <2> QED
    BY <2>1, <2>2 DEF OrderInv
<1>5. AllOrdered'
  BY <1>4, OrderedNext
<1>6. \A q \in Procs : Answered(q)' /\ Met(q)'
  BY AnsweredSame DEF SpaceInv
<1>7. \A q \in Procs : Witnessed(q)'
  BY <1>1, WitnessedSame DEF SpaceInv
<1>8. SpaceInv'
  BY <1>5, <1>6, <1>7 DEF SpaceInv, AllOrdered
<1>9. Acted' = [Acted EXCEPT ![p] = ActedAs(p)']
  BY DEF Acted
<1> QED
  BY <1>1, <1>8, <1>9

(* ... and the blocks.                                                     *)
LEMMA QuietSpace ==
  ASSUME SpaceInv, NEW p \in Procs, NEW s, NEW n, ChainInv(s, n),
         UNCHANGED <<mem, head, apart, call, seen>>,
         \A q \in Procs \ {p} : OtherAsBefore(q),
         Answered(p)', Met(p)', Searched(p, s, n)'
  PROVE  SpaceInv' /\ Stored' = Stored /\ Acted' = [Acted EXCEPT ![p] = ActedAs(p)']
<1>1. ChainInv(s, n)'
  BY ChainSame
<1>2. \A i \in 1..n : Value(s[i])' = Value(s[i])
  BY DEF Value
<1>3. \A q \in Procs \ {p} : Met(q)' /\ ActedAs(q)' = ActedAs(q)
  BY MetSame, ActsSame DEF SpaceInv
<1> QED
  BY <1>1, <1>2, <1>3, SteadySpace

LEMMA QuietStutter ==
  ASSUME SpaceInv, NEW p \in Procs, NEW s, NEW n, ChainInv(s, n),
         UNCHANGED <<mem, head, apart, call, seen>>,
         \A q \in Procs \ {p} : OtherAsBefore(q),
         Answered(p)', Met(p)', Searched(p, s, n)', ActedAs(p)' = ActedAs(p)
  PROVE  SpaceInv' /\ Abstraction
<1>1. SpaceInv' /\ Stored' = Stored /\ Acted' = [Acted EXCEPT ![p] = ActedAs(p)']
  BY QuietSpace
<1>2. Acted' = Acted
  BY <1>1 DEF Acted
<1> QED
  BY <1>1, <1>2 DEF Abstraction

LEMMA SetsOthers ==
  ASSUME TypeInv, NEW p \in Procs, NEW values, sets(p, values)
  PROVE  \A q \in Procs \ {p} : reg'[q] = reg[q]
BY DEF sets, TypeInv

LEMMA AnswersOthers ==
  ASSUME TypeInv, NEW p \in Procs, NEW status, NEW t, answers(p, status, t)
  PROVE  /\ answer'[p] = [status |-> status, tuple |-> t]
         /\ \A q \in Procs \ {p} : answer'[q] = answer[q]
BY DEF answers, TypeInv

(* p moves on, to where it has nothing to look for.                        *)
PlainLabels == Labels \ ({"look", "getClone", "isin", "scan"} \cup InsertLabels)

LEMMA PlainHere ==
  ASSUME NEW p, NEW s, NEW n, pc'[p] \in PlainLabels
  PROVE  Met(p)' /\ Searched(p, s, n)'
BY DEF PlainLabels, Met, Searched, InsertLabels

LEMMA PlainMove ==
  ASSUME TypeInv, SpaceInv, NEW p \in Procs, NEW s, NEW n, ChainInv(s, n),
         NEW from, NEW to \in PlainLabels, move(p, from, to), UNCHANGED <<mem, head>>,
         \A q \in Procs \ {p} : reg'[q] = reg[q] /\ answer'[q] = answer[q],
         Answered(p)', ActedAs(p)' = ActedAs(p)
  PROVE  SpaceInv' /\ Abstraction
<1>1. Moves(p, from, to) /\ seen' = seen
  BY MoveMoves DEF PlainLabels
<1>2. \A q \in Procs \ {p} : OtherAsBefore(q)
  BY <1>1, MoveOthers
<1>3. call' = call /\ apart' = apart /\ pc'[p] = to
  BY <1>1 DEF Moves
<1> QED
  BY <1>1, <1>2, <1>3, PlainHere, QuietStutter

(***************************************************************************)
(* Pushes.                                                                 *)
(***************************************************************************)
LEMMA AbstractPush ==
  ASSUME NEW p \in Procs, call[p].op = "push", ActedAs(p) = Pending, call' = call,
         Stored' = Stored \cup {call[p].arg},
         seen' = [q \in Procs |-> IF Peeks(q) THEN seen[q] \cup {call[p].arg} ELSE {}],
         Acted' = [Acted EXCEPT ![p] =
           [status |-> IF call[p].arg \in Stored THEN 1 ELSE 0, tuple |-> NoValue]]
  PROVE  Abstraction
<1>1. Abstract!Push(p)
  <2>1. Abstract!Acts(p, "push")
    BY DEF Abstract!Acts, Abstract!Pending, Abstract!Nothing, Pending, NoValue
  <2>2. Abstract!Answers(p, Abstract!Status(IF call[p].arg \in Stored THEN 1 ELSE 0))
    BY DEF Abstract!Answers, Abstract!Status, Abstract!Nothing, Acted, NoValue
  <2> QED
    BY <2>1, <2>2 DEF Abstract!Push, Abstract!Peeks, Peeks
<1> QED
  BY <1>1 DEF Abstraction, Abstract!Next

LEMMA IsInSpace ==
  ASSUME BaseInv, SpaceInv, NEW p \in Procs, is_in(p), NEW s, NEW n, ChainInv(s, n)
  PROVE  SpaceInv' /\ Abstraction
<1>1. TypeInv /\ LabelOK(p) /\ Answered(p) /\ \A q \in Procs : Witnessed(q)
  BY DEF BaseInv, LabelInv, SpaceInv
<1>2. Moves(p, "isin", "return") /\ seen' = seen
  BY <1>1, MoveMoves DEF is_in, Labels
<1>3. /\ UNCHANGED <<mem, head, reg>> /\ at_match(p)
      /\ answer'[p] = [status |-> 1, tuple |-> NoValue]
      /\ \A q \in Procs \ {p} : answer'[q] = answer[q]
  BY <1>1, AnswersOthers DEF is_in, blocks, list
<1>4. /\ pc[p] = "isin" /\ pc'[p] = "return" /\ call' = call /\ apart' = apart
      /\ call[p].op = "push"
  BY <1>1, <1>2 DEF Moves, LabelOK, PushLabels, PeekLabels, RemoveLabels
<1>5. \A q \in Procs \ {p} : OtherAsBefore(q)
  BY <1>2, <1>3, MoveOthers
<1>6. Answered(p)'
  BY <1>3, <1>4 DEF Answered
<1>7. Met(p)' /\ Searched(p, s, n)'
  BY <1>4, PlainHere DEF PlainLabels, Labels, InsertLabels
<1>8. SpaceInv' /\ Stored' = Stored /\ Acted' = [Acted EXCEPT ![p] = ActedAs(p)']
  BY <1>2, <1>3, <1>4, <1>5, <1>6, <1>7, QuietSpace
<1>9. n \in Nat /\ s \in [1..n -> Addresses]
  BY DEF ChainInv
<1>10. call[p].arg \in Stored
  <2>1. PICK k \in 1..(n + 1) : reg[p].at = At(s, n, k)
    BY <1>4, <1>9 DEF SpaceInv, OrderInv, Searched
  <2>2. reg[p].at # Null /\ Value(reg[p].at) = call[p].arg
    BY <1>3, <1>4 DEF at_match, Readable, Is, Wants
  <2>3. k \in 1..n /\ Value(s[k]) = call[p].arg
    BY <2>1, <2>2 DEF At
  <2>4. Stored = Values(s, n)
    BY <1>9, StoredHolds DEF StoredInv
  <2> QED
    BY <2>3, <2>4 DEF Values
<1>11. seen' = [q \in Procs |-> IF Peeks(q) THEN seen[q] \cup {call[p].arg} ELSE {}]
  <2>1. \A q \in Procs : seen[q] = IF Peeks(q) THEN seen[q] \cup {call[p].arg} ELSE {}
    BY <1>1, <1>10 DEF Witnessed
  <2>2. seen = [q \in Procs |-> seen[q]]
    BY DEF SpaceInv
  <2> QED
    BY <1>2, <2>1, <2>2
<1>12. ActedAs(p)' = [status |-> 1, tuple |-> NoValue] /\ ActedAs(p) = Pending
  BY <1>1, <1>3, <1>4 DEF ActedAs, Answered
<1> QED
  BY <1>4, <1>8, <1>10, <1>11, <1>12, AbstractPush

LEMMA IsNotInSpace ==
  ASSUME BaseInv, SpaceInv, NEW p \in Procs, is_not_in(p), NEW s, NEW n, ChainInv(s, n)
  PROVE  SpaceInv' /\ Abstraction
<1>1. TypeInv /\ LabelOK(p) /\ Answered(p)
  BY DEF BaseInv, LabelInv, SpaceInv
<1>2. Moves(p, "isin", "insertEnter") /\ seen' = seen
  BY <1>1, MoveMoves DEF is_not_in, Labels
<1>3. UNCHANGED <<mem, head, answer>> /\ reg[p].at = Null
  BY DEF is_not_in, list
<1>4. \A q \in Procs \ {p} : reg'[q] = reg[q]
  BY <1>1, SetsOthers DEF is_not_in
<1>5. /\ pc[p] = "isin" /\ pc'[p] = "insertEnter" /\ call' = call /\ apart' = apart
      /\ call[p].op = "push"
  BY <1>1, <1>2 DEF Moves, LabelOK, PushLabels, PeekLabels, RemoveLabels
<1>6. \A q \in Procs \ {p} : OtherAsBefore(q)
  BY <1>2, <1>3, <1>4, MoveOthers
<1>7. Answered(p)' /\ Met(p)' /\ ActedAs(p)' = ActedAs(p)
  BY <1>1, <1>3, <1>5 DEF Answered, Met, ActedAs
<1>8. Searched(p, s, n)'
  <2>1. n \in Nat /\ s \in [1..n -> Addresses] /\ Null \notin Addresses
    BY TupleListAssumption DEF ChainInv, Null
  <2>2. PICK k \in 1..(n + 1) :
          reg[p].at = At(s, n, k) /\ \A i \in 1..n : i < k => ~ Wants(p, s[i])
    BY <1>5, <2>1 DEF SpaceInv, OrderInv, Searched
  <2>3. k \notin 1..n
    BY <1>3, <2>1, <2>2 DEF At
  <2>4. \A i \in 1..n : i < k
    BY <2>1, <2>3
  <2>5. \A i \in 1..n : ~ Wants(p, s[i])'
    BY <1>3, <1>5, <2>2, <2>4 DEF Wants, Value
  <2> QED
    BY <1>5, <2>5 DEF Searched
<1> QED
  BY <1>2, <1>3, <1>5, <1>6, <1>7, <1>8, QuietStutter

(* An element that will be inserted is prepared.                           *)
LEMMA PushLabelSpace ==
  ASSUME NEW p \in Procs, NEW s, NEW n, Searched(p, s, n),
         pc[p] \in InsertLabels, pc'[p] \in InsertLabels, call' = call,
         \A i \in 1..n : Value(s[i])' = Value(s[i])
  PROVE  Searched(p, s, n)'
<1>1. \A i \in 1..n : ~ Wants(p, s[i])'
  BY DEF Searched, Wants
<1> QED
  BY <1>1 DEF Searched, InsertLabels

LEMMA InsertEnterSpace ==
  ASSUME BaseInv, SpaceInv, NEW p \in Procs, insert_enter(p), NEW s, NEW n, ChainInv(s, n)
  PROVE  SpaceInv' /\ Abstraction
<1>1. TypeInv /\ Answered(p)
  BY DEF BaseInv, SpaceInv
<1>2. Moves(p, "insertEnter", "insertClone") /\ seen' = seen
  BY <1>1, MoveMoves DEF insert_enter, Labels
<1>3. UNCHANGED <<mem, head, answer, reg>>
  BY DEF insert_enter, blocks
<1>4. pc[p] = "insertEnter" /\ pc'[p] = "insertClone" /\ call' = call /\ apart' = apart
  BY <1>2 DEF Moves
<1>5. \A q \in Procs \ {p} : OtherAsBefore(q)
  BY <1>2, <1>3, MoveOthers
<1>6. Answered(p)' /\ Met(p)' /\ ActedAs(p)' = ActedAs(p)
  BY <1>1, <1>3, <1>4 DEF Answered, Met, ActedAs
<1>7. Searched(p, s, n)'
  <2>1. Searched(p, s, n)
    BY DEF SpaceInv, OrderInv, ChainInv
  <2> QED
    BY <1>3, <1>4, <2>1, PushLabelSpace DEF Value, InsertLabels
<1> QED
  BY <1>2, <1>3, <1>4, <1>5, <1>6, <1>7, QuietStutter

(* ... by writing into a block that is not in the list: no peek stands at  *)
(* removed elements then.                                                  *)
LEMMA WritesSpace ==
  ASSUME BaseInv, BesideInv, SpaceInv, NEW p \in Procs,
         NEW from \in InsertLabels, NEW to \in InsertLabels, Moves(p, from, to),
         NEW s, NEW n, ChainInv(s, n), ChainInv(s, n)',
         \A i \in 1..n : Value(s[i])' = Value(s[i]),
         seen' = seen, answer' = answer, \A q \in Procs \ {p} : reg'[q] = reg[q]
  PROVE  SpaceInv' /\ Abstraction
<1>1. /\ pc[p] = from /\ pc'[p] = to /\ call' = call /\ apart' = apart
      /\ \A q \in Procs \ {p} : pc'[q] = pc[q]
  BY DEF Moves
<1>2. pc[p] \in PushLabels
  BY <1>1 DEF InsertLabels, PushLabels
<1>3. \A q \in Procs \ {p} : OtherAsBefore(q)
  BY MoveOthers
<1>4. \A q \in Procs \ {p} : ActedAs(q)' = ActedAs(q)
  BY <1>2, <1>3, PushCompany, ActsSame
<1>5. \A q \in Procs \ {p} : Met(q)'
  <2>1. \A q \in Procs \ {p} : ~ PushesWithPeeks => pc[q] \in {"idle", "wait"}
    BY <1>2, PushCompany
  <2>2. PushesWithPeeks' = PushesWithPeeks
    BY <1>1 DEF PushesWithPeeks
  <2> QED
    BY <1>1, <2>1, <2>2 DEF Met
<1>6. Answered(p)' /\ Met(p)' /\ ActedAs(p)' = ActedAs(p)
  BY <1>1 DEF Answered, Met, ActedAs, InsertLabels, SpaceInv
<1>7. Searched(p, s, n)'
  <2>1. Searched(p, s, n)
    BY DEF SpaceInv, OrderInv, ChainInv
  <2> QED
    BY <1>1, <2>1, PushLabelSpace
<1>8. SpaceInv' /\ Stored' = Stored /\ Acted' = [Acted EXCEPT ![p] = ActedAs(p)']
  BY <1>1, <1>3, <1>4, <1>5, <1>6, <1>7, SteadySpace
<1>9. Acted' = Acted
  BY <1>6, <1>8 DEF Acted
<1> QED
  BY <1>1, <1>8, <1>9 DEF Abstraction

LEMMA ValuesElsewhere ==
  ASSUME TypeInv, NEW s, NEW n, ChainInv(s, n),
         NEW b, b \notin Elems(s, n), b \notin Datas(s, n),
         \A x \in Addresses \ {b} : mem'[x] = mem[x]
  PROVE  \A i \in 1..n : Value(s[i])' = Value(s[i])
<1>1. \A i \in 1..n : s[i] \in Addresses /\ s[i] # b /\ mem[s[i]].data \in Addresses
                      /\ mem[s[i]].data # b
  BY ChainBlocks DEF Elems, Datas
<1>2. \A i \in 1..n : mem'[s[i]] = mem[s[i]] /\ mem'[mem[s[i]].data] = mem[mem[s[i]].data]
  BY <1>1
<1> QED
  BY <1>2 DEF Value

LEMMA InsertCloneSpace ==
  ASSUME BaseInv, BesideInv, SpaceInv, NEW p \in Procs, insert_clone(p),
         NEW s, NEW n, NEW G, ShapeInv(s, n, G)
  PROVE  SpaceInv' /\ Abstraction
<1>1. TypeInv /\ ChainInv(s, n) /\ HeldInv(s, n)
  BY ShapeParts DEF BaseInv
<1>2. Moves(p, "insertClone", "insertLink") /\ seen' = seen
  BY <1>1, MoveMoves DEF insert_clone, Labels
<1>3. PICK a \in Addresses :
        /\ balloc(a) /\ mem' = [mem EXCEPT ![a] = Tuple(call[p].arg)]
        /\ sets(p, [data |-> a])
  BY DEF insert_clone
<1>4. answer' = answer /\ \A q \in Procs \ {p} : reg'[q] = reg[q]
  BY <1>1, <1>3, SetsOthers DEF insert_clone
<1>5. a \notin Elems(s, n) /\ a \notin Datas(s, n)
  BY <1>1, <1>3, BallocFresh DEF HeldInv
<1>6. \A x \in Addresses \ {a} : mem'[x] = mem[x]
  BY <1>1, <1>3 DEF TypeInv
<1>7. \A i \in 1..n : Value(s[i])' = Value(s[i])
  BY <1>1, <1>5, <1>6, ValuesElsewhere
<1>8. ChainInv(s, n)'
  BY InsertCloneShape DEF ShapeInv
<1> QED
  BY <1>1, <1>2, <1>4, <1>7, <1>8, WritesSpace DEF InsertLabels

LEMMA InsertLinkSpace ==
  ASSUME BaseInv, BesideInv, SpaceInv, NEW p \in Procs, insert_link(p),
         NEW s, NEW n, NEW G, ShapeInv(s, n, G)
  PROVE  SpaceInv' /\ Abstraction
<1>1. TypeInv /\ ChainInv(s, n) /\ HeldInv(s, n)
  BY ShapeParts DEF BaseInv
<1>2. Moves(p, "insertLink", "insertHead") /\ seen' = seen
  BY <1>1, MoveMoves DEF insert_link, Labels
<1>3. /\ mem' = [mem EXCEPT ![reg[p].new] = Element(reg[p].data, head)]
      /\ answer' = answer /\ reg' = reg
  BY DEF insert_link
<1>4. reg[p].new \notin Elems(s, n) /\ reg[p].new \notin Datas(s, n)
  BY <1>1, <1>2 DEF HeldInv, Held, Moves
<1>5. \A x \in Addresses \ {reg[p].new} : mem'[x] = mem[x]
  BY <1>1, <1>3 DEF TypeInv
<1>6. \A i \in 1..n : Value(s[i])' = Value(s[i])
  BY <1>1, <1>4, <1>5, ValuesElsewhere
<1>7. ChainInv(s, n)'
  BY InsertLinkShape DEF ShapeInv
<1> QED
  BY <1>1, <1>2, <1>3, <1>6, <1>7, WritesSpace DEF InsertLabels

(* Programs that push beside each other push different tuples.             *)
LEMMA PushesDiffer ==
  ASSUME NoSharedPushes, TypeInv, PushesWithPeeks, NEW p \in Procs, NEW q \in Procs, p # q,
         call[p] \in Calls[p], call[q] \in Calls[q],
         call[p].op = "push", call[q].op = "push"
  PROVE  call[p].arg # call[q].arg
<1>1. call[p] # call[q]
  BY DEF NoSharedPushes, PushesWithPeeks, TypeInv
<1>2. \A c \in Requests : c.op = "push" => c = [op |-> "push", arg |-> c.arg]
  BY DEF Requests, DestroyCall
<1>3. call[p] \in Requests /\ call[q] \in Requests
  BY CallsAssumption
<1>4. /\ call[p] = [op |-> "push", arg |-> call[p].arg]
      /\ call[q] = [op |-> "push", arg |-> call[q].arg]
  BY <1>2, <1>3
<1> QED
  BY <1>1, <1>4

(* The new element, in front, moves each search on by one.                 *)
LEMMA LongerSearched ==
  ASSUME NEW q \in Procs, NEW s, NEW n \in Nat, NEW b, NEW z, NEW m, IsLonger(z, m, s, n, b),
         Searched(q, s, n), pc'[q] = pc[q], reg'[q] = reg[q], call'[q] = call[q],
         mem' = mem,
         pc[q] \in {"isin", "scan"} \cup InsertLabels => ~ Wants(q, b)
  PROVE  Searched(q, z, m)'
<1>1. \A a : Wants(q, a)' <=> Wants(q, a)
  BY DEF Wants, Value
<1>2. /\ m = n + 1 /\ z[1] = b
      /\ \A i \in 1..m : i = 1 \/ (i - 1 \in 1..n /\ z[i] = s[i - 1])
      /\ \A i \in Nat \ {0} : At(z, m, i + 1) = At(s, n, i)
  BY DEF IsLonger
<1>3. ASSUME pc'[q] \in {"isin", "scan"}
      PROVE  \E k \in 1..(m + 1) :
               reg'[q].at = At(z, m, k) /\ \A i \in 1..m : i < k => ~ Wants(q, z[i])'
  <2>1. PICK k \in 1..(n + 1) :
          reg[q].at = At(s, n, k) /\ \A i \in 1..n : i < k => ~ Wants(q, s[i])
    BY <1>3 DEF Searched
  <2>2. k + 1 \in 1..(m + 1) /\ reg'[q].at = At(z, m, k + 1)
    BY <1>2, <2>1
  <2>3. ASSUME NEW i \in 1..m, i < k + 1 PROVE ~ Wants(q, z[i])'
    <3>1. CASE i = 1
      BY <1>1, <1>2, <1>3, <3>1
    <3>2. CASE i # 1
      <4>1. i - 1 \in 1..n /\ z[i] = s[i - 1] /\ i - 1 < k
        BY <1>2, <2>3, <3>2
      <4> QED
        BY <1>1, <2>1, <4>1
    <3> QED
      BY <3>1, <3>2
  <2> QED
    BY <2>2, <2>3
<1>4. ASSUME pc'[q] \in InsertLabels, NEW i \in 1..m PROVE ~ Wants(q, z[i])'
  <2>1. CASE i = 1
    BY <1>1, <1>2, <1>4, <2>1
  <2>2. CASE i # 1
    <3>1. i - 1 \in 1..n /\ z[i] = s[i - 1]
      BY <1>2, <2>2
    <3> QED
      BY <1>1, <1>4, <3>1 DEF Searched
  <2> QED
    BY <2>1, <2>2
<1> QED
  BY <1>3, <1>4 DEF Searched

LEMMA LongerValues ==
  ASSUME NEW s, NEW n, NEW b, NEW z, NEW m, n \in Nat, IsLonger(z, m, s, n, b)
  PROVE  Values(z, m) = Values(s, n) \cup {Value(b)}
<1>1. /\ m = n + 1 /\ z[1] = b
      /\ \A i \in 1..n : i + 1 \in 1..m /\ z[i + 1] = s[i]
      /\ \A i \in 1..m : i = 1 \/ (i - 1 \in 1..n /\ z[i] = s[i - 1])
  BY DEF IsLonger
<1>2. 1 \in 1..m
  BY <1>1
<1>3. \A i \in 1..m : Value(z[i]) \in Values(s, n) \cup {Value(b)}
  BY <1>1 DEF Values
<1>4. \A i \in 1..n : Value(s[i]) \in Values(z, m)
  <2>1. ASSUME NEW i \in 1..n PROVE Value(s[i]) \in Values(z, m)
    <3>1. i + 1 \in 1..m /\ z[i + 1] = s[i]
      BY <1>1
    <3> QED
      BY <3>1 DEF Values
  <2> QED
    BY <2>1
<1> QED
  BY <1>1, <1>2, <1>3, <1>4 DEF Values

LEMMA LongerDistinct ==
  ASSUME NEW s, NEW n, NEW b, NEW z, NEW m, n \in Nat, IsLonger(z, m, s, n, b),
         Distinct(s, n), Value(b) \notin Values(s, n)
  PROVE  Distinct(z, m)
<1>1. /\ m = n + 1 /\ z[1] = b
      /\ \A i \in 1..m : i = 1 \/ (i - 1 \in 1..n /\ z[i] = s[i - 1])
  BY DEF IsLonger
<1>2. ASSUME NEW i \in 1..m, i # 1 PROVE Value(z[i]) # Value(z[1])
  <2>1. i - 1 \in 1..n /\ z[i] = s[i - 1]
    BY <1>1, <1>2
  <2> QED
    BY <1>1, <2>1 DEF Values
<1>3. ASSUME NEW i \in 1..m, NEW j \in 1..m, Value(z[i]) = Value(z[j]) PROVE i = j
  <2>1. CASE i = 1 \/ j = 1
    BY <1>2, <1>3, <2>1
  <2>2. CASE i # 1 /\ j # 1
    <3>1. i - 1 \in 1..n /\ z[i] = s[i - 1] /\ j - 1 \in 1..n /\ z[j] = s[j - 1]
      BY <1>1, <2>2
    <3>2. i - 1 = j - 1
      BY <1>3, <3>1 DEF Distinct
    <3> QED
      BY <1>1, <3>2
  <2> QED
    BY <2>1, <2>2
<1> QED
  BY <1>3 DEF Distinct

(* What the others know when an element becomes the head.                  *)
LEMMA InsertHeadOthers ==
  ASSUME NoSharedPushes, BaseInv, BesideInv, SpaceInv, NEW p \in Procs, pc[p] = "insertHead",
         call[p].op = "push", NEW b, Value(b) = call[p].arg, NEW q \in Procs \ {p}
  PROVE  /\ pc[q] \in {"isin", "scan"} \cup InsertLabels => ~ Wants(q, b)
         /\ ~ PushesWithPeeks => pc[q] \notin {"look", "getClone"}
<1>1. pc[p] \in PushLabels
  BY DEF PushLabels
<1>2. pc[q] \notin RemoverLabels /\ (~ PushesWithPeeks => pc[q] \in {"idle", "wait"})
  BY <1>1, PushCompany
<1>3. ASSUME pc[q] \in {"isin", "scan"} \cup InsertLabels PROVE ~ Wants(q, b)
  <2>1. pc[q] \in PushLabels /\ PushesWithPeeks
    BY <1>2, <1>3 DEF RemoverLabels, InsertLabels, PushLabels
  <2>2. LabelOK(q)
    BY DEF BaseInv, LabelInv
  <2>3. call[q].op = "push"
    BY <2>1, <2>2 DEF LabelOK, PushLabels, PeekLabels, RemoveLabels
  <2>4. call[p] \in Calls[p] /\ call[q] \in Calls[q]
    BY <2>3 DEF SpaceInv, NoCall
  <2>5. call[p].arg # call[q].arg
    BY <2>1, <2>3, <2>4, PushesDiffer DEF BaseInv
  <2> QED
    BY <2>3, <2>5 DEF Wants
<1> QED
  BY <1>2, <1>3

LEMMA InsertHeadSpace ==
  ASSUME NoSharedPushes, BaseInv, BesideInv, SpaceInv, NEW p \in Procs, insert_head(p),
         NEW s, NEW n, NEW G, ShapeInv(s, n, G)
  PROVE  SpaceInv' /\ Abstraction
<1>1. /\ TypeInv /\ LabelOK(p) /\ Answered(p)
      /\ ChainInv(s, n) /\ HeldInv(s, n) /\ RegInv(p, s, n, G)
  BY ShapeParts DEF BaseInv, LabelInv, SpaceInv
<1>2. Moves(p, "insertHead", "grow")
  BY <1>1 DEF insert_head, TypeInv, Moves, Labels, program
<1>3. /\ UNCHANGED <<mem, answer, reg>> /\ head' = reg[p].new
      /\ seen' = [q \in Procs |-> IF Peeks(q) THEN seen[q] \cup {call[p].arg} ELSE {}]
  BY DEF insert_head, blocks
<1>4. \A q \in Procs \ {p} : OtherAsBefore(q)
  BY <1>2, <1>3, MoveOthers
<1>5. /\ pc[p] = "insertHead" /\ pc'[p] = "grow" /\ call' = call /\ apart' = apart
      /\ call[p].op = "push" /\ \A q \in Procs \ {p} : pc'[q] = pc[q]
  BY <1>1, <1>2 DEF Moves, LabelOK, PushLabels, PeekLabels, RemoveLabels
<1>6. PICK b, d :
        /\ b \in Addresses /\ d \in Addresses
        /\ b = reg[p].new /\ d = reg[p].data
        /\ mem[d] = Tuple(call[p].arg) /\ mem[b] = Element(d, head)
  BY <1>1, <1>5 DEF RegInv
<1>7. b \notin Elems(s, n) /\ d \notin Datas(s, n)
  <2>1. b \in Held(p) /\ d \in Held(p)
    BY <1>5, <1>6 DEF Held
  <2> QED
    BY <1>1, <2>1 DEF HeldInv
<1> DEFINE z == Longer(s, n, b)
           m == n + 1
<1>8. n \in Nat /\ s \in [1..n -> Addresses]
  BY <1>1 DEF ChainInv
<1>9. IsLonger(z, m, s, n, b)
  BY <1>6, <1>8, LongerIs
<1> HIDE DEF z, m
<1>10. ChainInv(z, m)'
  <2>1. mem[d].kind = "tuple"
    BY <1>6 DEF Tuple
  <2> QED
    BY <1>1, <1>3, <1>6, <1>7, <1>9, <2>1, LongerChain
<1>11. Value(b) = call[p].arg
  BY <1>6 DEF Value, Element, Tuple
<1>12. \A q \in Procs : Searched(q, s, n) /\ Distinct(s, n)
  BY <1>1, <1>8 DEF SpaceInv, OrderInv
<1>13. Stored = Values(s, n) /\ Stored' = Stored \cup {call[p].arg}
  <2>1. Stored = Values(s, n)
    BY <1>1, <1>8, StoredHolds DEF StoredInv
  <2>2. m \in Nat /\ z \in [1..m -> Addresses]
    BY <1>9 DEF IsLonger
  <2>3. Stored' = Values(z, m)'
    BY <1>10, <2>2, StoredNext DEF StoredInv
  <2>4. Values(z, m)' = Values(z, m)
    BY <1>3 DEF Values, Value
  <2> QED
    BY <1>8, <1>9, <1>11, <2>1, <2>3, <2>4, LongerValues
<1>14. call[p].arg \notin Stored
  <2>1. \A i \in 1..n : ~ Wants(p, s[i])
    BY <1>5, <1>12 DEF Searched, InsertLabels
  <2> QED
    BY <1>5, <1>13, <2>1 DEF Values, Wants
<1>15. \A q \in Procs \ {p} :
         /\ pc[q] \in {"isin", "scan"} \cup InsertLabels => ~ Wants(q, b)
         /\ ~ PushesWithPeeks => pc[q] \notin {"look", "getClone"}
  BY <1>5, <1>11, InsertHeadOthers
<1>16. AllOrdered'
  <2>1. Distinct(z, m)
    BY <1>8, <1>9, <1>11, <1>12, <1>13, <1>14, LongerDistinct
  <2>2. Distinct(z, m)'
    BY <1>3, <2>1 DEF Distinct, Value
  <2>3. \A q \in Procs \ {p} : Searched(q, z, m)'
    BY <1>3, <1>5, <1>8, <1>9, <1>12, <1>15, LongerSearched
  <2>4. Searched(p, z, m)'
    BY <1>5 DEF Searched, InsertLabels
  <2>5. OrderInv(z, m)'
    BY <2>2, <2>3, <2>4 DEF OrderInv
  <2> QED
    BY <1>10, <2>5, OrderedNext
<1>17. \A q \in Procs : Answered(q)' /\ Met(q)'
  <2>1. Answered(p)' /\ Met(p)'
    BY <1>1, <1>3, <1>5 DEF Answered, Met
  <2>2. \A q \in Procs \ {p} : Answered(q)'
    BY <1>4, AnsweredSame DEF SpaceInv
  <2>3. \A q \in Procs \ {p} : Met(q)'
    BY <1>5, <1>15 DEF Met, PushesWithPeeks
  <2> QED
    BY <2>1, <2>2, <2>3
<1>18. \A q \in Procs : Witnessed(q)'
  BY <1>3, <1>5, <1>13 DEF SpaceInv, Witnessed, Peeks
<1>19. SpaceInv'
  <2>1. \A q \in Procs : call'[q] \in Calls[q] \cup {NoCall}
    BY <1>5 DEF SpaceInv
  <2>2. seen' = [q \in Procs |-> seen'[q]]
    BY <1>3
  <2> QED
    BY <1>16, <1>17, <1>18, <2>1, <2>2 DEF SpaceInv, AllOrdered
<1>20. Abstraction
  <2>1. ActedAs(p) = Pending /\ ActedAs(p)' = [status |-> 0, tuple |-> NoValue]
    BY <1>1, <1>5 DEF ActedAs, Answered
  <2>2. \A q \in Procs \ {p} : ActedAs(q)' = ActedAs(q)
    BY <1>3, <1>4, ActsSame
  <2>3. Acted' = [Acted EXCEPT ![p] = [status |-> 0, tuple |-> NoValue]]
    BY <2>1, <2>2 DEF Acted
  <2> QED
    BY <1>3, <1>5, <1>13, <1>14, <2>1, <2>3, AbstractPush
<1> QED
  BY <1>19, <1>20

LEMMA PushPlainSpace ==
  ASSUME BaseInv, SpaceInv, NEW p \in Procs, grow_read(p) \/ grow_write(p) \/ put_leave(p),
         NEW s, NEW n, ChainInv(s, n)
  PROVE  SpaceInv' /\ Abstraction
<1>1. TypeInv /\ Answered(p)
  BY DEF BaseInv, SpaceInv
<1>2. PICK from, to :
        /\ move(p, from, to)
        /\ from \in {"grow", "grown", "leave"} /\ to \in {"grown", "leave", "broadcast"}
  BY DEF grow_read, grow_write, put_leave
<1>3. to \in PlainLabels
  BY <1>2 DEF PlainLabels, Labels, InsertLabels
<1>4. UNCHANGED <<mem, head, answer>> /\ \A q \in Procs \ {p} : reg'[q] = reg[q]
  BY <1>1, SetsOthers DEF grow_read, grow_write, put_leave, blocks, list
<1>5. pc[p] = from /\ pc'[p] = to /\ call' = call
  BY <1>1, <1>2, <1>3, MoveMoves DEF Moves, PlainLabels
<1>6. Answered(p)' /\ ActedAs(p)' = ActedAs(p)
  BY <1>1, <1>2, <1>4, <1>5 DEF Answered, ActedAs
<1> QED
  BY <1>1, <1>2, <1>3, <1>4, <1>6, PlainMove

LEMMA PutBroadcastSpace ==
  ASSUME BaseInv, SpaceInv, NEW p \in Procs, put_broadcast(p),
         NEW s, NEW n, ChainInv(s, n)
  PROVE  SpaceInv' /\ Abstraction
<1>1. TypeInv /\ Answered(p) /\ LabelOK(p)
  BY DEF BaseInv, SpaceInv, LabelInv
<1>2. /\ pc[p] = "broadcast" /\ pc'[p] = "return"
      /\ \A q \in Procs \ {p} : pc'[q] = pc[q] \/ (pc[q] = "wait" /\ pc'[q] = "enter")
      /\ UNCHANGED <<mem, head, call, reg, apart, seen>>
  BY DEF put_broadcast, blocks, list, program
<1>3. /\ answer'[p] = [status |-> 0, tuple |-> NoValue]
      /\ \A q \in Procs \ {p} : answer'[q] = answer[q]
  BY <1>1, AnswersOthers DEF put_broadcast
<1>4. \A q \in Procs \ {p} : OtherAsBefore(q)
  BY <1>2, <1>3 DEF OtherAsBefore
<1>5. call[p].op = "push"
  BY <1>1, <1>2 DEF LabelOK, PushLabels, PeekLabels, RemoveLabels
<1>6. Answered(p)' /\ ActedAs(p)' = ActedAs(p)
  BY <1>2, <1>3, <1>5 DEF Answered, ActedAs
<1>7. Met(p)' /\ Searched(p, s, n)'
  BY <1>2, PlainHere DEF PlainLabels, Labels, InsertLabels
<1> QED
  BY <1>2, <1>4, <1>6, <1>7, QuietStutter

(***************************************************************************)
(* Pops and the destruction of the list, but for the moment at which they  *)
(* act.                                                                    *)
(***************************************************************************)
LEMMA ScanPlainSpace ==
  ASSUME BaseInv, SpaceInv, NEW p \in Procs,
         remove_match(p) \/ remove_test(p) \/ remove_data(p) \/ remove_old(p),
         NEW s, NEW n, ChainInv(s, n)
  PROVE  SpaceInv' /\ Abstraction
<1>1. TypeInv /\ Answered(p)
  BY DEF BaseInv, SpaceInv
<1>2. PICK from, to :
        /\ move(p, from, to)
        /\ from \in {"scan", "remove", "data", "old"}
        /\ to \in {"remove", "data", "old", "unlink"}
  BY DEF remove_match, remove_test, remove_data, remove_old
<1>3. to \in PlainLabels
  BY <1>2 DEF PlainLabels, Labels, InsertLabels
<1>4. UNCHANGED <<mem, head, answer>> /\ \A q \in Procs \ {p} : reg'[q] = reg[q]
  BY <1>1, SetsOthers DEF remove_match, remove_test, remove_data, remove_old, blocks, list
<1>5. pc[p] = from /\ pc'[p] = to /\ call' = call
  BY <1>1, <1>2, <1>3, MoveMoves DEF Moves, PlainLabels
<1>6. Answered(p)' /\ ActedAs(p)' = ActedAs(p)
  BY <1>1, <1>2, <1>4, <1>5 DEF Answered, ActedAs
<1> QED
  BY <1>1, <1>2, <1>3, <1>4, <1>6, PlainMove

LEMMA ShrinkPlainSpace ==
  ASSUME BaseInv, SpaceInv, NEW p \in Procs,
         remove_free(p) \/ shrink_read(p) \/ shrink_write(p),
         NEW s, NEW n, ChainInv(s, n)
  PROVE  SpaceInv' /\ Abstraction
<1>1. TypeInv /\ Answered(p)
  BY DEF BaseInv, SpaceInv
<1>2. PICK from, to :
        /\ move(p, from, to) /\ from \in {"free", "shrink", "shrunk"}
        /\ \/ to \in {"shrink", "shrunk"}
           \/ to = IF call[p].op = "pop" THEN "popClone" ELSE "destroyTuple"
  BY DEF remove_free, shrink_read, shrink_write
<1>3. to \in PlainLabels
  BY <1>2 DEF PlainLabels, Labels, InsertLabels
<1>4. UNCHANGED <<mem, head, answer>>
  BY DEF remove_free, shrink_read, shrink_write, blocks, list, bfree
<1>5. (\A q \in Procs \ {p} : reg'[q] = reg[q]) /\ reg'[p].data = reg[p].data
  BY <1>1, SetsCount DEF remove_free, shrink_read, shrink_write, TypeInv, RegsAre
<1>6. pc[p] = from /\ pc'[p] = to /\ call' = call
  BY <1>1, <1>2, <1>3, MoveMoves DEF Moves, PlainLabels
<1>7. Answered(p)' /\ ActedAs(p)' = ActedAs(p)
  BY <1>1, <1>2, <1>4, <1>5, <1>6 DEF Answered, ActedAs
<1> QED
  BY <1>1, <1>2, <1>3, <1>4, <1>5, <1>7, PlainMove

LEMMA ClonePlainSpace ==
  ASSUME BaseInv, SpaceInv, NEW p \in Procs, pop_clone(p) \/ destroy_tuple(p),
         NEW s, NEW n, ChainInv(s, n)
  PROVE  SpaceInv' /\ Abstraction
<1>1. TypeInv /\ Answered(p) /\ LabelInv
  BY DEF BaseInv, SpaceInv
<1>a. CASE pop_clone(p)
  <2>1. move(p, "popClone", "destroyTuple") /\ "destroyTuple" \in PlainLabels
    BY <1>a DEF pop_clone, PlainLabels, Labels, InsertLabels
  <2>2. /\ UNCHANGED <<mem, head, reg>>
        /\ answer'[p] = [status |-> 0, tuple |-> mem[reg[p].data].value]
        /\ \A q \in Procs \ {p} : answer'[q] = answer[q]
    BY <1>1, <1>a, AnswersOthers DEF pop_clone, blocks, list
  <2>3. pc[p] = "popClone" /\ pc'[p] = "destroyTuple" /\ call' = call /\ call[p].op = "pop"
    BY <1>1, <2>1, MoveMoves, RemoveOps DEF Moves, PlainLabels
  <2>4. Answered(p)' /\ ActedAs(p)' = ActedAs(p)
    BY <2>2, <2>3 DEF Answered, ActedAs
  <2> QED
    BY <1>1, <2>1, <2>2, <2>4, PlainMove
<1>b. CASE destroy_tuple(p)
  <2> DEFINE to == IF call[p].op = "pop" THEN "return" ELSE "test"
  <2>1. move(p, "destroyTuple", to) /\ to \in PlainLabels
    BY <1>b DEF destroy_tuple, PlainLabels, Labels, InsertLabels
  <2>2. UNCHANGED <<mem, head, reg, answer>>
    BY <1>b DEF destroy_tuple, list, bfree
  <2>3. pc[p] = "destroyTuple" /\ pc'[p] = to /\ call' = call
    BY <1>1, <2>1, MoveMoves DEF Moves, PlainLabels
  <2>4. Answered(p)' /\ ActedAs(p)' = ActedAs(p)
    BY <1>1, <2>2, <2>3 DEF Answered, ActedAs
  <2> QED
    BY <1>1, <2>1, <2>2, <2>4, PlainMove
<1> QED
  BY <1>a, <1>b

(* Nothing in the list matched on the way to its end.                      *)
LEMMA RemoveNothingSpace ==
  ASSUME BaseInv, BesideInv, SpaceInv, NEW p \in Procs, remove_nothing(p),
         NEW s, NEW n, NEW G, ShapeInv(s, n, G)
  PROVE  SpaceInv' /\ Abstraction
<1>1. TypeInv /\ LabelInv /\ Answered(p) /\ ChainInv(s, n)
  BY ShapeParts DEF BaseInv, SpaceInv
<1>2. pc[p] = "scan" /\ reg[p].at = Null
  BY NothingAtTheEnd
<1>3. Moves(p, "scan", "return") /\ seen' = seen
  BY <1>1, <1>2, MoveMoves DEF remove_nothing, Labels
<1>4. /\ UNCHANGED <<mem, head, reg>>
      /\ answer'[p] = [status |-> -1, tuple |-> NoValue]
      /\ \A q \in Procs \ {p} : answer'[q] = answer[q]
  BY <1>1, AnswersOthers DEF remove_nothing, blocks, list
<1>5. pc'[p] = "return" /\ call' = call /\ apart' = apart /\ call[p].op = "pop"
  BY <1>1, <1>2, <1>3, RemoveOps DEF Moves
<1>6. \A q \in Procs \ {p} : OtherAsBefore(q)
  BY <1>3, <1>4, MoveOthers
<1>7. Answered(p)'
  BY <1>4, <1>5 DEF Answered
<1>8. Met(p)' /\ Searched(p, s, n)'
  BY <1>5, PlainHere DEF PlainLabels, Labels, InsertLabels
<1>9. SpaceInv' /\ Stored' = Stored /\ Acted' = [Acted EXCEPT ![p] = ActedAs(p)']
  BY <1>1, <1>3, <1>4, <1>5, <1>6, <1>7, <1>8, QuietSpace
<1>10. Stored \cap MatchedBy[call[p].arg] = {}
  <2>1. n \in Nat /\ s \in [1..n -> Addresses] /\ Null \notin Addresses
    BY <1>1, TupleListAssumption DEF ChainInv, Null
  <2>2. PICK k \in 1..(n + 1) :
          reg[p].at = At(s, n, k) /\ \A i \in 1..n : i < k => ~ Wants(p, s[i])
    BY <1>1, <1>2, <2>1 DEF SpaceInv, OrderInv, Searched
  <2>3. k \notin 1..n
    BY <1>2, <2>1, <2>2 DEF At
  <2>4. \A i \in 1..n : i < k
    BY <2>1, <2>3
  <2>5. \A i \in 1..n : Value(s[i]) \notin MatchedBy[call[p].arg]
    BY <1>5, <2>2, <2>4 DEF Wants
  <2>6. Stored = Values(s, n)
    BY <1>1, <2>1, StoredHolds DEF StoredInv
  <2> QED
    BY <2>5, <2>6 DEF Values
<1>11. Abstract!PopNothing(p)
  <2>1. ActedAs(p) = Pending /\ ActedAs(p)' = [status |-> -1, tuple |-> NoValue]
    BY <1>1, <1>2, <1>4, <1>5 DEF ActedAs, Answered
  <2>2. Abstract!Acts(p, "pop")
    BY <1>5, <2>1 DEF Abstract!Acts, Abstract!Pending, Abstract!Nothing, Pending, NoValue
  <2>3. Abstract!Answers(p, Abstract!Status(-1))
    BY <1>9, <2>1 DEF Abstract!Answers, Abstract!Status, Abstract!Nothing, Acted, NoValue
  <2> QED
    BY <1>3, <1>9, <1>10, <2>2, <2>3 DEF Abstract!PopNothing, Abstract!Wanted
<1> QED
  BY <1>9, <1>11 DEF Abstraction, Abstract!Next

(* destroy_list ends when nothing is left.                                 *)
LEMMA DestroyTestSpace ==
  ASSUME BaseInv, BesideInv, SpaceInv, NEW p \in Procs, destroy_test(p),
         NEW s, NEW n, NEW G, ShapeInv(s, n, G)
  PROVE  SpaceInv' /\ Abstraction
<1> DEFINE to == IF size > 0 THEN "remove" ELSE "return"
<1>1. /\ TypeInv /\ LabelInv /\ Answered(p)
      /\ ChainInv(s, n) /\ SizeInv(n) /\ n \in Nat /\ s \in [1..n -> Addresses]
  BY ShapeParts DEF BaseInv, SpaceInv, ChainInv
<1>2. move(p, "test", to) /\ to \in PlainLabels /\ to \in Labels
  BY DEF destroy_test, PlainLabels, Labels, InsertLabels
<1>3. Moves(p, "test", to) /\ seen' = seen
  BY <1>1, <1>2, MoveMoves
<1>4. /\ pc[p] = "test" /\ pc'[p] = to /\ call' = call /\ apart' = apart
      /\ call[p].op = "destroy"
  BY <1>1, <1>3, RemoveOps DEF Moves
<1>5. /\ UNCHANGED <<mem, head>> /\ \A q \in Procs \ {p} : reg'[q] = reg[q]
      /\ IF size > 0 THEN UNCHANGED answer ELSE answers(p, 0, NoValue)
  BY <1>1 DEF destroy_test, blocks, list, TypeInv
<1>6. size = n
  BY <1>1, <1>4, RemoverSize DEF RemoverLabels, RemoveLabels
<1>7. CASE size > 0
  <2>1. Answered(p)' /\ ActedAs(p)' = ActedAs(p)
    BY <1>1, <1>4, <1>5, <1>7 DEF Answered, ActedAs
  <2> QED
    BY <1>1, <1>2, <1>5, <1>7, <2>1, PlainMove
<1>8. CASE ~ (size > 0)
  <2>1. /\ answer'[p] = [status |-> 0, tuple |-> NoValue]
        /\ \A q \in Procs \ {p} : answer'[q] = answer[q]
    BY <1>1, <1>5, <1>8, AnswersOthers
  <2>2. \A q \in Procs \ {p} : OtherAsBefore(q)
    BY <1>3, <1>5, <2>1, MoveOthers
  <2>3. Answered(p)'
    BY <1>4, <1>8, <2>1 DEF Answered
  <2>4. Met(p)' /\ Searched(p, s, n)'
    BY <1>2, <1>4, PlainHere
  <2>5. SpaceInv' /\ Stored' = Stored /\ Acted' = [Acted EXCEPT ![p] = ActedAs(p)']
    BY <1>1, <1>3, <1>4, <1>5, <2>2, <2>3, <2>4, QuietSpace
  <2>6. Stored = {}
    <3>1. Stored = Values(s, n)
      BY <1>1, StoredHolds DEF StoredInv
    <3>2. \A i : i \notin 1..n
      BY <1>1, <1>6, <1>8
    <3> QED
      BY <3>1, <3>2 DEF Values
  <2>7. ActedAs(p) = Pending /\ ActedAs(p)' = [status |-> 0, tuple |-> NoValue]
    BY <1>1, <1>4, <2>1 DEF ActedAs, Answered
  <2>8. Abstract!Destroyed(p)
    <3>1. Abstract!Acts(p, "destroy")
      BY <1>4, <2>7 DEF Abstract!Acts, Abstract!Pending, Abstract!Nothing, Pending, NoValue
    <3>2. Abstract!Answers(p, Abstract!Status(0))
      BY <2>5, <2>7 DEF Abstract!Answers, Abstract!Status, Abstract!Nothing, Acted, NoValue
    <3> QED
      BY <1>3, <2>5, <2>6, <3>1, <3>2 DEF Abstract!Destroyed
  <2> QED
    BY <2>5, <2>8 DEF Abstraction, Abstract!Next
<1> QED
  BY <1>7, <1>8

(***************************************************************************)
(* An element leaves the list: a pop, or the destruction of the list, acts.*)
(***************************************************************************)
LEMMA UnlinkValues ==
  ASSUME TypeInv, NEW s, NEW k, Unlinks(s, k), NEW x \in Addresses, Is(mem[x].data, "tuple")
  PROVE  Value(x)' = Value(x) /\ (Readable(x) => Readable(x)')
<1>1. mem[x].data \in Addresses
  BY DEF TypeInv, BlockType, Room, Is
<1>2. /\ mem'[x].kind = mem[x].kind /\ mem'[x].data = mem[x].data
      /\ mem'[mem[x].data].value = mem[mem[x].data].value
      /\ mem'[mem[x].data].kind = mem[mem[x].data].kind
  BY <1>1 DEF Unlinks
<1> QED
  BY <1>2 DEF Value, Readable, Is

(* What a peek beside the pop can reach stays within its reach.            *)
LEMMA UnlinkMet ==
  ASSUME TypeInv, NEW s, NEW n, ChainInv(s, n), NEW k \in 1..n, Unlinks(s, k),
         NEW q \in Procs, Met(q), OtherAsBefore(q), apart' = apart, seen' = seen
  PROVE  Met(q)'
<1>1. SUFFICES ASSUME ~ PushesWithPeeks', pc'[q] \in {"look", "getClone"}
               PROVE  \E R \in SUBSET Addresses : Reach(q, R)'
  BY DEF Met
<1>2. ~ PushesWithPeeks /\ pc[q] \in {"look", "getClone"} /\ reg'[q] = reg[q]
  BY <1>1 DEF PushesWithPeeks, OtherAsBefore
<1>3. PICK R \in SUBSET Addresses : Reach(q, R)
  BY <1>2 DEF Met
<1>4. /\ reg[q].at \in R \cup {Null}
      /\ \A a \in R : Readable(a) /\ mem[a].next \in R \cup {Null} /\ Value(a) \in seen[q]
  BY <1>3 DEF Reach
<1>5. ASSUME NEW a \in R
      PROVE  Readable(a)' /\ mem'[a].next \in R \cup {Null} /\ Value(a)' \in seen[q]
  <2>1. a \in Addresses /\ Is(mem[a].data, "tuple") /\ Readable(a)
    BY <1>4 DEF Readable
  <2>2. Readable(a)' /\ Value(a)' = Value(a)
    BY <2>1, UnlinkValues
  <2>3. mem'[a].next \in R \cup {Null}
    <3>1. CASE mem'[a].next = mem[a].next
      BY <1>4, <3>1
    <3>2. CASE mem'[a].next # mem[a].next
      <4>1. k # 1 /\ a = s[k - 1] /\ mem'[a].next = mem[s[k]].next
        BY <2>1, <3>2 DEF Unlinks
      <4>2. k - 1 \in 1..n /\ (k - 1) + 1 = k /\ n \in Nat
        BY <4>1 DEF ChainInv
      <4>3. mem[a].next = s[k] /\ s[k] # Null
        BY <4>1, <4>2, TupleListAssumption DEF ChainInv, At, Null
      <4>4. s[k] \in R
        BY <1>4, <4>3
      <4> QED
        BY <1>4, <4>1, <4>4
    <3> QED
      BY <3>1, <3>2
  <2> QED
    BY <1>4, <2>2, <2>3
<1>6. Reach(q, R)'
  BY <1>2, <1>4, <1>5 DEF Reach
<1> QED
  BY <1>6

LEMMA ShorterValues ==
  ASSUME NEW s, NEW n \in Nat, NEW k \in 1..n, NEW z, NEW m, IsShorter(z, m, s, n, k),
         Distinct(s, n)
  PROVE  Distinct(z, m) /\ Values(z, m) = Values(s, n) \ {Value(s[k])}
<1>1. /\ m = n - 1 /\ m \in Nat
      /\ \A i \in 1..m : \/ i < k /\ i \in 1..n /\ z[i] = s[i]
                         \/ i >= k /\ i + 1 \in 1..n /\ z[i] = s[i + 1]
      /\ \A i \in 1..n : /\ i < k => i \in 1..m /\ z[i] = s[i]
                         /\ i > k => i - 1 \in 1..m /\ z[i - 1] = s[i]
  BY DEF IsShorter
<1>2. \A i, j \in 1..n : Value(s[i]) = Value(s[j]) => i = j
  BY DEF Distinct
<1>3. Distinct(z, m)
  <2>1. ASSUME NEW i \in 1..m, NEW j \in 1..m, Value(z[i]) = Value(z[j]) PROVE i = j
    BY <1>1, <1>2, <2>1
  <2> QED
    BY <2>1 DEF Distinct
<1>4. \A i \in 1..m : \E j \in 1..n : j # k /\ z[i] = s[j]
  BY <1>1
<1>5. \A i \in 1..n : i # k => \E j \in 1..m : z[j] = s[i]
  BY <1>1
<1> QED
  BY <1>2, <1>3, <1>4, <1>5 DEF Values

LEMMA UnlinkSpace ==
  ASSUME BaseInv, BesideInv, SpaceInv, NEW p \in Procs, remove_unlink(p),
         NEW s, NEW n, NEW G, ShapeInv(s, n, G)
  PROVE  SpaceInv' /\ Abstraction
<1>1. /\ TypeInv /\ LabelInv /\ Answered(p) /\ ChainInv(s, n)
      /\ n \in Nat /\ s \in [1..n -> Addresses]
  BY ShapeParts DEF BaseInv, SpaceInv, ChainInv
<1>2. Moves(p, "unlink", "free") /\ seen' = seen
  BY <1>1, MoveMoves DEF remove_unlink, Labels
<1>3. answer' = answer /\ reg' = reg
  BY DEF remove_unlink
<1>4. \A q \in Procs \ {p} : OtherAsBefore(q)
  BY <1>2, <1>3, MoveOthers
<1>5. /\ pc[p] = "unlink" /\ pc'[p] = "free" /\ call' = call /\ apart' = apart
      /\ call[p].op \in {"pop", "destroy"} /\ pc[p] \in RemoverLabels
  BY <1>1, <1>2, RemoveOps DEF Moves, RemoverLabels, RemoveLabels
<1>6. PICK k \in 1..n :
        /\ reg[p].data = mem[s[k]].data /\ Suits(p, Value(s[k])) /\ Unlinks(s, k)
  BY UnlinkAt
<1> DEFINE z == Shorter(s, n, k)
           m == n - 1
<1>7. IsShorter(z, m, s, n, k)
  BY <1>1, ShorterIs
<1> HIDE DEF z, m
<1>8. m \in Nat /\ z \in [1..m -> Addresses]
      /\ \A i \in 1..m : \E j \in 1..n : z[i] = s[j]
  BY <1>7 DEF IsShorter
<1>9. ChainInv(z, m)'
  BY <1>1, <1>6, <1>7, UnlinkChain
<1>10. \A i \in 1..n : Value(s[i])' = Value(s[i])
  BY <1>1, <1>6, UnlinkValues DEF ChainInv
<1>11. \A i \in 1..m : Value(z[i])' = Value(z[i])
  BY <1>8, <1>10
<1>12. OrderInv(s, n)
  BY <1>1 DEF SpaceInv
<1>13. Distinct(z, m) /\ Values(z, m) = Values(s, n) \ {Value(s[k])}
  BY <1>1, <1>7, <1>12, ShorterValues DEF OrderInv
<1>14. Stored' = Stored \ {Value(s[k])} /\ Value(s[k]) \in Stored
  <2>1. Stored = Values(s, n)
    BY <1>1, StoredHolds DEF StoredInv
  <2>2. Stored' = Values(z, m)'
    BY <1>8, <1>9, StoredNext DEF StoredInv
  <2>3. Values(z, m)' = Values(z, m)
    BY <1>11 DEF Values
  <2> QED
    BY <1>13, <2>1, <2>2, <2>3 DEF Values
<1>15. \A q \in Procs \ {p} : pc[q] \notin RemoverLabels /\ pc[q] \notin PushLabels
  BY <1>5, RemoverCompany
<1>16. AllOrdered'
  <2>1. Distinct(z, m)'
    BY <1>11, <1>13 DEF Distinct
  <2>2. \A q \in Procs : pc'[q] \notin {"isin", "scan"} \cup InsertLabels
    BY <1>4, <1>5, <1>15 DEF OtherAsBefore, RemoverLabels, PushLabels, InsertLabels
  <2>3. \A q \in Procs : Searched(q, z, m)'
    BY <2>2 DEF Searched
  <2> QED
    BY <1>9, <2>1, <2>3, OrderedNext DEF OrderInv
<1>17. \A q \in Procs : Answered(q)' /\ Met(q)' /\ Witnessed(q)'
  <2>1. Answered(p)' /\ Met(p)'
    BY <1>1, <1>3, <1>5 DEF Answered, Met
  <2>2. \A q \in Procs \ {p} : Answered(q)'
    BY <1>4, AnsweredSame DEF SpaceInv
  <2>3. \A q \in Procs \ {p} : Met(q)'
    BY <1>1, <1>2, <1>4, <1>5, <1>6, UnlinkMet DEF SpaceInv
  <2>4. \A q \in Procs : Witnessed(q)'
    BY <1>2, <1>5, <1>14, WitnessedSame DEF SpaceInv
  <2> QED
    BY <2>1, <2>2, <2>3, <2>4
<1>18. SpaceInv'
  BY <1>2, <1>5, <1>16, <1>17 DEF SpaceInv, AllOrdered
<1>19. mem'[reg'[p].data].value = Value(s[k])
  BY <1>3, <1>6, <1>10, <1>1 DEF Value, Unlinks
<1>20. \A q \in Procs \ {p} : ActedAs(q)' = ActedAs(q)
  BY <1>4, <1>15, ActsSame
<1>21. ActedAs(p) = Pending
  BY <1>1, <1>5 DEF ActedAs, Answered
<1>22. Abstract!Acts(p, call[p].op)
  BY <1>5, <1>21 DEF Abstract!Acts, Abstract!Pending, Abstract!Nothing, Pending, NoValue
<1>23. CASE call[p].op = "pop"
  <2>1. ActedAs(p)' = [status |-> 0, tuple |-> Value(s[k])]
    BY <1>5, <1>19, <1>23 DEF ActedAs
  <2>2. Acted' = [Acted EXCEPT ![p] = [status |-> 0, tuple |-> Value(s[k])]]
    BY <1>20, <2>1 DEF Acted
  <2>3. Abstract!Answers(p, Abstract!Found(Value(s[k])))
    BY <2>2 DEF Abstract!Answers, Abstract!Found, Acted
  <2>4. Value(s[k]) \in Stored \cap MatchedBy[call[p].arg]
    BY <1>6, <1>14, <1>23 DEF Suits
  <2>5. Abstract!Pop(p)
    BY <1>2, <1>14, <1>22, <1>23, <2>3, <2>4 DEF Abstract!Pop, Abstract!Wanted
  <2> QED
    BY <1>18, <2>5 DEF Abstraction, Abstract!Next
<1>24. CASE call[p].op = "destroy"
  <2>1. ActedAs(p)' = Pending
    BY <1>1, <1>3, <1>5, <1>24 DEF ActedAs, Answered
  <2>2. Acted' = Acted
    BY <1>20, <1>21, <2>1 DEF Acted
  <2>3. Abstract!Discard(p)
    BY <1>2, <1>14, <1>22, <1>24, <2>2 DEF Abstract!Discard, Acted
  <2> QED
    BY <1>18, <2>3 DEF Abstraction, Abstract!Next
<1> QED
  BY <1>5, <1>23, <1>24

(***************************************************************************)
(* Peeks.                                                                  *)
(***************************************************************************)
(* The list is within the reach of a peek that starts at the head.         *)
LEMMA ListReached ==
  ASSUME NEW s, NEW n, ChainInv(s, n), NEW p, Stored \subseteq seen[p]
  PROVE  /\ Elems(s, n) \in SUBSET Addresses /\ head \in Elems(s, n) \cup {Null}
         /\ \A a \in Elems(s, n) :
              Readable(a) /\ mem[a].next \in Elems(s, n) \cup {Null} /\ Value(a) \in seen[p]
<1>1. /\ n \in Nat /\ s \in [1..n -> Addresses] /\ Null \notin Addresses
      /\ head = At(s, n, 1)
      /\ \A i \in 1..n : mem[s[i]].kind = "element" /\ mem[s[i]].next = At(s, n, i + 1)
      /\ \A i \in 1..n : Is(mem[s[i]].data, "tuple")
  BY TupleListAssumption DEF ChainInv, Null
<1>2. Values(s, n) \subseteq seen[p]
  BY <1>1, StoredHolds DEF StoredInv
<1>3. \A i \in 1..n : /\ Readable(s[i]) /\ mem[s[i]].next \in Elems(s, n) \cup {Null}
                      /\ Value(s[i]) \in seen[p]
  BY <1>1, <1>2 DEF Readable, Is, At, Elems, Values
<1> QED
  BY <1>1, <1>3 DEF Elems, At

LEMMA PeekPlainSpace ==
  ASSUME BaseInv, SpaceInv, NEW p \in Procs, get_enter(p) \/ get_wait(p) \/ get_match(p),
         NEW s, NEW n, ChainInv(s, n)
  PROVE  SpaceInv' /\ Abstraction
<1>1. TypeInv /\ LabelOK(p) /\ Answered(p) /\ Witnessed(p) /\ Met(p)
  BY DEF BaseInv, LabelInv, SpaceInv
<1>2. PICK from, to :
        /\ move(p, from, to)
        /\ \/ from = "enter" /\ to = "look" /\ sets(p, [at |-> head])
           \/ from = "look" /\ to \in {"wait", "getClone"} /\ UNCHANGED reg
  BY DEF get_enter, get_wait, get_match
<1>3. Moves(p, from, to) /\ seen' = seen
  BY <1>1, <1>2, MoveMoves DEF Labels
<1>4. UNCHANGED <<mem, head, answer>> /\ \A q \in Procs \ {p} : reg'[q] = reg[q]
  BY <1>1, SetsOthers DEF get_enter, get_wait, get_match, blocks, list
<1>5. pc[p] = from /\ pc'[p] = to /\ call' = call /\ apart' = apart /\ call[p].op = "peek"
  BY <1>1, <1>2, <1>3 DEF Moves, LabelOK, PushLabels, PeekLabels, RemoveLabels
<1>6. \A q \in Procs \ {p} : OtherAsBefore(q)
  BY <1>3, <1>4, MoveOthers
<1>7. /\ Answered(p)' /\ ActedAs(p)' = ActedAs(p) /\ Searched(p, s, n)'
  BY <1>1, <1>2, <1>4, <1>5 DEF Answered, ActedAs, Searched, InsertLabels
<1>8. Met(p)'
  <2>1. CASE from = "enter"
    <3>1. reg'[p].at = head
      BY <1>1, <1>2, <2>1, SetsAt DEF TypeInv, RegsAre
    <3>2. Stored \subseteq seen[p]
      BY <1>1, <1>5 DEF Witnessed, Peeks
    <3>3. Elems(s, n) \in SUBSET Addresses /\ Reach(p, Elems(s, n))'
      BY <1>3, <1>4, <3>1, <3>2, ListReached DEF Reach, Readable, Is, Value
    <3> QED
      BY <3>3 DEF Met
  <2>2. CASE from = "look"
    BY <1>1, <1>2, <1>3, <1>4, <1>5, <2>2
       DEF Met, Reach, PushesWithPeeks, Readable, Is, Value
  <2> QED
    BY <1>2, <2>1, <2>2
<1> QED
  BY <1>3, <1>4, <1>5, <1>6, <1>7, <1>8, QuietStutter

LEMMA GetSignalSpace ==
  ASSUME BaseInv, SpaceInv, NEW p \in Procs, get_signal(p), NEW s, NEW n, ChainInv(s, n)
  PROVE  SpaceInv' /\ Abstraction
<1>1. TypeInv /\ Answered(p)
  BY DEF BaseInv, SpaceInv
<1>2. /\ pc[p] = "signal" /\ pc'[p] = "return"
      /\ \A q \in Procs \ {p} : pc'[q] = pc[q] \/ (pc[q] = "wait" /\ pc'[q] = "enter")
      /\ UNCHANGED <<mem, head, call, answer, reg, apart, seen>>
  BY DEF get_signal, blocks, program
<1>3. \A q \in Procs \ {p} : OtherAsBefore(q)
  BY <1>2 DEF OtherAsBefore
<1>4. Answered(p)' /\ ActedAs(p)' = ActedAs(p)
  BY <1>1, <1>2 DEF Answered, ActedAs
<1>5. Met(p)' /\ Searched(p, s, n)'
  BY <1>2, PlainHere DEF PlainLabels, Labels, InsertLabels
<1> QED
  BY <1>2, <1>3, <1>4, <1>5, QuietStutter

(* A peek answers with a tuple that was in the list during its call, be it *)
(* removed since.                                                          *)
LEMMA GetCloneSpace ==
  ASSUME BaseInv, SpaceInv, NEW p \in Procs, get_clone(p),
         NEW s, NEW n, NEW G, ShapeInv(s, n, G)
  PROVE  SpaceInv' /\ Abstraction
<1>1. /\ TypeInv /\ LabelOK(p) /\ Answered(p) /\ Witnessed(p) /\ Met(p)
      /\ ChainInv(s, n) /\ WalkInv(s, n, G) /\ RegInv(p, s, n, G)
  BY ShapeParts DEF BaseInv, LabelInv, SpaceInv
<1>2. Moves(p, "getClone", "signal") /\ seen' = seen
  BY <1>1, MoveMoves DEF get_clone, Labels
<1> DEFINE t == Value(reg[p].at)
<1>3. /\ UNCHANGED <<mem, head, reg>> /\ Readable(reg[p].at)
      /\ answer'[p] = [status |-> 0, tuple |-> t]
      /\ \A q \in Procs \ {p} : answer'[q] = answer[q]
  BY <1>1, AnswersOthers DEF get_clone, blocks, list
<1> HIDE DEF t
<1>4. /\ pc[p] = "getClone" /\ pc'[p] = "signal" /\ call' = call /\ apart' = apart
      /\ call[p].op = "peek"
  BY <1>1, <1>2 DEF Moves, LabelOK, PushLabels, PeekLabels, RemoveLabels
<1>5. \A q \in Procs \ {p} : OtherAsBefore(q)
  BY <1>2, <1>3, MoveOthers
<1>6. Answered(p)'
  BY <1>3, <1>4 DEF Answered
<1>7. Met(p)' /\ Searched(p, s, n)'
  BY <1>4, PlainHere DEF PlainLabels, Labels, InsertLabels
<1>8. SpaceInv' /\ Stored' = Stored /\ Acted' = [Acted EXCEPT ![p] = ActedAs(p)']
  BY <1>1, <1>2, <1>3, <1>4, <1>5, <1>6, <1>7, QuietSpace
<1>9. t \in MatchedBy[call[p].arg] /\ reg[p].at \in G
  BY <1>1, <1>4 DEF RegInv, Suits, t
<1>10. t \in seen[p]
  <2>1. CASE PushesWithPeeks
    <3>1. reg[p].at \in Elems(s, n)
      BY <1>1, <1>9, <2>1 DEF WalkInv
    <3>2. t \in Values(s, n)
      BY <3>1 DEF Elems, Values, t
    <3>3. n \in Nat /\ s \in [1..n -> Addresses]
      BY <1>1 DEF ChainInv
    <3>4. t \in Stored
      BY <1>1, <3>2, <3>3, StoredHolds DEF StoredInv
    <3> QED
      BY <1>1, <1>4, <3>4 DEF Witnessed, Peeks
  <2>2. CASE ~ PushesWithPeeks
    <3>1. PICK R \in SUBSET Addresses : Reach(p, R)
      BY <1>1, <1>4, <2>2 DEF Met
    <3> QED
      BY <1>3, <3>1 DEF Reach, Readable, Is, t
  <2> QED
    BY <2>1, <2>2
<1>11. Abstract!Peek(p)
  <2>1. ActedAs(p) = Pending /\ ActedAs(p)' = [status |-> 0, tuple |-> t]
    BY <1>1, <1>3, <1>4 DEF ActedAs, Answered
  <2>2. Abstract!Acts(p, "peek")
    BY <1>4, <2>1 DEF Abstract!Acts, Abstract!Pending, Abstract!Nothing, Pending, NoValue
  <2>3. Abstract!Answers(p, Abstract!Found(t))
    BY <1>8, <2>1 DEF Abstract!Answers, Abstract!Found, Acted
  <2> QED
    BY <1>2, <1>8, <1>9, <1>10, <2>2, <2>3 DEF Abstract!Peek
<1> QED
  BY <1>8, <1>11 DEF Abstraction, Abstract!Next

(***************************************************************************)
(* The loops, and the calls and returns of the programs.                   *)
(***************************************************************************)
LEMMA GoesOnSpace ==
  ASSUME BaseInv, SpaceInv, NEW p \in Procs, goes_on(p), NEW s, NEW n, ChainInv(s, n)
  PROVE  SpaceInv' /\ Abstraction
<1>1. TypeInv /\ Answered(p) /\ Met(p)
  BY DEF BaseInv, SpaceInv
<1>2. /\ Readable(reg[p].at) /\ ~ Wants(p, reg[p].at)
      /\ sets(p, [prev |-> reg[p].at, at |-> mem[reg[p].at].next])
      /\ UNCHANGED <<mem, head, pc, call, answer, apart, seen>>
      /\ pc[p] \in {"isin", "look", "scan"}
  BY DEF goes_on, blocks, list, program
<1>3. reg[p].at # Null /\ reg[p].at \in Addresses /\ mem[reg[p].at].next \in Room
  BY <1>1, <1>2 DEF Readable, Is, TypeInv, RegisterType, BlockType, Room
<1>4. reg'[p].at = mem[reg[p].at].next /\ \A q \in Procs \ {p} : reg'[q] = reg[q]
  BY <1>1, <1>2, <1>3, SetsNext DEF RegsAre, Room
<1>5. \A q \in Procs \ {p} : OtherAsBefore(q)
  BY <1>2, <1>4 DEF OtherAsBefore
<1>6. Answered(p)' /\ ActedAs(p)' = ActedAs(p)
  BY <1>1, <1>2 DEF Answered, ActedAs
<1>7. Met(p)'
  <2>1. SUFFICES ASSUME ~ PushesWithPeeks', pc'[p] \in {"look", "getClone"}
                 PROVE  \E R \in SUBSET Addresses : Reach(p, R)'
    BY DEF Met
  <2>2. PICK R \in SUBSET Addresses : Reach(p, R)
    BY <1>1, <1>2, <2>1 DEF Met, PushesWithPeeks
  <2>3. Reach(p, R)'
    BY <1>2, <1>3, <1>4, <2>2 DEF Reach, Readable, Is, Value
  <2> QED
    BY <2>3
<1>8. Searched(p, s, n)'
  <2>1. ASSUME pc'[p] \in {"isin", "scan"}
        PROVE  \E k \in 1..(n + 1) :
                 reg'[p].at = At(s, n, k) /\ \A i \in 1..n : i < k => ~ Wants(p, s[i])'
    <3>1. /\ n \in Nat /\ s \in [1..n -> Addresses]
          /\ \A i \in 1..n : mem[s[i]].next = At(s, n, i + 1)
      BY DEF ChainInv
    <3>2. PICK k \in 1..(n + 1) :
            reg[p].at = At(s, n, k) /\ \A i \in 1..n : i < k => ~ Wants(p, s[i])
      BY <1>2, <2>1, <3>1 DEF SpaceInv, OrderInv, Searched
    <3>3. k \in 1..n /\ reg[p].at = s[k]
      BY <1>3, <3>2 DEF At
    <3>4. k + 1 \in 1..(n + 1) /\ reg'[p].at = At(s, n, k + 1)
      BY <1>4, <3>1, <3>3
    <3>5. \A i \in 1..n : i < k + 1 => i < k \/ i = k
      BY <3>1, <3>3
    <3>6. \A i \in 1..n : i < k + 1 => ~ Wants(p, s[i])
      BY <1>2, <3>2, <3>3, <3>5
    <3>7. \A i \in 1..n : Wants(p, s[i])' <=> Wants(p, s[i])
      BY <1>2 DEF Wants, Value
    <3> QED
      BY <3>4, <3>6, <3>7
  <2> QED
    BY <1>2, <2>1 DEF Searched, InsertLabels
<1> QED
  BY <1>2, <1>5, <1>6, <1>7, <1>8, QuietStutter

(* A step of p that leaves the list, and may change p's call.              *)
LEMMA CallSpace ==
  ASSUME SpaceInv, NEW p \in Procs, NEW s, NEW n, ChainInv(s, n),
         UNCHANGED <<mem, head, apart>>,
         \A q \in Procs \ {p} : OtherAsBefore(q) /\ seen'[q] = seen[q],
         seen' = [q \in Procs |-> seen'[q]],
         call'[p] \in Calls[p] \cup {NoCall},
         Answered(p)', Met(p)', Searched(p, s, n)',
         IF Peeks(p)' THEN Stored \subseteq seen'[p] ELSE seen'[p] = {}
  PROVE  SpaceInv' /\ Stored' = Stored /\ Acted' = [Acted EXCEPT ![p] = ActedAs(p)']
<1>1. ChainInv(s, n)' /\ \A i \in 1..n : Value(s[i])' = Value(s[i])
  BY ChainSame DEF Value
<1>2. Stored' = Stored
  BY <1>1, StoredSame
<1>3. OrderInv(s, n)
  BY DEF SpaceInv, ChainInv
<1>4. AllOrdered'
  <2>1. Distinct(s, n)'
    BY <1>1, <1>3 DEF OrderInv, Distinct
  <2>2. \A q \in Procs \ {p} : Searched(q, s, n)'
    BY <1>1, <1>3, SearchedSame DEF OrderInv
  <2>3. OrderInv(s, n)'
    BY <2>1, <2>2 DEF OrderInv
  <2> QED
    BY <1>1, <2>3, OrderedNext
<1>5. \A q \in Procs \ {p} : /\ Answered(q)' /\ Met(q)' /\ Witnessed(q)'
                             /\ ActedAs(q)' = ActedAs(q)
  <2>1. \A q \in Procs \ {p} : Answered(q)' /\ Met(q)' /\ ActedAs(q)' = ActedAs(q)
    BY AnsweredSame, MetSame, ActsSame DEF SpaceInv
  <2>2. \A q \in Procs \ {p} : Witnessed(q)'
    BY <1>2, WitnessedSame DEF SpaceInv, OtherAsBefore
  <2> QED
    BY <2>1, <2>2
<1>6. Witnessed(p)'
  BY <1>2 DEF Witnessed
<1>7. \A q \in Procs : call'[q] \in Calls[q] \cup {NoCall}
  BY DEF SpaceInv, OtherAsBefore
<1>8. SpaceInv'
  BY <1>4, <1>5, <1>6, <1>7 DEF SpaceInv, AllOrdered
<1>9. Acted' = [Acted EXCEPT ![p] = ActedAs(p)']
  BY <1>5 DEF Acted
<1> QED
  BY <1>2, <1>8, <1>9

LEMMA ReturnSpace ==
  ASSUME BaseInv, SpaceInv, NEW p \in Procs, return(p), NEW s, NEW n, ChainInv(s, n)
  PROVE  SpaceInv' /\ Abstraction
<1>1. TypeInv /\ Answered(p) /\ seen = [q \in Procs |-> seen[q]]
  BY DEF BaseInv, SpaceInv
<1>2. /\ pc[p] = "return" /\ pc' = [pc EXCEPT ![p] = "idle"]
      /\ call' = [call EXCEPT ![p] = NoCall]
      /\ answer' = [answer EXCEPT ![p] = Pending]
      /\ reg' = [reg EXCEPT ![p] = Registers]
      /\ seen' = [seen EXCEPT ![p] = {}]
      /\ UNCHANGED <<mem, head, apart>>
  BY DEF return, blocks, list, program
<1>3. /\ pc'[p] = "idle" /\ call'[p] = NoCall /\ answer'[p] = Pending
      /\ \A q \in Procs \ {p} : /\ pc'[q] = pc[q] /\ call'[q] = call[q]
                                /\ answer'[q] = answer[q] /\ reg'[q] = reg[q]
  BY <1>1, <1>2 DEF TypeInv
<1>4. /\ \A q \in Procs \ {p} : seen'[q] = seen[q]
      /\ seen'[p] = {} /\ seen' = [q \in Procs |-> seen'[q]]
  BY <1>1, <1>2
<1>5. \A q \in Procs \ {p} : OtherAsBefore(q)
  BY <1>3 DEF OtherAsBefore
<1>6. Answered(p)' /\ ActedAs(p)' = Pending
  BY <1>3 DEF Answered, ActedAs, NoCall
<1>7. Met(p)' /\ Searched(p, s, n)'
  BY <1>3, PlainHere DEF PlainLabels, Labels, InsertLabels
<1>8. ~ Peeks(p)'
  BY <1>3 DEF Peeks, NoCall
<1>9. SpaceInv' /\ Stored' = Stored /\ Acted' = [Acted EXCEPT ![p] = ActedAs(p)']
  BY <1>2, <1>3, <1>4, <1>5, <1>6, <1>7, <1>8, CallSpace
<1>10. Abstract!Return(p)
  <2>1. ActedAs(p) # Pending
    BY <1>1, <1>2 DEF ActedAs, Answered, Pending
  <2>2. Abstract!Answers(p, Abstract!Pending)
    BY <1>6, <1>9
       DEF Abstract!Answers, Abstract!Pending, Abstract!Nothing, Acted, Pending, NoValue
  <2> QED
    BY <1>2, <1>9, <2>1, <2>2
       DEF Abstract!Return, Abstract!NoCall, Abstract!Pending, Abstract!Nothing, NoCall,
           Pending, NoValue
<1> QED
  BY <1>9, <1>10 DEF Abstraction, Abstract!Next

LEMMA StartSpace ==
  ASSUME BaseInv, SpaceInv, NEW p \in Procs, NEW r \in Calls[p], start(p, r),
         NEW s, NEW n, ChainInv(s, n)
  PROVE  SpaceInv' /\ Abstraction
<1>1. TypeInv /\ LabelInv /\ Answered(p) /\ seen = [q \in Procs |-> seen[q]]
  BY DEF BaseInv, SpaceInv
<1>2. /\ pc[p] = "idle" /\ pc' = [pc EXCEPT ![p] = FirstLabel(r.op)]
      /\ call' = [call EXCEPT ![p] = r]
      /\ seen' = [seen EXCEPT ![p] = IF r.op = "peek" THEN Stored ELSE {}]
      /\ sets(p, [at |-> head])
      /\ r = DestroyCall => \A q \in Procs \ {p} : pc[q] = "idle"
      /\ UNCHANGED <<mem, head, answer, apart>>
  BY DEF start, blocks, list
<1>3. r \in Requests /\ r.op \in {"push", "peek", "pop", "destroy"}
  BY CallsAssumption DEF Requests, DestroyCall
<1>4. RegsAre(p, head, reg[p].prev, reg[p].new, reg[p].data, reg[p].old, reg[p].count)
  BY <1>1, <1>2, SetsAt DEF TypeInv
<1>5. /\ pc'[p] = FirstLabel(r.op) /\ call'[p] = r /\ reg'[p].at = head
      /\ \A q \in Procs \ {p} : /\ pc'[q] = pc[q] /\ call'[q] = call[q]
                                /\ reg'[q] = reg[q]
  BY <1>1, <1>2, <1>4 DEF TypeInv, RegsAre
<1>6. pc'[p] \in {"isin", "enter", "scan", "test"}
  BY <1>3, <1>5 DEF FirstLabel
<1>7. \A q \in Procs : pc[q] = "idle" => call[q] = NoCall
  BY <1>1 DEF LabelInv, LabelOK, TypeInv, Requests, DestroyCall, NoCall,
              PushLabels, PeekLabels, RemoveLabels
<1>8. /\ \A q \in Procs \ {p} : seen'[q] = seen[q]
      /\ seen'[p] = (IF r.op = "peek" THEN Stored ELSE {})
      /\ seen' = [q \in Procs |-> seen'[q]]
  BY <1>1, <1>2
<1>9. \A q \in Procs \ {p} : OtherAsBefore(q)
  BY <1>2, <1>5 DEF OtherAsBefore
<1>10. answer[p] = Pending
  BY <1>1, <1>2, <1>7 DEF Answered, NoCall
<1>11. Answered(p)' /\ Met(p)' /\ ActedAs(p)' = Pending /\ ActedAs(p) = Pending
  BY <1>2, <1>6, <1>10 DEF Answered, Met, ActedAs
<1>12. Searched(p, s, n)'
  <2>1. n \in Nat /\ head = At(s, n, 1)
    BY DEF ChainInv
  <2>2. 1 \in 1..(n + 1) /\ reg'[p].at = At(s, n, 1) /\ \A i \in 1..n : ~ (i < 1)
    BY <1>5, <2>1
  <2>3. pc'[p] \notin InsertLabels
    BY <1>6 DEF InsertLabels
  <2> QED
    BY <2>2, <2>3 DEF Searched
<1>13. SpaceInv' /\ Stored' = Stored /\ Acted' = [Acted EXCEPT ![p] = ActedAs(p)']
  BY <1>2, <1>5, <1>8, <1>9, <1>11, <1>12, CallSpace DEF Peeks
<1>14. Acted' = Acted
  BY <1>11, <1>13 DEF Acted
<1>15. Abstract!Invoke(p)
  <2>1. call[p] = Abstract!NoCall
    BY <1>2, <1>7 DEF Abstract!NoCall, Abstract!Nothing, NoCall, NoValue
  <2>2. \/ \E x \in Abstract!Requests : call' = [call EXCEPT ![p] = x]
        \/ /\ \A q \in Procs : call[q] = Abstract!NoCall
           /\ call' = [call EXCEPT ![p] = Abstract!DestroyCall]
    <3>1. CASE r = DestroyCall
      <4>1. \A q \in Procs : call[q] = NoCall
        BY <1>2, <1>7, <3>1
      <4> QED
        BY <1>2, <3>1, <4>1
           DEF Abstract!NoCall, Abstract!DestroyCall, Abstract!Nothing, NoCall, DestroyCall,
               NoValue
    <3>2. CASE r # DestroyCall
      <4>1. r \in Abstract!Requests
        BY <1>3, <3>2 DEF Abstract!Requests, Requests
      <4> QED
        BY <1>2, <4>1
    <3> QED
      BY <3>1, <3>2
  <2>3. seen' = [seen EXCEPT ![p] = IF Abstract!Peeks(p)' THEN Stored ELSE {}]
    BY <1>2, <1>5 DEF Abstract!Peeks
  <2> QED
    BY <1>13, <1>14, <2>1, <2>2, <2>3 DEF Abstract!Invoke, Acted
<1> QED
  BY <1>13, <1>15 DEF Abstraction, Abstract!Next

(***************************************************************************)
(* The bucket implements the tuple space.                                  *)
(***************************************************************************)
LEMMA InitSpace ==
  ASSUME Init
  PROVE  SpaceInv /\ Abstract!Init
<1>1. /\ head = Null /\ seen = [p \in Procs |-> {}]
      /\ call = [p \in Procs |-> NoCall] /\ answer = [p \in Procs |-> Pending]
      /\ \A p \in Procs : /\ pc[p] = "idle" /\ call[p] = NoCall /\ answer[p] = Pending
                          /\ seen[p] = {}
  BY DEF Init
<1>2. PICK n, s : n \in Nat /\ s \in [1..n -> Addresses] /\ ChainInv(s, n)
  BY InitShape DEF ShapeInv
<1>3. \A i : i \notin 1..n
  <2>1. Null \notin Addresses /\ Null = At(s, n, 1)
    BY <1>1, <1>2, TupleListAssumption DEF ChainInv, Null
  <2>2. 1 \notin 1..n
    BY <1>2, <2>1 DEF At
  <2> QED
    BY <1>2, <2>2
<1>4. Stored = {}
  <2>1. Stored = Values(s, n)
    BY <1>2, StoredHolds DEF StoredInv
  <2> QED
    BY <1>3, <2>1 DEF Values
<1>5. ASSUME NEW m \in Nat, NEW z \in [1..m -> Addresses], ChainInv(z, m)
      PROVE  OrderInv(z, m)
  <2>1. \A p \in Procs : Searched(p, z, m)
    BY <1>1 DEF Searched, InsertLabels
  <2>2. Values(z, m) = {}
    BY <1>4, <1>5, StoredHolds DEF StoredInv
  <2>3. Distinct(z, m)
    BY <2>2 DEF Values, Distinct
  <2> QED
    BY <2>1, <2>3 DEF OrderInv
<1>6. \A p \in Procs : /\ call[p] \in Calls[p] \cup {NoCall}
                       /\ Answered(p) /\ Witnessed(p) /\ Met(p) /\ ActedAs(p) = Pending
  BY <1>1 DEF Answered, Witnessed, Peeks, Met, ActedAs, NoCall
<1>7. SpaceInv
  BY <1>1, <1>5, <1>6 DEF SpaceInv
<1>8. Abstract!Init
  BY <1>1, <1>4, <1>6
     DEF Abstract!Init, Abstract!NoCall, Abstract!Pending, Abstract!Nothing, NoCall,
         Pending, NoValue
<1> QED
  BY <1>7, <1>8

LEMMA RunSpace ==
  ASSUME NoSharedPushes, BaseInv, BesideInv, SpaceInv, NEW p \in Procs, Run(p),
         NEW s, NEW n, NEW G, ShapeInv(s, n, G)
  PROVE  SpaceInv' /\ Abstraction
<1>1. ChainInv(s, n)
  BY DEF ShapeInv
<1>2. ASSUME NEW r \in Calls[p], start(p, r)
      PROVE  SpaceInv' /\ Abstraction
  BY <1>1, <1>2, StartSpace
<1>3. CASE goes_on(p)
  BY <1>1, <1>3, GoesOnSpace
<1>4. CASE return(p)
  BY <1>1, <1>4, ReturnSpace
<1>5. CASE Push(p)
  <2>1. CASE is_in(p) \/ is_not_in(p) \/ insert_enter(p)
    BY <1>1, <2>1, IsInSpace, IsNotInSpace, InsertEnterSpace
  <2>2. CASE insert_clone(p) \/ insert_link(p) \/ insert_head(p)
    BY <2>2, InsertCloneSpace, InsertLinkSpace, InsertHeadSpace
  <2>3. CASE grow_read(p) \/ grow_write(p) \/ put_leave(p)
    BY <1>1, <2>3, PushPlainSpace
  <2>4. CASE put_broadcast(p)
    BY <1>1, <2>4, PutBroadcastSpace
  <2> QED
    BY <1>5, <2>1, <2>2, <2>3, <2>4 DEF Push
<1>6. CASE Peek(p)
  <2>1. CASE get_enter(p) \/ get_wait(p) \/ get_match(p)
    BY <1>1, <2>1, PeekPlainSpace
  <2>2. CASE get_clone(p)
    BY <2>2, GetCloneSpace
  <2>3. CASE get_signal(p)
    BY <1>1, <2>3, GetSignalSpace
  <2> QED
    BY <1>6, <2>1, <2>2, <2>3 DEF Peek
<1>7. CASE Remove(p)
  <2>1. CASE remove_match(p) \/ remove_test(p) \/ remove_data(p) \/ remove_old(p)
    BY <1>1, <2>1, ScanPlainSpace
  <2>2. CASE remove_free(p) \/ shrink_read(p) \/ shrink_write(p)
    BY <1>1, <2>2, ShrinkPlainSpace
  <2>3. CASE pop_clone(p) \/ destroy_tuple(p)
    BY <1>1, <2>3, ClonePlainSpace
  <2>4. CASE remove_nothing(p) \/ destroy_test(p)
    BY <2>4, RemoveNothingSpace, DestroyTestSpace
  <2>5. CASE remove_unlink(p)
    BY <2>5, UnlinkSpace
  <2> QED
    BY <1>7, <2>1, <2>2, <2>3, <2>4, <2>5 DEF Remove
<1> QED
  BY <1>2, <1>3, <1>4, <1>5, <1>6, <1>7 DEF Run

LEMMA SpaceStutter ==
  ASSUME SpaceInv, UNCHANGED vars, NEW s, NEW n, ChainInv(s, n)
  PROVE  SpaceInv' /\ Abstraction
<1>1. UNCHANGED <<mem, head, pc, call, answer, reg, apart, seen>>
  BY DEF vars
<1>2. \A q \in Procs : OtherAsBefore(q)
  BY <1>1 DEF OtherAsBefore
<1>3. ChainInv(s, n)' /\ \A i \in 1..n : Value(s[i])' = Value(s[i])
  BY <1>1, ChainSame DEF Value
<1>4. Stored' = Stored
  BY <1>3, StoredSame
<1>5. \A q \in Procs : /\ Answered(q)' /\ Met(q)' /\ Witnessed(q)'
                       /\ ActedAs(q)' = ActedAs(q)
  BY <1>1, <1>2, <1>4, AnsweredSame, MetSame, ActsSame, WitnessedSame DEF SpaceInv
<1>6. OrderInv(s, n)
  BY DEF SpaceInv, ChainInv
<1>7. AllOrdered'
  <2>1. Distinct(s, n)' /\ \A q \in Procs : Searched(q, s, n)'
    BY <1>2, <1>3, <1>6, SearchedSame DEF OrderInv, Distinct
  <2> QED
    BY <1>3, <2>1, OrderedNext DEF OrderInv
<1>8. SpaceInv'
  BY <1>1, <1>5, <1>7 DEF SpaceInv, AllOrdered
<1>9. Acted' = Acted
  BY <1>5 DEF Acted
<1> QED
  BY <1>1, <1>4, <1>8, <1>9 DEF Abstraction

(* Every call acts at once, at some moment between its start and its       *)
(* return, on a set of tuples: though a push looks for an equal tuple      *)
(* without a lock before it inserts its own, though peeks walk through the *)
(* list while a pop unlinks and frees what they stand at, and though a     *)
(* peek may answer with a tuple that was removed since it met it.          *)
THEOREM ListIsTupleSpace ==
  ASSUME ConventionsKept, RoomToCount, NoSharedPushes
  PROVE  Spec => IsTupleSpace
<1>1. Init => SpaceInv /\ Abstract!Init
  BY InitSpace
<1>2. ListInv /\ SpaceInv /\ [Next]_vars
        => SpaceInv' /\ [Abstract!Next]_<<Stored, call, [p \in Procs |-> ActedAs(p)], seen>>
  <2>1. SUFFICES ASSUME ListInv, SpaceInv, [Next]_vars
                 PROVE  SpaceInv' /\ Abstraction
    BY DEF Abstraction, Acted
  <2>2. BaseInv /\ BesideInv
    BY <2>1 DEF ListInv, BaseInv
  <2>3. PICK n, s, G :
          /\ n \in Nat /\ s \in [1..n -> Addresses] /\ G \in SUBSET Addresses
          /\ ShapeInv(s, n, G)
    BY <2>1 DEF ListInv
  <2>4. CASE Next
    BY <2>1, <2>2, <2>3, <2>4, RunSpace DEF Next
  <2>5. CASE UNCHANGED vars
    BY <2>1, <2>3, <2>5, SpaceStutter DEF ShapeInv
  <2> QED
    BY <2>1, <2>4, <2>5
<1> QED
  BY <1>1, <1>2, ListInvHolds, PTL DEF Spec, IsTupleSpace, Abstract!Spec

=============================================================================
