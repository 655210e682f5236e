-------------------------- MODULE GrowingBucketProofs --------------------------
(***************************************************************************)
(* Proofs about module GrowingBucket: for any pushers, readers and tuples  *)
(* and any number of segments, an insertion survives every replacement     *)
(* that did not overtake it, and a reader that sleeps in the current       *)
(* segment is woken for every tuple that it wants.                         *)
(***************************************************************************)
EXTENDS GrowingBucket, TLAPS, FiniteSetTheorems

PushLabels ==
  {"idle", "scan", "element", "data", "value", "compared", "miss", "absent",
   "pElement", "pEnter", "pMon", "pClone", "pCopy", "pCopyHead", "pTuple",
   "pValue", "pDeref", "pList", "pHead", "pAgain", "pLeave", "pFree",
   "pBroadcast", "bExcl", "bWake", "bLoop", "bHand", "returned", "crashed", "exited"}

ReadLabels ==
  {"idle", "bucket", "enter", "mon", "scan", "element", "data", "value",
   "compared", "miss", "clone", "found", "signalExcl", "signalTest",
   "signalHand", "signalRelease", "leave", "free", "again", "wait",
   "waitExcl", "count", "waitRelease", "waitLeave", "waitFree", "test",
   "sleep", "hand", "reenter", "returned", "crashed"}

(* Where the code holds the monitor's semaphore, and the condition's       *)
(* exclusion semaphore.  A pusher walks the list outside the monitor.      *)
MonPush ==
  {"pClone", "pCopy", "pCopyHead", "pTuple", "pValue", "pDeref", "pList",
   "pHead", "pAgain", "pLeave", "pFree"}
MonRead ==
  {"scan", "element", "data", "value", "compared", "miss", "clone", "found",
   "signalExcl", "signalTest", "signalHand", "signalRelease", "leave", "free",
   "again", "wait", "waitExcl", "count", "waitRelease", "waitLeave", "waitFree"}
ExclLabels ==
  {"bWake", "bLoop", "bHand", "count", "waitRelease",
   "signalTest", "signalHand", "signalRelease"}

MonHeld == [p \in Procs |-> IF p \in Readers THEN MonRead ELSE MonPush]
ExclHeld == [p \in Procs |-> ExclLabels]

BallocLabels == {"pElement", "pClone", "pValue"}
WriteLabels == {"pCopy", "pCopyHead", "pTuple", "pValue", "pDeref", "pList", "pHead"}
WalkLabels == {"element", "data", "value", "compared", "miss"}
RegisteredLabels == {"waitRelease", "waitLeave", "waitFree", "test", "sleep", "hand"}

Pointers == {"hashTable", "list", "element", "part", "copy", "newElement", "condVar"}
Tuples == Initial \cup {Added[p] : p \in Pushers}
SegmentType == [tuples : SUBSET Tuples, waitIndex : Nat, wakeIndex : Nat, waiting : Nat]

(* The types, with what GrowingTypeOK leaves out.                          *)
DataTypes ==
  /\ current \in Segments
  /\ replacer \in Procs \cup {Nobody, Others}
  /\ replacer # Nobody => current < MaxSegments
  /\ mapped \in [Procs -> 1..current] /\ fresh \in [Procs -> SUBSET Pointers]
  /\ rest \in [Procs -> SUBSET Tuples]
  /\ seg \in [Segments -> SegmentType]
  /\ sem \in [Sems -> Int] /\ adj \in [Procs -> [Sems -> Int]]
  /\ index \in [Procs -> Nat] /\ overtaken \subseteq Pushers

LabelTypes ==
  /\ pc \in [Procs -> PushLabels \cup ReadLabels]
  /\ \A p \in Pushers : pc[p] \in PushLabels
  /\ \A p \in Readers : pc[p] \in ReadLabels

TypeInv == DataTypes /\ LabelTypes

(* The process at the labels H[p] owns lock l: there is one at most, its   *)
(* adjustment is 1 and the semaphore 0.                                    *)
LockOK(l, H) ==
  /\ \A p \in Procs : adj[p][l] = IF pc[p] \in H[p] THEN 1 ELSE 0
  /\ \A p, q \in Procs : pc[p] \in H[p] /\ pc[q] \in H[q] => p = q
  /\ sem[l] = IF \E p \in Procs : pc[p] \in H[p] THEN 0 ELSE 1

LockInv == LockOK("mon", MonHeld) /\ LockOK("excl", ExclHeld)

(* A process that replaces the segment is in balloc and has it mapped; the *)
(* copy has what landed, and nothing that the current segment has not.     *)
CopyInv ==
  /\ replacer \in Procs => pc[replacer] \in BallocLabels /\ mapped[replacer] = current
  /\ replacer # Nobody =>
       landed \subseteq seg[current + 1].tuples
       /\ seg[current + 1].tuples \subseteq seg[current].tuples

(* A pusher that writes its tuple without being overtaken writes to the    *)
(* current segment, and nobody else has copied that.                       *)
WriteInv ==
  \A p \in Pushers \ overtaken :
    pc[p] \in WriteLabels => mapped[p] = current /\ replacer \in {Nobody, p}

(* The tuples r wants that it can read in the current segment.             *)
Ahead(r) == (seg[current].tuples \ Garbled) \cap Wanted[r]

(* A walk that began in the current segment, as hashTable is still fresh,  *)
(* has yet to visit the tuples that r wants; when it has found none, none  *)
(* is inserted before r has registered, since r is in the monitor.         *)
Walked(r) ==
  /\ pc[r] \in WalkLabels /\ "hashTable" \in fresh[r] /\ mapped[r] = current
       => Ahead(r) \subseteq rest[r]
  /\ pc[r] = "again" /\ "hashTable" \in fresh[r] => Ahead(r) = {}
  /\ pc[r] \in {"wait", "waitExcl", "count"} => Ahead(r) = {}

WalkInv == \A r \in Readers : Walked(r)

(* q has inserted its tuple and will wake the readers that have registered *)
(* in the current segment.                                                 *)
Wakes(q) ==
  \/ pc[q] \in {"pAgain", "pLeave", "pFree", "pBroadcast"}
  \/ pc[q] \in {"bExcl", "bWake"} /\ mapped[q] = current

(* r has registered in the current segment.                                *)
Registered(r) ==
  pc[r] \in RegisteredLabels /\ "condVar" \in fresh[r] /\ mapped[r] = current

Served(r) ==
  Registered(r) =>
    /\ index[r] <= seg[current].waitIndex
    /\ seg[current].wakeIndex < index[r] /\ Ahead(r) # {} => \E q \in Pushers : Wakes(q)

NoPusherDied == \A q \in Pushers : ~ Died(q)

ServedInv == NoPusherDied => \A r \in Readers : Served(r)

(* The inductive invariant.                                                *)
GrowingInv ==
  TypeInv /\ LockInv /\ CopyInv /\ WriteInv /\ PushesStay /\ WalkInv /\ ServedInv

-----------------------------------------------------------------------------
(***************************************************************************)
(* The tables: which labels their rows join.                               *)
(***************************************************************************)
(* A step from one label to another inside a call keeps to its call.       *)
SameCall(from, to) ==
  /\ from \in PushLabels => to \in PushLabels
  /\ from \in ReadLabels => to \in ReadLabels

(* It crosses no edge of a lock.                                           *)
SameLocks(from, to) ==
  /\ from \in MonPush <=> to \in MonPush
  /\ from \in MonRead <=> to \in MonRead
  /\ from \in ExclLabels <=> to \in ExclLabels

(* The labels that the invariant speaks of are entered in one way.         *)
PlainLabels(from, to) ==
  /\ from \notin {"idle", "crashed", "exited"} \cup BallocLabels
  /\ to \notin {"crashed", "exited"}
  /\ to \in WalkLabels => from \in WalkLabels
  /\ to \in WriteLabels => from \in WriteLabels
  /\ to \notin {"again", "pAgain", "bWake"}
  /\ to = "wait" => from = "again"
  /\ to = "waitExcl" => from = "wait"
  /\ to = "count" => from = "waitExcl"
  /\ to \in RegisteredLabels => from \in RegisteredLabels
  /\ from = "pAgain" => to = "pLeave"
  /\ from = "pLeave" => to = "pFree"
  /\ from = "pFree" => to = "pBroadcast"
  /\ from = "pBroadcast" => to = "bExcl"

DerefRow(from, taken, to) ==
  /\ taken \in SUBSET Pointers /\ "hashTable" \notin taken
  /\ to \in RegisteredLabels => "condVar" \notin taken
  /\ from \notin {"bExcl", "bWake"}
  /\ SameCall(from, to) /\ SameLocks(from, to) /\ PlainLabels(from, to)

LEMMA DerefRows ==
  ASSUME NEW d \in Derefs
  PROVE  DerefRow(d[1], d[2], d[3])
<1> USE DEF DerefRow, SameCall, SameLocks, PlainLabels, PushLabels, ReadLabels,
      MonPush, MonRead, ExclLabels, WalkLabels, WriteLabels, RegisteredLabels,
      BallocLabels, Pointers
<1>1. CASE d \in {<<"bucket", {"list"}, "enter">>, <<"enter", {}, "mon">>,
                  <<"data", {"part"}, "value">>, <<"value", {}, "compared">>,
                  <<"compared", {"part"}, "value">>, <<"miss", {}, "element">>}
  BY <1>1
<1>2. CASE d \in {<<"clone", {}, "found">>, <<"found", {"condVar"}, "signalExcl">>,
                  <<"leave", {}, "free">>, <<"again", {"list"}, "wait">>,
                  <<"wait", {"condVar"}, "waitExcl">>, <<"waitLeave", {}, "waitFree">>}
  BY <1>2
<1>3. CASE d \in {<<"reenter", {}, "mon">>, <<"absent", {"list"}, "pElement">>,
                  <<"pEnter", {}, "pMon">>, <<"pCopy", {"copy"}, "pCopyHead">>,
                  <<"pCopyHead", {}, "pTuple">>, <<"pTuple", {}, "pValue">>}
  BY <1>3
<1>4. CASE d \in {<<"pDeref", {"newElement"}, "pList">>, <<"pList", {"list"}, "pHead">>,
                  <<"pAgain", {"list"}, "pLeave">>, <<"pLeave", {}, "pFree">>,
                  <<"pBroadcast", {"condVar"}, "bExcl">>}
  BY <1>4
<1> QED
  BY <1>1, <1>2, <1>3, <1>4 DEF Derefs

(* The label of a held lock is entered with its acquisition.               *)
AcquireRow(from, l, to) ==
  /\ l \in Sems /\ SameCall(from, to)
  /\ IF l = "mon"
     THEN \/ from \notin MonPush /\ to \in MonPush /\ from \notin ReadLabels
          \/ from \notin MonRead /\ to \in MonRead /\ from \notin PushLabels
     ELSE (from \in MonPush <=> to \in MonPush) /\ (from \in MonRead <=> to \in MonRead)
  /\ IF l = "excl" THEN from \notin ExclLabels /\ to \in ExclLabels
     ELSE from \in ExclLabels <=> to \in ExclLabels
  /\ from \notin {"idle", "crashed", "exited"} \cup BallocLabels
  /\ to \notin {"crashed", "exited"}
  /\ to \notin WalkLabels \cup WriteLabels \cup {"again", "wait", "waitExcl", "pAgain"}
  /\ from \notin {"pAgain", "pLeave", "pFree", "pBroadcast", "bWake"}
  /\ from = "bExcl" => to = "bWake"
  /\ to = "count" => from = "waitExcl"
  /\ to \in RegisteredLabels => from \in RegisteredLabels

LEMMA AcquireRows ==
  ASSUME NEW a \in Acquires
  PROVE  AcquireRow(a[1], a[2], a[3])
BY DEF Acquires, AcquireRow, SameCall, PushLabels, ReadLabels, MonPush, MonRead,
       ExclLabels, WalkLabels, WriteLabels, RegisteredLabels, BallocLabels, Sems

ReleaseRow(from, l, to) ==
  /\ l \in Sems /\ SameCall(from, to)
  /\ IF l = "mon"
     THEN \/ from \in MonPush /\ to \notin MonPush /\ from \notin ReadLabels
          \/ from \in MonRead /\ to \notin MonRead /\ from \notin PushLabels
     ELSE (from \in MonPush <=> to \in MonPush) /\ (from \in MonRead <=> to \in MonRead)
  /\ IF l = "excl" THEN from \in ExclLabels /\ to \notin ExclLabels
     ELSE from \in ExclLabels <=> to \in ExclLabels
  /\ from \notin {"idle", "crashed", "exited"} \cup BallocLabels
  /\ to \notin {"crashed", "exited"}
  /\ to \notin WalkLabels \cup WriteLabels \cup {"again", "wait", "waitExcl", "count", "pAgain"}
  /\ from \notin {"pAgain", "pLeave", "pBroadcast", "bExcl", "bWake"}
  /\ from = "pFree" => to = "pBroadcast"
  /\ to \in RegisteredLabels => from \in RegisteredLabels

LEMMA ReleaseRows ==
  ASSUME NEW r \in Releases
  PROVE  ReleaseRow(r[1], r[2], r[3])
BY DEF Releases, ReleaseRow, SameCall, PushLabels, ReadLabels, MonPush, MonRead,
       ExclLabels, WalkLabels, WriteLabels, RegisteredLabels, BallocLabels, Sems

LEMMA BallocRows ==
  ASSUME NEW b \in Ballocs
  PROVE  /\ b[1] \in BallocLabels /\ b[2] \in {"pEnter", "pCopy", "pDeref"}
         /\ b[1] = "pClone" <=> b[2] = "pCopy"
         /\ b[1] = "pValue" <=> b[2] = "pDeref"
         /\ b[1] \in Writing => b[2] \in Writing
BY DEF Ballocs, BallocLabels, Writing

-----------------------------------------------------------------------------
(***************************************************************************)
(* What the parts of a step do.                                            *)
(***************************************************************************)
(* A remap changes the mapping and the pointers of its process; a pointer  *)
(* that it does not take stays fresh only if the mapping stays.            *)
RemapMove(p, taken) ==
  /\ mapped' \in [Procs -> 1..current] /\ fresh' \in [Procs -> SUBSET Pointers]
  /\ mapped'[p] = current /\ (mapped[p] = current \/ replacer = Nobody)
  /\ \A q \in Procs \ {p} : mapped'[q] = mapped[q] /\ fresh'[q] = fresh[q]
  /\ \A v \in fresh'[p] \ taken : v \in fresh[p] /\ mapped[p] = current

LEMMA RemapMoves ==
  ASSUME TypeInv, NEW p \in Procs, NEW taken \in SUBSET Pointers, remaps(p, taken)
  PROVE  RemapMove(p, taken)
<1>1. /\ current \in 1..current /\ mapped \in [Procs -> 1..current]
      /\ fresh \in [Procs -> SUBSET Pointers]
  BY GrowingBucketAssumption DEF TypeInv, DataTypes, Segments
<1>2. /\ mapped[p] = current \/ replacer = Nobody
      /\ mapped' = [mapped EXCEPT ![p] = current]
      /\ fresh' = [fresh EXCEPT ![p] = (IF mapped[p] = current THEN @ ELSE {}) \cup taken]
  BY DEF remaps
<1> QED
  BY <1>1, <1>2 DEF RemapMove

(* The label of a process after move.                                      *)
LabelMove(p) ==
  /\ pc' \in [Procs -> PushLabels \cup ReadLabels]
  /\ \A q \in Procs \ {p} : pc'[q] = pc[q]
  /\ p \in Pushers => pc'[p] \in PushLabels
  /\ p \in Readers => pc'[p] \in ReadLabels

LEMMA MoveLabels ==
  ASSUME TypeInv, NEW p \in Procs, NEW from, NEW to, move(p, from, to),
         p \in Pushers => (from \in PushLabels => to \in PushLabels),
         p \in Readers => (from \in ReadLabels => to \in ReadLabels)
  PROVE  LabelMove(p) /\ pc[p] = from /\ pc'[p] = to
<1>1. /\ pc \in [Procs -> PushLabels \cup ReadLabels]
      /\ pc' = [pc EXCEPT ![p] = to] /\ pc[p] = from
  BY DEF TypeInv, LabelTypes, move
<1>2. /\ p \in Pushers => from \in PushLabels
      /\ p \in Readers => from \in ReadLabels
  BY <1>1 DEF TypeInv, LabelTypes
<1>3. to \in PushLabels \cup ReadLabels
  BY <1>2 DEF Procs
<1> QED
  BY <1>1, <1>2, <1>3 DEF LabelMove

(* A pusher is not a reader, and its label tells.                          *)
LEMMA CallOfLabel ==
  ASSUME TypeInv, NEW p \in Procs
  PROVE  /\ p \in Pushers => pc[p] \in PushLabels /\ p \notin Readers
         /\ p \in Readers => pc[p] \in ReadLabels /\ p \notin Pushers
BY GrowingBucketAssumption DEF TypeInv, LabelTypes

LEMMA TypesNow ==
  ASSUME TypeInv, NEW p \in Procs
  PROVE  /\ DataTypes /\ current \in Nat /\ current >= 1 /\ current <= MaxSegments
         /\ 1..current \subseteq Segments /\ mapped[p] \in 1..current
         /\ mapped[p] \in Segments /\ seg[mapped[p]] \in SegmentType
         /\ seg[current] \in SegmentType /\ pc[p] \in PushLabels \cup ReadLabels
         /\ index[p] \in Nat /\ rest[p] \subseteq Tuples /\ fresh[p] \subseteq Pointers
<1>1. DataTypes /\ LabelTypes
  BY DEF TypeInv
<1>2. current \in Nat /\ current >= 1 /\ current <= MaxSegments /\ MaxSegments \in Nat
  BY <1>1, GrowingBucketAssumption DEF DataTypes, Segments
<1>3. 1..current \subseteq Segments
  BY <1>2 DEF Segments
<1>4. mapped[p] \in 1..current
  BY <1>1 DEF DataTypes
<1> QED
  BY <1>1, <1>2, <1>3, <1>4 DEF DataTypes, LabelTypes

-----------------------------------------------------------------------------
(***************************************************************************)
(* The two locks.                                                          *)
(***************************************************************************)
(* n units of semaphore l are taken or given back.                         *)
SemMove(p, l, n) ==
  /\ sem' \in [Sems -> Int] /\ adj' \in [Procs -> [Sems -> Int]]
  /\ sem'[l] = sem[l] + n /\ adj'[p][l] = adj[p][l] - n
  /\ \A s \in Sems \ {l} : sem'[s] = sem[s] /\ adj'[p][s] = adj[p][s]
  /\ \A q \in Procs \ {p} : adj'[q] = adj[q]

LEMMA AcquireMoves ==
  ASSUME TypeInv, NEW p \in Procs, NEW l \in Sems, acquire_semaphore(p, l)
  PROVE  SemMove(p, l, -1) /\ sem[l] > 0
BY DEF TypeInv, DataTypes, acquire_semaphore, changes, SemMove

LEMMA ReleaseMoves ==
  ASSUME TypeInv, NEW p \in Procs, NEW l \in Sems, NEW n \in Int,
         release_semaphore(p, l, n)
  PROVE  SemMove(p, l, n)
BY DEF TypeInv, DataTypes, release_semaphore, changes, SemMove

Keeps(p, l, H) ==
  (pc[p] \in H[p] <=> pc'[p] \in H[p]) /\ sem'[l] = sem[l] /\ adj'[p][l] = adj[p][l]
Takes(p, l, H) ==
  /\ sem[l] > 0 /\ pc[p] \notin H[p] /\ pc'[p] \in H[p]
  /\ sem'[l] = sem[l] - 1 /\ adj'[p][l] = adj[p][l] + 1
Leaves(p, l, H) ==
  /\ pc[p] \in H[p] /\ pc'[p] \notin H[p]
  /\ sem'[l] = sem[l] + 1 /\ adj'[p][l] = adj[p][l] - 1
Dies(p, l, H) ==
  /\ pc'[p] \notin H[p] /\ adj'[p][l] = 0
  /\ sem'[l] = IF sem[l] + adj[p][l] < 0 THEN 0 ELSE sem[l] + adj[p][l]

(* What a step of p does to lock l.                                        *)
LockMove(p, l, H) ==
  /\ \A q \in Procs \ {p} : adj'[q][l] = adj[q][l]
  /\ Keeps(p, l, H) \/ Takes(p, l, H) \/ Leaves(p, l, H) \/ Dies(p, l, H)

(* Whatever of this happens, the lock has one owner at most, the death of  *)
(* the owner frees it, and the death of another process does not.          *)
LEMMA LockStep ==
  ASSUME TypeInv, NEW p \in Procs, NEW l \in Sems, NEW H, LockOK(l, H),
         \A q \in Procs \ {p} : pc'[q] = pc[q],
         LockMove(p, l, H)
  PROVE  LockOK(l, H)'
<1>1. \A q \in Procs \ {p} : adj'[q][l] = adj[q][l] /\ pc'[q] = pc[q]
  BY DEF LockMove
<1>2. sem[l] \in Int /\ \A q \in Procs : adj[q][l] \in Int
  BY DEF TypeInv, DataTypes
<1>3. CASE Keeps(p, l, H)
  BY <1>1, <1>2, <1>3 DEF Keeps, LockOK
<1>4. CASE Takes(p, l, H)
  <2>1. \A q \in Procs : pc[q] \notin H[q]
    BY <1>2, <1>4 DEF Takes, LockOK
  <2> QED
    BY <1>1, <1>2, <1>4, <2>1 DEF Takes, LockOK
<1>5. CASE Leaves(p, l, H)
  <2>1. \A q \in Procs : pc'[q] \notin H[q]
    BY <1>1, <1>5 DEF Leaves, LockOK
  <2> QED
    BY <1>1, <1>2, <1>5, <2>1 DEF Leaves, LockOK
<1>6. CASE Dies(p, l, H)
  <2>1. CASE pc[p] \in H[p]
    <3>1. \A q \in Procs : pc'[q] \notin H[q]
      BY <1>1, <1>6, <2>1 DEF Dies, LockOK
    <3> QED
      BY <1>1, <1>2, <1>6, <2>1, <3>1 DEF Dies, LockOK
  <2>2. CASE pc[p] \notin H[p]
    <3>1. \A q \in Procs : pc'[q] \in H[q] <=> pc[q] \in H[q]
      BY <1>1, <1>6, <2>2 DEF Dies
    <3>2. sem'[l] = sem[l]
      BY <1>2, <1>6, <2>2 DEF Dies, LockOK
    <3>3. \A q \in Procs : adj'[q][l] = adj[q][l]
      BY <1>1, <1>6, <2>2 DEF Dies, LockOK
    <3> QED
      BY <3>1, <3>2, <3>3 DEF LockOK
  <2> QED
    BY <2>1, <2>2
<1> QED
  BY <1>3, <1>4, <1>5, <1>6 DEF LockMove

LockMoves(p) == LockMove(p, "mon", MonHeld) /\ LockMove(p, "excl", ExclHeld)

(* The sets of labels, for pushers and for readers.                        *)
LEMMA HeldLabels ==
  ASSUME NEW p \in Procs
  PROVE  /\ MonHeld[p] = (IF p \in Readers THEN MonRead ELSE MonPush)
         /\ ExclHeld[p] = ExclLabels
BY DEF MonHeld, ExclHeld

(* p's step crosses no edge of a lock.                                     *)
KeepsLocks(p) ==
  /\ pc[p] \in MonHeld[p] <=> pc'[p] \in MonHeld[p]
  /\ pc[p] \in ExclLabels <=> pc'[p] \in ExclLabels

LEMMA SameLocksKept ==
  ASSUME NEW p \in Procs, SameLocks(pc[p], pc'[p])
  PROVE  KeepsLocks(p)
BY HeldLabels DEF SameLocks, KeepsLocks

(* A step that leaves the semaphores alone crosses none.                   *)
LEMMA LocksKept ==
  ASSUME TypeInv, NEW p \in Procs, UNCHANGED sems, KeepsLocks(p)
  PROVE  LockMoves(p)
BY HeldLabels DEF sems, LockMoves, LockMove, Keeps, KeepsLocks

(* A semop on one of the other two semaphores does not, either.            *)
LEMMA LocksKeptBySemop ==
  ASSUME TypeInv, NEW p \in Procs, NEW l \in {"cond", "hand"}, NEW n \in Int,
         SemMove(p, l, n), KeepsLocks(p)
  PROVE  LockMoves(p)
BY HeldLabels DEF SemMove, LockMoves, LockMove, Keeps, KeepsLocks, Sems

(* The end of a process gives back what it holds.                          *)
LEMMA EndMoves ==
  ASSUME TypeInv, NEW p \in Procs, NEW how \in {"crashed", "exited"}, ends(p, how),
         p \in Readers => how = "crashed"
  PROVE  /\ sem' \in [Sems -> Int] /\ adj' \in [Procs -> [Sems -> Int]]
         /\ LabelMove(p) /\ pc'[p] = how /\ LockMoves(p)
<1>1. /\ sem' \in [Sems -> Int] /\ adj' \in [Procs -> [Sems -> Int]]
      /\ \A q \in Procs \ {p} : adj'[q] = adj[q]
      /\ \A s \in Sems : adj'[p][s] = 0
      /\ \A s \in Sems : sem'[s] = IF sem[s] + adj[p][s] < 0 THEN 0 ELSE sem[s] + adj[p][s]
  BY DEF ends, TypeInv, DataTypes
<1>2. how \in PushLabels /\ (p \in Readers => how \in ReadLabels)
  BY DEF PushLabels, ReadLabels
<1>3. LabelMove(p) /\ pc'[p] = how
  BY <1>2 DEF ends, TypeInv, LabelTypes, LabelMove
<1>4. how \notin MonPush /\ how \notin MonRead /\ how \notin ExclLabels
  BY DEF MonPush, MonRead, ExclLabels
<1> QED
  BY <1>1, <1>3, <1>4, HeldLabels DEF LockMoves, LockMove, Dies, Sems

-----------------------------------------------------------------------------
(***************************************************************************)
(* What every step of a process does that neither copies the segment nor   *)
(* publishes a copy.                                                       *)
(***************************************************************************)
Frame(p) ==
  /\ UNCHANGED <<current, replacer, overtaken>>
  /\ \A q \in Procs \ {p} :
       /\ mapped'[q] = mapped[q] /\ fresh'[q] = fresh[q]
       /\ rest'[q] = rest[q] /\ index'[q] = index[q]

StepTypes ==
  /\ mapped' \in [Procs -> 1..current] /\ fresh' \in [Procs -> SUBSET Pointers]
  /\ rest' \in [Procs -> SUBSET Tuples] /\ index' \in [Procs -> Nat]
  /\ seg' \in [Segments -> SegmentType]
  /\ sem' \in [Sems -> Int] /\ adj' \in [Procs -> [Sems -> Int]]

(* In the current segment, the tuples change at insert_head only; the      *)
(* tickets grow, and broadcast wakes up to the last ticket.  Nobody writes *)
(* to a copy that is not published.                                        *)
BucketMove(p) ==
  /\ \/ seg'[current].tuples = seg[current].tuples
     \/ /\ p \in Pushers /\ pc[p] = "pHead" /\ pc'[p] = "pAgain"
        /\ seg'[current].tuples = seg[current].tuples \cup {Added[p]}
  /\ seg'[current].waitIndex >= seg[current].waitIndex
  /\ \/ seg'[current].wakeIndex >= seg[current].wakeIndex
     \/ seg'[current].wakeIndex = seg[current].waitIndex
  /\ seg'[current + 1] = seg[current + 1]

PushMove(p) ==
  /\ pc'[p] \in WriteLabels =>
       \/ pc[p] \in WriteLabels /\ mapped'[p] \in {mapped[p], current}
       \/ replacer = Nobody /\ mapped'[p] = current
  /\ Wakes(p) => \/ Wakes(p)' \/ pc'[p] = "crashed"
                 \/ seg'[current].wakeIndex = seg[current].waitIndex
  /\ \/ landed' = landed
     \/ /\ pc[p] = "pHead" /\ p \notin overtaken /\ landed' = landed \cup {Added[p]}
        /\ mapped[p] = current => Added[p] \in seg'[current].tuples

ReadMove(p) ==
  /\ landed' = landed
  /\ "hashTable" \in fresh'[p] /\ pc[p] # "idle"
       => "hashTable" \in fresh[p] /\ mapped'[p] = mapped[p]
  /\ "condVar" \in fresh'[p] /\ pc'[p] \in RegisteredLabels
       => "condVar" \in fresh[p] /\ mapped'[p] = mapped[p]
  /\ pc'[p] \in WalkLabels =>
       \/ pc[p] = "scan" /\ rest'[p] = seg[mapped[p]].tuples
       \/ pc[p] \in WalkLabels /\ rest[p] \cap (Wanted[p] \ Garbled) \subseteq rest'[p]
  /\ pc'[p] = "again" => pc[p] = "element" /\ rest[p] = {} /\ mapped'[p] = current
  /\ pc'[p] = "wait" => pc[p] = "again" /\ "hashTable" \in fresh[p]
  /\ pc'[p] \in {"waitExcl", "count"} => pc[p] \in {"wait", "waitExcl"}
  /\ pc'[p] \in RegisteredLabels =>
       \/ pc[p] \in RegisteredLabels /\ index'[p] = index[p] /\ seg' = seg
       \/ pc[p] = "count" /\ index'[p] = seg'[mapped[p]].waitIndex

Plain(p) ==
  /\ Frame(p) /\ StepTypes /\ LabelMove(p) /\ LockMoves(p) /\ BucketMove(p)
  /\ pc[p] \notin {"crashed", "exited"}
  /\ pc[p] \in BallocLabels => replacer = Nobody
  /\ p \in Pushers => PushMove(p)
  /\ p \in Readers => ReadMove(p)

(* A bucket that is not written stays as it is.                            *)
LEMMA BucketStays ==
  ASSUME TypeInv, NEW p \in Procs, seg' = seg
  PROVE  BucketMove(p)
<1>1. seg[current] \in SegmentType
  BY TypesNow
<1> QED
  BY <1>1 DEF BucketMove, SegmentType

(* A write goes to the segment that its process has mapped.                *)
LEMMA BucketWritten ==
  ASSUME TypeInv, NEW p \in Procs, NEW b \in SegmentType,
         seg' = [seg EXCEPT ![mapped[p]] = b],
         \/ b.tuples = seg[mapped[p]].tuples
         \/ /\ p \in Pushers /\ pc[p] = "pHead" /\ pc'[p] = "pAgain"
            /\ b.tuples = seg[mapped[p]].tuples \cup {Added[p]},
         b.waitIndex >= seg[mapped[p]].waitIndex,
         \/ b.wakeIndex >= seg[mapped[p]].wakeIndex
         \/ b.wakeIndex = seg[mapped[p]].waitIndex
  PROVE  BucketMove(p) /\ seg' \in [Segments -> SegmentType] /\ seg'[mapped[p]] = b
<1>1. /\ DataTypes /\ mapped[p] \in 1..current /\ mapped[p] \in Segments
      /\ current \in Nat /\ seg[current] \in SegmentType
  BY TypesNow
<1>2. seg \in [Segments -> SegmentType]
  BY <1>1 DEF DataTypes
<1>3. seg' \in [Segments -> SegmentType] /\ seg'[mapped[p]] = b
  BY <1>1, <1>2
<1>4. seg'[current + 1] = seg[current + 1]
  <2>1. current + 1 # mapped[p]
    BY <1>1
  <2> QED
    BY <1>2, <2>1
<1>5. CASE mapped[p] = current
  BY <1>3, <1>4, <1>5 DEF BucketMove
<1>6. CASE mapped[p] # current
  <2>1. seg'[current] = seg[current]
    BY <1>1, <1>2, <1>6 DEF DataTypes
  <2> QED
    BY <1>1, <1>3, <1>4, <2>1 DEF BucketMove, SegmentType
<1> QED
  BY <1>5, <1>6, <1>3

(* Steps that only remap.                                                  *)
LEMMA RemapStep ==
  ASSUME TypeInv, NEW p \in Procs, NEW taken \in SUBSET Pointers, remaps(p, taken),
         LabelMove(p), KeepsLocks(p),
         UNCHANGED <<segments, rest, sems, index, landed>>
  PROVE  /\ Frame(p) /\ StepTypes /\ LockMoves(p) /\ BucketMove(p)
         /\ RemapMove(p, taken)
<1>1. RemapMove(p, taken)
  BY RemapMoves
<1>2. LockMoves(p)
  BY LocksKept
<1>3. BucketMove(p)
  BY BucketStays DEF segments
<1>4. Frame(p) /\ StepTypes
  BY <1>1, TypesNow DEF Frame, StepTypes, RemapMove, segments, sems, DataTypes
<1> QED
  BY <1>1, <1>2, <1>3, <1>4

(* Steps that only change the semaphores.                                  *)
LEMMA SemStep ==
  ASSUME TypeInv, NEW p \in Procs,
         sem' \in [Sems -> Int], adj' \in [Procs -> [Sems -> Int]],
         UNCHANGED <<segments, pointers, rest, index, landed>>
  PROVE  Frame(p) /\ StepTypes /\ BucketMove(p)
<1>1. BucketMove(p)
  BY BucketStays DEF segments
<1>2. Frame(p) /\ StepTypes
  BY TypesNow DEF Frame, StepTypes, segments, pointers, DataTypes
<1> QED
  BY <1>1, <1>2

LEMMA DerefPlain ==
  ASSUME TypeInv, NEW p \in Procs, deref_ptr(p)
  PROVE  Plain(p)
<1>1. PICK d \in Derefs : move(p, d[1], d[3]) /\ remaps(p, d[2])
  BY DEF deref_ptr
<1> DEFINE from == d[1]
           taken == d[2]
           to == d[3]
<1>2. DerefRow(from, taken, to) /\ taken \in SUBSET Pointers
  BY DerefRows DEF DerefRow
<1>3. /\ sound(p)
      /\ UNCHANGED <<segments, rest, sems, index, landed>>
  BY DEF deref_ptr
<1>4. LabelMove(p) /\ pc[p] = from /\ pc'[p] = to
  BY <1>1, <1>2, MoveLabels DEF DerefRow, SameCall
<1>5. KeepsLocks(p)
  BY <1>2, <1>4, SameLocksKept DEF DerefRow
<1>6. /\ Frame(p) /\ StepTypes /\ LockMoves(p) /\ BucketMove(p)
      /\ RemapMove(p, taken)
  BY <1>1, <1>2, <1>3, <1>4, <1>5, RemapStep
<1>7. PlainLabels(pc[p], pc'[p])
  BY <1>2, <1>4 DEF DerefRow
<1>8. PushMove(p)
  <2>1. pc'[p] \in WriteLabels => pc[p] \in WriteLabels /\ mapped'[p] = current
    BY <1>6, <1>7 DEF PlainLabels, RemapMove
  <2>2. pc[p] \notin {"bExcl", "bWake"}
    BY <1>2, <1>4 DEF DerefRow
  <2>3. Wakes(p) => Wakes(p)'
    BY <1>6, <1>7, <2>2 DEF PlainLabels, RemapMove, Wakes, Frame
  <2> QED
    BY <1>3, <2>1, <2>3 DEF PushMove
<1>9. ReadMove(p)
  <2>1. /\ "hashTable" \notin taken
        /\ pc'[p] \in RegisteredLabels => "condVar" \notin taken
    BY <1>2, <1>4 DEF DerefRow
  <2>2. pc[p] = "again" => "hashTable" \in fresh[p]
    BY <1>3 DEF sound, Used
  <2> QED
    BY <1>3, <1>6, <1>7, <2>1, <2>2
       DEF ReadMove, PlainLabels, RemapMove, segments
<1> QED
  BY <1>4, <1>6, <1>7, <1>8, <1>9 DEF Plain, PlainLabels

LEMMA SemopPlain ==
  ASSUME TypeInv, NEW p \in Procs, semop(p)
  PROVE  Plain(p)
<1>0. UNCHANGED <<segments, pointers, rest, index, landed>>
  BY DEF semop
<1>1. CASE \E a \in Acquires : move(p, a[1], a[3]) /\ acquire_semaphore(p, a[2])
  <2>1. PICK a \in Acquires : move(p, a[1], a[3]) /\ acquire_semaphore(p, a[2])
    BY <1>1
  <2> DEFINE from == a[1]
             l == a[2]
             to == a[3]
  <2>2. AcquireRow(from, l, to) /\ l \in Sems
    BY AcquireRows DEF AcquireRow
  <2>3. LabelMove(p) /\ pc[p] = from /\ pc'[p] = to
    BY <2>1, <2>2, MoveLabels DEF AcquireRow, SameCall
  <2>4. SemMove(p, l, -1) /\ sem[l] > 0
    BY <2>1, <2>2, AcquireMoves
  <2>5. LockMoves(p)
    <3>0. /\ sem[l] \in Int /\ adj[p][l] \in Int
          /\ p \in Pushers \/ p \in Readers
          /\ p \in Pushers => pc[p] \in PushLabels /\ p \notin Readers
          /\ p \in Readers => pc[p] \in ReadLabels
      BY <2>2, CallOfLabel DEF TypeInv, DataTypes, Procs
    <3>1. LockMove(p, "mon", MonHeld)
      BY <2>2, <2>3, <2>4, <3>0, HeldLabels
         DEF AcquireRow, SemMove, LockMove, Keeps, Takes, Sems
    <3>2. LockMove(p, "excl", ExclHeld)
      BY <2>2, <2>3, <2>4, <3>0, HeldLabels
         DEF AcquireRow, SemMove, LockMove, Keeps, Takes, Sems
    <3> QED
      BY <3>1, <3>2 DEF LockMoves
  <2>6. Frame(p) /\ StepTypes /\ BucketMove(p)
    BY <1>0, <2>4, SemStep DEF SemMove
  <2>7. PushMove(p)
    BY <1>0, <2>2, <2>3 DEF PushMove, AcquireRow, Wakes, pointers, segments
  <2>8. ReadMove(p)
    BY <1>0, <2>2, <2>3 DEF ReadMove, AcquireRow, pointers, segments
  <2> QED
    BY <2>2, <2>3, <2>5, <2>6, <2>7, <2>8 DEF Plain, AcquireRow
<1>2. CASE \E r \in Releases : move(p, r[1], r[3]) /\ release_semaphore(p, r[2], 1)
  <2>1. PICK r \in Releases : move(p, r[1], r[3]) /\ release_semaphore(p, r[2], 1)
    BY <1>2
  <2> DEFINE from == r[1]
             l == r[2]
             to == r[3]
  <2>2. ReleaseRow(from, l, to) /\ l \in Sems
    BY ReleaseRows DEF ReleaseRow
  <2>3. LabelMove(p) /\ pc[p] = from /\ pc'[p] = to
    BY <2>1, <2>2, MoveLabels DEF ReleaseRow, SameCall
  <2>4. SemMove(p, l, 1)
    BY <2>1, <2>2, ReleaseMoves
  <2>5. LockMoves(p)
    <3>0. /\ sem[l] \in Int /\ adj[p][l] \in Int
          /\ p \in Pushers \/ p \in Readers
          /\ p \in Pushers => pc[p] \in PushLabels /\ p \notin Readers
          /\ p \in Readers => pc[p] \in ReadLabels
      BY <2>2, CallOfLabel DEF TypeInv, DataTypes, Procs
    <3>1. LockMove(p, "mon", MonHeld)
      BY <2>2, <2>3, <2>4, <3>0, HeldLabels
         DEF ReleaseRow, SemMove, LockMove, Keeps, Leaves, Sems
    <3>2. LockMove(p, "excl", ExclHeld)
      BY <2>2, <2>3, <2>4, <3>0, HeldLabels
         DEF ReleaseRow, SemMove, LockMove, Keeps, Leaves, Sems
    <3> QED
      BY <3>1, <3>2 DEF LockMoves
  <2>6. Frame(p) /\ StepTypes /\ BucketMove(p)
    BY <1>0, <2>4, SemStep DEF SemMove
  <2>7. PushMove(p)
    BY <1>0, <2>2, <2>3 DEF PushMove, ReleaseRow, Wakes, pointers, segments
  <2>8. ReadMove(p)
    BY <1>0, <2>2, <2>3 DEF ReadMove, ReleaseRow, pointers, segments
  <2> QED
    BY <2>2, <2>3, <2>5, <2>6, <2>7, <2>8 DEF Plain, ReleaseRow
<1> QED
  BY <1>1, <1>2 DEF semop

LEMMA CrashPlain ==
  ASSUME TypeInv, NEW p \in Procs, crash(p)
  PROVE  Plain(p)
<1>0. UNCHANGED <<segments, pointers, rest, index, landed>> /\ ends(p, "crashed")
  BY DEF crash
<1>1. /\ sem' \in [Sems -> Int] /\ adj' \in [Procs -> [Sems -> Int]]
      /\ LabelMove(p) /\ pc'[p] = "crashed" /\ LockMoves(p)
  BY <1>0, EndMoves
<1>2. pc[p] \notin {"crashed", "exited"} \cup BallocLabels
  <2>1. Used(p) # {} \/ pc[p] = "compared"
    BY DEF crash, sound
  <2> QED
    BY <2>1 DEF Used, UsedBehindBucket, BallocLabels
<1>3. Frame(p) /\ StepTypes /\ BucketMove(p)
  BY <1>0, <1>1, SemStep
<1>4. PushMove(p) /\ ReadMove(p)
  BY <1>0, <1>1 DEF PushMove, ReadMove, WriteLabels, WalkLabels, RegisteredLabels, pointers
<1> QED
  BY <1>1, <1>2, <1>3, <1>4 DEF Plain

(* The walk.  A step of it inserts nothing and wakes nobody.               *)
WalkMove(p, from, to) ==
  /\ LabelMove(p) /\ pc[p] = from /\ pc'[p] = to /\ KeepsLocks(p)
  /\ pc[p] \notin {"crashed", "exited", "idle"} \cup BallocLabels
  /\ pc'[p] \notin WriteLabels \cup RegisteredLabels
  /\ pc'[p] \notin {"wait", "waitExcl", "count"}
  /\ ~ Wakes(p)

LEMMA WalkMoves ==
  ASSUME TypeInv, NEW p \in Procs,
         NEW from \in {"scan", "element", "compared"},
         NEW to \in {"element", "data", "miss", "clone", "returned", "again", "absent"},
         move(p, from, to),
         p \in Pushers => to \notin {"clone", "again"},
         p \in Readers => to \notin {"returned", "absent"}
  PROVE  WalkMove(p, from, to)
<1>1. /\ p \in Pushers \/ p \in Readers
      /\ p \in Pushers => p \notin Readers
  BY CallOfLabel DEF Procs
<1>2. /\ p \in Pushers => to \in PushLabels
      /\ p \in Readers => to \in ReadLabels
  BY DEF PushLabels, ReadLabels
<1>3. LabelMove(p) /\ pc[p] = from /\ pc'[p] = to
  BY <1>2, MoveLabels
<1>4. KeepsLocks(p)
  BY <1>1, <1>3, HeldLabels DEF KeepsLocks, MonPush, MonRead, ExclLabels
<1> QED
  BY <1>3, <1>4
     DEF WalkMove, BallocLabels, WriteLabels, RegisteredLabels, Wakes

LEMMA WalkPlain ==
  ASSUME TypeInv, NEW p \in Procs, WalkStep(p)
  PROVE  Plain(p)
<1>0. /\ p \in Pushers \/ p \in Readers
      /\ p \in Pushers => p \notin Readers
      /\ seg[mapped[p]] \in SegmentType /\ rest[p] \subseteq Tuples /\ DataTypes
  BY CallOfLabel, TypesNow DEF Procs
(* Steps that change the rest of the walk only.                            *)
<1>a. ASSUME NEW from \in {"scan", "element", "compared"},
             NEW to \in {"element", "data", "miss", "clone", "returned", "again", "absent"},
             WalkMove(p, from, to), NEW R \in SUBSET Tuples,
             rest' = [rest EXCEPT ![p] = R],
             UNCHANGED <<segments, pointers, sems, index, landed>>,
             to \in WalkLabels /\ p \in Readers =>
               \/ from = "scan" /\ R = seg[mapped[p]].tuples
               \/ from \in WalkLabels /\ rest[p] \cap (Wanted[p] \ Garbled) \subseteq R,
             to \notin {"again"}
      PROVE  Plain(p)
  <2>1. LockMoves(p)
    BY <1>a, LocksKept DEF WalkMove
  <2>2. BucketMove(p)
    BY <1>a, BucketStays DEF segments
  <2>3. rest'[p] = R
    BY <1>0, <1>a DEF DataTypes
  <2>4. Frame(p) /\ StepTypes
    BY <1>0, <1>a DEF Frame, StepTypes, segments, pointers, sems, DataTypes
  <2>5. PushMove(p)
    BY <1>a DEF WalkMove, PushMove
  <2>6. ASSUME p \in Readers PROVE ReadMove(p)
    BY <1>a, <2>3, <2>6 DEF WalkMove, ReadMove, pointers
  <2> QED
    BY <1>a, <2>1, <2>2, <2>4, <2>5, <2>6 DEF Plain, WalkMove
(* Steps that remap.                                                       *)
<1>b. ASSUME NEW taken \in SUBSET {"element"}, remaps(p, taken),
             NEW to \in {"data", "again", "absent"},
             WalkMove(p, "element", to),
             UNCHANGED <<segments, rest, sems, index, landed>>,
             to = "again" => rest[p] = {}
      PROVE  Plain(p)
  <2>1. taken \in SUBSET Pointers
    BY DEF Pointers
  <2>2. /\ Frame(p) /\ StepTypes /\ LockMoves(p) /\ BucketMove(p)
        /\ RemapMove(p, taken)
    BY <1>b, <2>1, RemapStep DEF WalkMove
  <2>3. PushMove(p)
    BY <1>b DEF WalkMove, PushMove
  <2>4. ReadMove(p)
    BY <1>b, <2>2 DEF WalkMove, ReadMove, RemapMove, WalkLabels
  <2> QED
    BY <1>b, <2>2, <2>3, <2>4 DEF Plain, WalkMove
<1>1. CASE walk_starts(p)
  <2>1. WalkMove(p, "scan", "element")
    BY <1>1, WalkMoves DEF walk_starts
  <2>2. seg[mapped[p]].tuples \in SUBSET Tuples
    BY <1>0 DEF SegmentType
  <2> QED
    BY <1>1, <1>a, <2>1, <2>2 DEF walk_starts
<1>2. CASE walk_visits(p)
  <2>1. WalkMove(p, "element", "data")
    BY <1>2, WalkMoves DEF walk_visits
  <2> QED
    BY <1>2, <1>b, <2>1 DEF walk_visits
<1>3. CASE walk_misses(p)
  <2>1. WalkMove(p, "compared", "miss")
    BY <1>3, WalkMoves DEF walk_misses
  <2>2. PICK t \in rest[p] \ (Sought(p) \ Garbled) : rest' = [rest EXCEPT ![p] = @ \ {t}]
    BY <1>3 DEF walk_misses
  <2>3. /\ rest' = [rest EXCEPT ![p] = rest[p] \ {t}]
        /\ rest[p] \ {t} \in SUBSET Tuples
    BY <1>0, <2>2
  <2>4. p \in Readers => rest[p] \cap (Wanted[p] \ Garbled) \subseteq rest[p] \ {t}
    BY <1>0, <2>2 DEF Sought
  <2>5. "compared" \in WalkLabels
    BY DEF WalkLabels
  <2> QED
    BY <1>3, <1>a, <2>1, <2>3, <2>4, <2>5 DEF walk_misses
<1>4. CASE walk_matches(p)
  <2>1. PICK to \in {"clone", "returned"} :
          /\ to = IF p \in Readers THEN "clone" ELSE "returned"
          /\ move(p, "compared", to)
    BY <1>4 DEF walk_matches
  <2>2. WalkMove(p, "compared", to)
    BY <1>0, <2>1, WalkMoves
  <2>3. to \notin WalkLabels \cup {"again"} /\ {} \in SUBSET Tuples
    BY DEF WalkLabels
  <2>4. /\ rest' = [rest EXCEPT ![p] = {}]
        /\ UNCHANGED <<segments, pointers, sems, index, landed>>
    BY <1>4 DEF walk_matches
  <2> QED
    BY <1>a, <2>2, <2>3, <2>4
<1>5. CASE walk_ends(p)
  <2>1. PICK to \in {"again", "absent"} :
          /\ to = IF p \in Readers THEN "again" ELSE "absent"
          /\ move(p, "element", to)
    BY <1>5 DEF walk_ends
  <2>2. WalkMove(p, "element", to)
    BY <1>0, <2>1, WalkMoves
  <2> QED
    BY <1>5, <1>b, <2>2 DEF walk_ends
<1> QED
  BY <1>1, <1>2, <1>3, <1>4, <1>5 DEF WalkStep

(* A step of one call, between labels of it.                               *)
CallMove(p, from, to) ==
  /\ LabelMove(p) /\ pc[p] = from /\ pc'[p] = to
  /\ from \notin {"crashed", "exited"} \cup BallocLabels

(* The steps of push_tuple.                                                *)
LEMMA PushTuplePlain ==
  ASSUME TypeInv, NEW p \in Pushers, push_tuple(p)
  PROVE  Plain(p)
<1>0. p \in Procs /\ p \notin Readers
  BY CallOfLabel DEF Procs
<1>1. CallMove(p, "idle", "scan")
  BY <1>0, MoveLabels DEF push_tuple, PushLabels, CallMove, BallocLabels
<1>2. KeepsLocks(p)
  BY <1>0, <1>1, HeldLabels DEF KeepsLocks, CallMove, MonPush, ExclLabels
<1>3. {"list"} \in SUBSET Pointers
  BY DEF Pointers
<1>4. /\ Frame(p) /\ StepTypes /\ LockMoves(p) /\ BucketMove(p)
  BY <1>0, <1>1, <1>2, <1>3, RemapStep DEF push_tuple, CallMove
<1>5. PushMove(p)
  BY <1>1 DEF push_tuple, PushMove, CallMove, WriteLabels, Wakes
<1> QED
  BY <1>0, <1>1, <1>4, <1>5 DEF Plain, CallMove

LEMMA BallocFitsPlain ==
  ASSUME TypeInv, NEW p \in Pushers, balloc_fits(p)
  PROVE  Plain(p)
<1>0. p \in Procs /\ p \notin Readers
  BY CallOfLabel DEF Procs
<1>1. PICK b \in Ballocs : move(p, b[1], b[2])
  BY DEF balloc_fits
<1>2. \/ b[1] = "pElement" /\ b[2] = "pEnter"
      \/ b[1] = "pClone" /\ b[2] = "pCopy"
      \/ b[1] = "pValue" /\ b[2] = "pDeref"
  BY DEF Ballocs
<1>3. LabelMove(p) /\ pc[p] = b[1] /\ pc'[p] = b[2]
  BY <1>0, <1>1, <1>2, MoveLabels DEF PushLabels
<1>4. KeepsLocks(p)
  BY <1>0, <1>2, <1>3, HeldLabels DEF KeepsLocks, MonPush, ExclLabels
<1>5. {} \in SUBSET Pointers
  OBVIOUS
<1>6. /\ Frame(p) /\ StepTypes /\ LockMoves(p) /\ BucketMove(p)
      /\ RemapMove(p, {})
  BY <1>0, <1>3, <1>4, <1>5, RemapStep DEF balloc_fits
<1>7. PushMove(p)
  BY <1>2, <1>3, <1>6 DEF balloc_fits, PushMove, RemapMove, Wakes
<1> QED
  BY <1>0, <1>2, <1>3, <1>6, <1>7 DEF balloc_fits, Plain

LEMMA InsertHeadPlain ==
  ASSUME TypeInv, NEW p \in Pushers, insert_head(p)
  PROVE  Plain(p)
<1>0. p \in Procs /\ p \notin Readers /\ seg[mapped[p]] \in SegmentType
      /\ mapped[p] \in Segments /\ DataTypes
  BY CallOfLabel, TypesNow DEF Procs
<1>1. CallMove(p, "pHead", "pAgain")
  BY <1>0, MoveLabels DEF insert_head, PushLabels, CallMove, BallocLabels
<1>2. LockMoves(p)
  BY <1>0, <1>1, LocksKept, HeldLabels
     DEF insert_head, KeepsLocks, CallMove, MonPush, ExclLabels
<1> DEFINE b == [seg[mapped[p]] EXCEPT !.tuples = @ \cup {Added[p]}]
<1>3. /\ b \in SegmentType /\ b.tuples = seg[mapped[p]].tuples \cup {Added[p]}
      /\ b.waitIndex = seg[mapped[p]].waitIndex /\ b.waitIndex >= seg[mapped[p]].waitIndex
      /\ b.wakeIndex >= seg[mapped[p]].wakeIndex
  BY <1>0 DEF SegmentType, Tuples
<1>4. seg' = [seg EXCEPT ![mapped[p]] = b]
  BY <1>0 DEF insert_head
<1>5. BucketMove(p) /\ seg' \in [Segments -> SegmentType] /\ seg'[mapped[p]] = b
  BY <1>0, <1>1, <1>3, <1>4, BucketWritten DEF CallMove
<1>6. Frame(p) /\ StepTypes
  BY <1>0, <1>5 DEF insert_head, Frame, StepTypes, pointers, sems, DataTypes
<1>7. mapped[p] = current => Added[p] \in seg'[current].tuples
  BY <1>3, <1>5
<1>8. PushMove(p)
  BY <1>1, <1>7 DEF insert_head, PushMove, CallMove, WriteLabels, Wakes
<1> QED
  BY <1>0, <1>1, <1>2, <1>5, <1>6, <1>8 DEF Plain, CallMove

LEMMA BroadcastWakePlain ==
  ASSUME TypeInv, NEW p \in Pushers, broadcast_wake(p)
  PROVE  Plain(p)
<1>0. p \in Procs /\ p \notin Readers /\ seg[mapped[p]] \in SegmentType
      /\ mapped[p] \in Segments /\ DataTypes
  BY CallOfLabel, TypesNow DEF Procs
<1>1. CallMove(p, "bWake", "bLoop")
  BY <1>0, MoveLabels DEF broadcast_wake, PushLabels, CallMove, BallocLabels
<1>2. SemMove(p, "cond", seg[mapped[p]].waiting)
  <2>1. seg[mapped[p]].waiting \in Int /\ "cond" \in Sems
    BY <1>0 DEF SegmentType, Sems
  <2> QED
    BY <1>0, <2>1, ReleaseMoves DEF broadcast_wake
<1>3. LockMoves(p)
  <2>1. seg[mapped[p]].waiting \in Int
    BY <1>0 DEF SegmentType
  <2>2. KeepsLocks(p)
    BY <1>0, <1>1, HeldLabels DEF KeepsLocks, CallMove, MonPush, ExclLabels
  <2> QED
    BY <1>0, <1>2, <2>1, <2>2, LocksKeptBySemop
<1> DEFINE b == [seg[mapped[p]] EXCEPT !.wakeIndex = seg[mapped[p]].waitIndex]
<1>4. /\ b \in SegmentType /\ b.tuples = seg[mapped[p]].tuples
      /\ b.waitIndex >= seg[mapped[p]].waitIndex
      /\ b.wakeIndex = seg[mapped[p]].waitIndex
  BY <1>0 DEF SegmentType
<1>5. seg' = [seg EXCEPT ![mapped[p]] = b]
  BY <1>0 DEF broadcast_wake
<1>6. BucketMove(p) /\ seg' \in [Segments -> SegmentType] /\ seg'[mapped[p]] = b
  BY <1>0, <1>4, <1>5, BucketWritten
<1>7. Frame(p) /\ StepTypes
  BY <1>0, <1>2, <1>6 DEF broadcast_wake, Frame, StepTypes, pointers, SemMove, DataTypes
<1>8. PushMove(p)
  <2>1. mapped[p] = current => seg'[current].wakeIndex = seg[current].waitIndex
    BY <1>4, <1>6
  <2> QED
    BY <1>1, <2>1 DEF broadcast_wake, PushMove, CallMove, WriteLabels, Wakes
<1> QED
  BY <1>0, <1>1, <1>3, <1>6, <1>7, <1>8 DEF Plain, CallMove

LEMMA BroadcastLoopPlain ==
  ASSUME TypeInv, NEW p \in Pushers, broadcast_loop(p)
  PROVE  Plain(p)
<1>0. p \in Procs /\ p \notin Readers /\ seg[mapped[p]] \in SegmentType
      /\ mapped[p] \in Segments /\ DataTypes
  BY CallOfLabel, TypesNow DEF Procs
<1>1. CallMove(p, "bLoop", "bHand")
  BY <1>0, MoveLabels DEF broadcast_loop, PushLabels, CallMove, BallocLabels
<1>2. LockMoves(p)
  BY <1>0, <1>1, LocksKept, HeldLabels
     DEF broadcast_loop, KeepsLocks, CallMove, MonPush, ExclLabels
<1> DEFINE b == [seg[mapped[p]] EXCEPT !.waiting = @ - 1]
<1>3. /\ b \in SegmentType /\ b.tuples = seg[mapped[p]].tuples
      /\ b.waitIndex >= seg[mapped[p]].waitIndex
      /\ b.wakeIndex >= seg[mapped[p]].wakeIndex
  <2>1. seg[mapped[p]].waiting - 1 \in Nat
    BY <1>0 DEF broadcast_loop, SegmentType
  <2> QED
    BY <1>0, <2>1 DEF SegmentType
<1>4. seg' = [seg EXCEPT ![mapped[p]] = b]
  BY <1>0 DEF broadcast_loop
<1>5. BucketMove(p) /\ seg' \in [Segments -> SegmentType]
  BY <1>0, <1>3, <1>4, BucketWritten
<1>6. Frame(p) /\ StepTypes
  BY <1>0, <1>5 DEF broadcast_loop, Frame, StepTypes, pointers, sems, DataTypes
<1>7. PushMove(p)
  BY <1>1 DEF broadcast_loop, PushMove, CallMove, WriteLabels, Wakes
<1> QED
  BY <1>0, <1>1, <1>2, <1>5, <1>6, <1>7 DEF Plain, CallMove

LEMMA BroadcastEndPlain ==
  ASSUME TypeInv, NEW p \in Pushers, broadcast_release_excl(p)
  PROVE  Plain(p)
<1>0. p \in Procs /\ p \notin Readers
  BY CallOfLabel DEF Procs
<1>1. CallMove(p, "bLoop", "returned")
  BY <1>0, MoveLabels DEF broadcast_release_excl, PushLabels, CallMove, BallocLabels
<1>2. SemMove(p, "excl", 1)
  BY <1>0, ReleaseMoves DEF broadcast_release_excl, Sems
<1>3. LockMoves(p)
  BY <1>0, <1>1, <1>2, HeldLabels
     DEF LockMoves, LockMove, Keeps, Leaves, SemMove, CallMove, MonPush, ExclLabels, Sems
<1>4. Frame(p) /\ StepTypes /\ BucketMove(p)
  BY <1>0, <1>2, SemStep DEF broadcast_release_excl, SemMove
<1>5. PushMove(p)
  BY <1>1 DEF broadcast_release_excl, PushMove, CallMove, WriteLabels, Wakes
<1> QED
  BY <1>0, <1>1, <1>3, <1>4, <1>5 DEF Plain, CallMove

(* The steps of peek_tuple.                                                *)
LEMMA PeekTuplePlain ==
  ASSUME TypeInv, NEW p \in Readers, peek_tuple(p)
  PROVE  Plain(p)
<1>0. p \in Procs /\ p \notin Pushers
  BY CallOfLabel DEF Procs
<1>1. CallMove(p, "idle", "bucket")
  BY <1>0, MoveLabels DEF peek_tuple, ReadLabels, CallMove, BallocLabels
<1>2. KeepsLocks(p)
  BY <1>0, <1>1, HeldLabels DEF KeepsLocks, CallMove, MonRead, ExclLabels
<1>3. {"hashTable"} \in SUBSET Pointers
  BY DEF Pointers
<1>4. /\ Frame(p) /\ StepTypes /\ LockMoves(p) /\ BucketMove(p)
  BY <1>0, <1>1, <1>2, <1>3, RemapStep DEF peek_tuple, CallMove
<1>5. ReadMove(p)
  BY <1>1 DEF peek_tuple, ReadMove, CallMove, WalkLabels, RegisteredLabels
<1> QED
  BY <1>0, <1>1, <1>4, <1>5 DEF Plain, CallMove

LEMMA WaitCountPlain ==
  ASSUME TypeInv, NEW p \in Readers, wait_count(p)
  PROVE  Plain(p)
<1>0. p \in Procs /\ p \notin Pushers /\ seg[mapped[p]] \in SegmentType
      /\ mapped[p] \in Segments /\ DataTypes
  BY CallOfLabel, TypesNow DEF Procs
<1>1. CallMove(p, "count", "waitRelease")
  BY <1>0, MoveLabels DEF wait_count, ReadLabels, CallMove, BallocLabels
<1>2. LockMoves(p)
  BY <1>0, <1>1, LocksKept, HeldLabels
     DEF wait_count, KeepsLocks, CallMove, MonRead, ExclLabels
<1> DEFINE b == [seg[mapped[p]] EXCEPT !.waiting = @ + 1, !.waitIndex = @ + 1]
<1>3. /\ b \in SegmentType /\ b.tuples = seg[mapped[p]].tuples
      /\ b.waitIndex = seg[mapped[p]].waitIndex + 1 /\ b.waitIndex \in Nat
      /\ b.waitIndex >= seg[mapped[p]].waitIndex
      /\ b.wakeIndex >= seg[mapped[p]].wakeIndex
  <2>1. /\ seg[mapped[p]].waiting + 1 \in Nat /\ seg[mapped[p]].waitIndex + 1 \in Nat
        /\ seg[mapped[p]].waitIndex + 1 >= seg[mapped[p]].waitIndex
        /\ seg[mapped[p]].wakeIndex >= seg[mapped[p]].wakeIndex
    BY <1>0 DEF SegmentType
  <2>2. b.waitIndex = seg[mapped[p]].waitIndex + 1 /\ b.waiting = seg[mapped[p]].waiting + 1
        /\ b.wakeIndex = seg[mapped[p]].wakeIndex /\ b.tuples = seg[mapped[p]].tuples
    BY <1>0 DEF SegmentType
  <2>3. b \in SegmentType
    BY <1>0, <2>1, <2>2 DEF SegmentType
  <2> QED
    BY <2>1, <2>2, <2>3
<1>4. seg' = [seg EXCEPT ![mapped[p]] = b]
  BY <1>0 DEF wait_count, SegmentType
<1>5. BucketMove(p) /\ seg' \in [Segments -> SegmentType] /\ seg'[mapped[p]] = b
  BY <1>0, <1>3, <1>4, BucketWritten
<1>6. index' = [index EXCEPT ![p] = b.waitIndex]
  BY <1>3 DEF wait_count
<1>7. Frame(p) /\ StepTypes /\ index'[p] = seg'[mapped[p]].waitIndex
  BY <1>0, <1>3, <1>5, <1>6 DEF wait_count, Frame, StepTypes, pointers, sems, DataTypes
<1>8. ReadMove(p)
  BY <1>1, <1>7
     DEF wait_count, ReadMove, CallMove, WalkLabels, RegisteredLabels, pointers
<1> QED
  BY <1>0, <1>1, <1>2, <1>5, <1>7, <1>8 DEF Plain, CallMove

LEMMA TestPlain ==
  ASSUME TypeInv, NEW p \in Readers, wait_test(p) \/ signal_nobody(p)
  PROVE  Plain(p)
<1>0. p \in Procs /\ p \notin Pushers /\ DataTypes
  BY CallOfLabel, TypesNow DEF Procs
<1>1. UNCHANGED <<segments, pointers, rest, sems, index, landed>>
  BY DEF wait_test, signal_nobody
<1>2. PICK from \in {"test", "signalTest"}, to \in {"sleep", "reenter", "signalRelease"} :
        /\ move(p, from, to)
        /\ from = "test" <=> to \in {"sleep", "reenter"}
  BY DEF wait_test, signal_nobody
<1>3. CallMove(p, from, to)
  BY <1>0, <1>2, MoveLabels DEF ReadLabels, CallMove, BallocLabels
<1>4. LockMoves(p)
  BY <1>0, <1>1, <1>2, <1>3, LocksKept, HeldLabels
     DEF KeepsLocks, CallMove, MonRead, ExclLabels
<1>5. Frame(p) /\ StepTypes /\ BucketMove(p)
  BY <1>0, <1>1, SemStep DEF sems, DataTypes
<1>6. ReadMove(p)
  BY <1>1, <1>2, <1>3
     DEF ReadMove, CallMove, WalkLabels, RegisteredLabels, pointers, segments
<1> QED
  BY <1>0, <1>3, <1>4, <1>5, <1>6 DEF Plain, CallMove

LEMMA SignalWakePlain ==
  ASSUME TypeInv, NEW p \in Readers, signal_wake(p)
  PROVE  Plain(p)
<1>0. p \in Procs /\ p \notin Pushers /\ seg[mapped[p]] \in SegmentType
      /\ mapped[p] \in Segments /\ DataTypes
  BY CallOfLabel, TypesNow DEF Procs
<1>1. CallMove(p, "signalTest", "signalHand")
  BY <1>0, MoveLabels DEF signal_wake, ReadLabels, CallMove, BallocLabels
<1>2. seg[mapped[p]].waiting \in Int /\ "cond" \in Sems
  BY <1>0 DEF SegmentType, Sems
<1>3. SemMove(p, "cond", seg[mapped[p]].waiting)
  BY <1>0, <1>2, ReleaseMoves DEF signal_wake
<1>4. LockMoves(p)
  <2>1. KeepsLocks(p)
    BY <1>0, <1>1, HeldLabels DEF KeepsLocks, CallMove, MonRead, ExclLabels
  <2> QED
    BY <1>0, <1>2, <1>3, <2>1, LocksKeptBySemop
<1> DEFINE b == [seg[mapped[p]] EXCEPT !.wakeIndex = @ + 1, !.waiting = @ - 1]
<1>5. /\ b \in SegmentType /\ b.tuples = seg[mapped[p]].tuples
      /\ b.waitIndex >= seg[mapped[p]].waitIndex
      /\ b.wakeIndex >= seg[mapped[p]].wakeIndex
  <2>1. /\ seg[mapped[p]].waiting - 1 \in Nat /\ seg[mapped[p]].wakeIndex + 1 \in Nat
        /\ seg[mapped[p]].wakeIndex + 1 >= seg[mapped[p]].wakeIndex
        /\ seg[mapped[p]].waitIndex >= seg[mapped[p]].waitIndex
    BY <1>0 DEF signal_wake, SegmentType
  <2>2. b.wakeIndex = seg[mapped[p]].wakeIndex + 1 /\ b.waiting = seg[mapped[p]].waiting - 1
        /\ b.waitIndex = seg[mapped[p]].waitIndex /\ b.tuples = seg[mapped[p]].tuples
    BY <1>0 DEF SegmentType
  <2>3. b \in SegmentType
    BY <1>0, <2>1, <2>2 DEF SegmentType
  <2> QED
    BY <2>1, <2>2, <2>3
<1>6. seg' = [seg EXCEPT ![mapped[p]] = b]
  BY <1>0 DEF signal_wake, SegmentType
<1>7. BucketMove(p) /\ seg' \in [Segments -> SegmentType]
  BY <1>0, <1>5, <1>6, BucketWritten
<1>8. Frame(p) /\ StepTypes
  BY <1>0, <1>3, <1>7 DEF signal_wake, Frame, StepTypes, pointers, SemMove, DataTypes
<1>9. ReadMove(p)
  BY <1>1 DEF signal_wake, ReadMove, CallMove, WalkLabels, RegisteredLabels, pointers
<1> QED
  BY <1>0, <1>1, <1>4, <1>7, <1>8, <1>9 DEF Plain, CallMove

(* A step of process p that neither copies nor publishes.                  *)
PlainStep(p) ==
  \/ /\ p \in Pushers
     /\ \/ push_tuple(p) \/ balloc_fits(p) \/ insert_head(p)
        \/ broadcast_wake(p) \/ broadcast_loop(p) \/ broadcast_release_excl(p)
  \/ p \in Readers /\ PeekStep(p)
  \/ WalkStep(p) \/ deref_ptr(p) \/ semop(p) \/ crash(p)

LEMMA StepIsPlain ==
  ASSUME TypeInv, NEW p \in Procs, PlainStep(p)
  PROVE  Plain(p)
<1>1. CASE p \in Pushers /\ (push_tuple(p) \/ balloc_fits(p) \/ insert_head(p))
  BY <1>1, PushTuplePlain, BallocFitsPlain, InsertHeadPlain
<1>2. CASE p \in Pushers /\ (broadcast_wake(p) \/ broadcast_loop(p) \/ broadcast_release_excl(p))
  BY <1>2, BroadcastWakePlain, BroadcastLoopPlain, BroadcastEndPlain
<1>3. CASE p \in Readers /\ PeekStep(p)
  BY <1>3, PeekTuplePlain, WaitCountPlain, TestPlain, SignalWakePlain DEF PeekStep
<1>4. CASE WalkStep(p) \/ deref_ptr(p) \/ semop(p) \/ crash(p)
  BY <1>4, WalkPlain, DerefPlain, SemopPlain, CrashPlain
<1> QED
  BY <1>1, <1>2, <1>3, <1>4 DEF PlainStep

-----------------------------------------------------------------------------
(***************************************************************************)
(* Such a step keeps the invariant.                                        *)
(***************************************************************************)
LEMMA PlainTypes ==
  ASSUME TypeInv, NEW p \in Procs, Plain(p)
  PROVE  TypeInv'
<1>1. Frame(p) /\ StepTypes /\ LabelMove(p) /\ DataTypes /\ LabelTypes
  BY DEF Plain, TypeInv
<1>2. DataTypes'
  BY <1>1 DEF Frame, StepTypes, DataTypes
<1>3. LabelTypes'
  BY <1>1 DEF LabelMove, LabelTypes, Procs
<1> QED
  BY <1>2, <1>3 DEF TypeInv

LEMMA PlainLocks ==
  ASSUME TypeInv, LockInv, NEW p \in Procs, LabelMove(p), LockMoves(p)
  PROVE  LockInv'
<1>1. /\ \A q \in Procs \ {p} : pc'[q] = pc[q]
      /\ LockOK("mon", MonHeld) /\ LockOK("excl", ExclHeld)
      /\ LockMove(p, "mon", MonHeld) /\ LockMove(p, "excl", ExclHeld)
      /\ "mon" \in Sems /\ "excl" \in Sems
  BY DEF LabelMove, LockInv, LockMoves, Sems
<1>2. LockOK("mon", MonHeld)'
  BY <1>1, LockStep DEF MonHeld
<1>3. LockOK("excl", ExclHeld)'
  BY <1>1, LockStep DEF ExclHeld
<1> QED
  BY <1>2, <1>3 DEF LockInv

(* Whoever replaces the segment does not take a plain step meanwhile, and  *)
(* an insertion that is not overtaken goes to the current segment while    *)
(* nobody replaces it.                                                     *)
LEMMA PlainReplacer ==
  ASSUME TypeInv, CopyInv, WriteInv, NEW p \in Procs, Plain(p)
  PROVE  /\ replacer # p
         /\ \/ landed' = landed
            \/ /\ replacer = Nobody /\ landed' = landed \cup {Added[p]}
               /\ Added[p] \in seg'[current].tuples
<1>1. replacer # p
  BY GrowingBucketAssumption DEF CopyInv, Plain
<1>2. CASE p \in Readers
  BY <1>1, <1>2 DEF Plain, ReadMove
<1>3. CASE p \in Pushers
  <2>1. PushMove(p)
    BY <1>3 DEF Plain
  <2>2. CASE pc[p] = "pHead" /\ p \notin overtaken
    <3>1. mapped[p] = current /\ replacer \in {Nobody, p}
      BY <1>3, <2>2 DEF WriteInv, WriteLabels
    <3> QED
      BY <1>1, <2>1, <3>1 DEF PushMove
  <2>3. CASE ~ (pc[p] = "pHead" /\ p \notin overtaken)
    BY <1>1, <2>1, <2>3 DEF PushMove
  <2> QED
    BY <2>2, <2>3
<1> QED
  BY <1>2, <1>3 DEF Procs

LEMMA PlainCopy ==
  ASSUME TypeInv, CopyInv, WriteInv, PushesStay, NEW p \in Procs, Plain(p)
  PROVE  CopyInv' /\ WriteInv' /\ PushesStay'
<1>1. /\ Frame(p) /\ LabelMove(p) /\ BucketMove(p)
      /\ replacer # p
      /\ \/ landed' = landed
         \/ /\ replacer = Nobody /\ landed' = landed \cup {Added[p]}
            /\ Added[p] \in seg'[current].tuples
  BY PlainReplacer DEF Plain
<1>2. /\ current' = current /\ replacer' = replacer /\ overtaken' = overtaken
      /\ \A q \in Procs \ {p} : pc'[q] = pc[q] /\ mapped'[q] = mapped[q]
      /\ seg[current].tuples \subseteq seg'[current].tuples
      /\ seg'[current + 1] = seg[current + 1]
  BY <1>1 DEF Frame, LabelMove, BucketMove
<1>3. CopyInv'
  BY <1>1, <1>2 DEF CopyInv
<1>4. PushesStay'
  BY <1>1, <1>2 DEF PushesStay
<1>5. ASSUME NEW q \in Pushers \ overtaken, pc'[q] \in WriteLabels
      PROVE  mapped'[q] = current /\ replacer \in {Nobody, q}
  <2>1. CASE q # p
    BY <1>2, <1>5, <2>1 DEF WriteInv, Procs
  <2>2. CASE q = p
    <3>1. PushMove(p)
      BY <2>2 DEF Plain
    <3> QED
      BY <1>5, <2>2, <3>1 DEF PushMove, WriteInv
  <2> QED
    BY <2>1, <2>2
<1>6. WriteInv'
  BY <1>2, <1>5 DEF WriteInv
<1> QED
  BY <1>3, <1>4, <1>6

(* The tuples that a reader has ahead change with the list.                *)
LEMMA AheadStays ==
  ASSUME NEW r \in Readers, current' = current, overtaken' = overtaken,
         seg'[current].tuples = seg[current].tuples
  PROVE  Ahead(r)' = Ahead(r)
BY DEF Ahead, Garbled

LEMMA PlainWalk ==
  ASSUME TypeInv, LockInv, WalkInv, NEW p \in Procs, Plain(p)
  PROVE  WalkInv'
<1> SUFFICES ASSUME NEW r \in Readers PROVE Walked(r)'
  BY DEF WalkInv
<1>0. /\ Frame(p) /\ LabelMove(p) /\ BucketMove(p)
      /\ current' = current /\ overtaken' = overtaken
      /\ Walked(r) /\ r \in Procs /\ r \notin Pushers
  BY CallOfLabel DEF Plain, Frame, WalkInv, Procs
<1>1. CASE r # p
  <2>1. pc'[r] = pc[r] /\ fresh'[r] = fresh[r] /\ mapped'[r] = mapped[r] /\ rest'[r] = rest[r]
    BY <1>0, <1>1 DEF Frame, LabelMove
  <2>2. ASSUME pc[r] \in WalkLabels \cup {"again", "wait", "waitExcl", "count"}
        PROVE  Ahead(r)' = Ahead(r)
    <3>1. pc[r] \in MonHeld[r]
      BY <1>0, <2>2, HeldLabels DEF MonRead, WalkLabels
    <3>2. ~ (p \in Pushers /\ pc[p] = "pHead")
      <4> SUFFICES ASSUME p \in Pushers, pc[p] = "pHead" PROVE FALSE
        OBVIOUS
      <4>1. pc[p] \in MonHeld[p]
        BY CallOfLabel, HeldLabels DEF MonPush
      <4> QED
        BY <1>0, <1>1, <3>1, <4>1 DEF LockInv, LockOK
    <3>3. seg'[current].tuples = seg[current].tuples
      BY <1>0, <3>2 DEF BucketMove
    <3> QED
      BY <1>0, <3>3, AheadStays
  <2> QED
    BY <1>0, <2>1, <2>2 DEF Walked
<1>2. CASE r = p
  <2>1. ReadMove(r)
    BY <1>2 DEF Plain
  <2>2. Ahead(r)' = Ahead(r)
    <3>1. seg'[current].tuples = seg[current].tuples
      BY <1>0, <1>2 DEF BucketMove
    <3> QED
      BY <1>0, <3>1, AheadStays
  <2>3. /\ Ahead(r) \subseteq seg[current].tuples
        /\ Ahead(r) \subseteq Wanted[r] \ Garbled
    BY DEF Ahead
  <2>4. ASSUME pc'[r] \in WalkLabels, "hashTable" \in fresh'[r], mapped'[r] = current
        PROVE  Ahead(r) \subseteq rest'[r]
    <3>1. CASE pc[r] = "scan" /\ rest'[r] = seg[mapped[r]].tuples
      <4>1. mapped[r] = current
        BY <2>1, <2>4, <3>1 DEF ReadMove
      <4> QED
        BY <2>3, <3>1, <4>1
    <3>2. CASE pc[r] \in WalkLabels /\ rest[r] \cap (Wanted[r] \ Garbled) \subseteq rest'[r]
      <4>1. "hashTable" \in fresh[r] /\ mapped[r] = current
        BY <2>1, <2>4, <3>2 DEF ReadMove, WalkLabels
      <4>2. Ahead(r) \subseteq rest[r]
        BY <1>0, <3>2, <4>1 DEF Walked
      <4> QED
        BY <2>3, <3>2, <4>2
    <3> QED
      BY <2>1, <2>4, <3>1, <3>2 DEF ReadMove
  <2>5. ASSUME pc'[r] = "again", "hashTable" \in fresh'[r]
        PROVE  Ahead(r) = {}
    <3>1. /\ pc[r] = "element" /\ rest[r] = {} /\ mapped[r] = current
          /\ "hashTable" \in fresh[r]
      BY <2>1, <2>5 DEF ReadMove
    <3> QED
      BY <1>0, <3>1 DEF Walked, WalkLabels
  <2>6. ASSUME pc'[r] \in {"wait", "waitExcl", "count"}
        PROVE  Ahead(r) = {}
    BY <1>0, <2>1, <2>6 DEF ReadMove, Walked
  <2> QED
    BY <1>0, <2>2, <2>4, <2>5, <2>6 DEF Walked
<1> QED
  BY <1>1, <1>2

(* The counters of the current bucket are numbers, before and after.       *)
LEMMA PlainCounters ==
  ASSUME TypeInv, NEW p \in Procs, Plain(p), NEW r \in Procs
  PROVE  /\ seg[current].waitIndex \in Nat /\ seg[current].wakeIndex \in Nat
         /\ seg'[current].waitIndex \in Nat /\ seg'[current].wakeIndex \in Nat
         /\ index[r] \in Nat /\ index'[r] \in Nat
<1>1. seg[current] \in SegmentType /\ current \in Segments /\ index[r] \in Nat
  BY TypesNow DEF DataTypes
<1>2. seg'[current] \in SegmentType /\ index'[r] \in Nat
  BY <1>1 DEF Plain, StepTypes
<1> QED
  BY <1>1, <1>2 DEF SegmentType

(* A pusher that is about to wake the registered readers goes on to do so. *)
LEMMA WakerStep ==
  ASSUME TypeInv, NEW p \in Procs, Plain(p), NEW q \in Pushers, Wakes(q),
         pc'[q] # "crashed", seg'[current].wakeIndex # seg[current].waitIndex
  PROVE  Wakes(q)'
<1>0. q \in Procs
  BY DEF Procs
<1>1. CASE q = p
  BY <1>1 DEF Plain, PushMove
<1>2. CASE q # p
  <2>1. pc'[q] = pc[q] /\ mapped'[q] = mapped[q] /\ current' = current
    BY <1>0, <1>2 DEF Plain, Frame, LabelMove
  <2> QED
    BY <2>1 DEF Wakes
<1> QED
  BY <1>1, <1>2

(* A step of another process: it wakes r, or leaves the waker to, or is an *)
(* insertion, whose pusher will.                                           *)
LEMMA OtherServed ==
  ASSUME TypeInv, NEW p \in Procs, Plain(p), NoPusherDied',
         NEW r \in Readers, r # p, Served(r)
  PROVE  Served(r)'
<1> SUFFICES ASSUME Registered(r)'
             PROVE  /\ index'[r] <= seg'[current].waitIndex
                    /\ seg'[current].wakeIndex < index'[r] /\ Ahead(r)' # {}
                         => \E q \in Pushers : Wakes(q)'
  BY DEF Served, Plain, Frame
<1>0. /\ Frame(p) /\ LabelMove(p) /\ BucketMove(p) /\ r \in Procs
      /\ current' = current /\ overtaken' = overtaken
  BY DEF Plain, Frame, Procs
<1>1. pc'[r] = pc[r] /\ fresh'[r] = fresh[r] /\ mapped'[r] = mapped[r] /\ index'[r] = index[r]
  BY <1>0 DEF Frame, LabelMove
<1>2. Registered(r)
  BY <1>0, <1>1 DEF Registered
<1>3. index[r] <= seg[current].waitIndex
  BY <1>2 DEF Served
<1>4. /\ seg[current].waitIndex \in Nat /\ seg[current].wakeIndex \in Nat
      /\ seg'[current].waitIndex \in Nat /\ seg'[current].wakeIndex \in Nat
      /\ index[r] \in Nat
  BY <1>0, PlainCounters
<1>5. index'[r] <= seg'[current].waitIndex
  BY <1>0, <1>1, <1>3, <1>4 DEF BucketMove
<1>6. ASSUME seg'[current].wakeIndex < index'[r], Ahead(r)' # {}
      PROVE  \E q \in Pushers : Wakes(q)'
  <2>1. seg'[current].wakeIndex # seg[current].waitIndex
    BY <1>1, <1>3, <1>4, <1>6
  <2>2. seg[current].wakeIndex < index[r]
    BY <1>0, <1>1, <1>4, <1>6, <2>1 DEF BucketMove
  <2>3. CASE seg'[current].tuples = seg[current].tuples
    <3>1. Ahead(r) # {}
      BY <1>0, <1>6, <2>3, AheadStays
    <3>2. PICK q \in Pushers : Wakes(q)
      BY <1>2, <2>2, <3>1 DEF Served
    <3>3. pc'[q] # "crashed"
      BY DEF NoPusherDied, Died
    <3>4. Wakes(q)'
      BY <2>1, <3>2, <3>3, WakerStep
    <3> QED
      BY <3>4
  <2>4. CASE p \in Pushers /\ pc'[p] = "pAgain"
    BY <2>4 DEF Wakes
  <2> QED
    BY <1>0, <2>3, <2>4 DEF BucketMove
<1> QED
  BY <1>5, <1>6

(* A reader's own step: it registers with the last ticket, and when it has *)
(* found nothing.                                                          *)
LEMMA OwnServed ==
  ASSUME TypeInv, WalkInv, NEW r \in Readers, r \in Procs, Plain(r), Served(r)
  PROVE  Served(r)'
<1> SUFFICES ASSUME Registered(r)'
             PROVE  /\ index'[r] <= seg'[current].waitIndex
                    /\ seg'[current].wakeIndex < index'[r] /\ Ahead(r)' # {}
                         => \E q \in Pushers : Wakes(q)'
  BY DEF Served, Plain, Frame
<1>0. /\ ReadMove(r) /\ Frame(r) /\ LabelMove(r) /\ BucketMove(r) /\ r \notin Pushers
      /\ current' = current /\ overtaken' = overtaken
  BY CallOfLabel DEF Plain, Frame
<1>1. Ahead(r)' = Ahead(r)
  <2>1. seg'[current].tuples = seg[current].tuples
    BY <1>0 DEF BucketMove
  <2> QED
    BY <1>0, <2>1, AheadStays
<1>2. /\ "condVar" \in fresh[r] /\ mapped[r] = current
      /\ \/ pc[r] \in RegisteredLabels /\ index'[r] = index[r] /\ seg' = seg
         \/ pc[r] = "count" /\ index'[r] = seg'[mapped[r]].waitIndex
  BY <1>0 DEF ReadMove, Registered
<1>3. CASE pc[r] \in RegisteredLabels /\ index'[r] = index[r] /\ seg' = seg
  <2>1. Registered(r)
    BY <1>2, <1>3 DEF Registered
  <2>2. ASSUME seg'[current].wakeIndex < index'[r], Ahead(r)' # {}
        PROVE  \E q \in Pushers : Wakes(q)'
    <3>1. PICK q \in Pushers : Wakes(q)
      BY <1>1, <1>3, <2>1, <2>2 DEF Served
    <3>2. q \in Procs \ {r}
      BY <1>0 DEF Procs
    <3>3. pc'[q] = pc[q] /\ mapped'[q] = mapped[q]
      BY <1>0, <3>2 DEF Frame, LabelMove
    <3> QED
      BY <1>0, <3>1, <3>3 DEF Wakes
  <2> QED
    BY <1>3, <2>1, <2>2 DEF Served
<1>4. CASE pc[r] = "count" /\ index'[r] = seg'[mapped[r]].waitIndex
  <2>1. Ahead(r) = {}
    BY <1>4 DEF WalkInv, Walked
  <2>2. index'[r] = seg'[current].waitIndex /\ seg'[current].waitIndex \in Nat
    BY <1>2, <1>4, PlainCounters
  <2> QED
    BY <1>1, <2>1, <2>2
<1> QED
  BY <1>2, <1>3, <1>4

LEMMA PlainServed ==
  ASSUME TypeInv, WalkInv, ServedInv, NEW p \in Procs, Plain(p)
  PROVE  ServedInv'
<1> SUFFICES ASSUME NoPusherDied', NEW r \in Readers PROVE Served(r)'
  BY DEF ServedInv
<1>1. NoPusherDied
  <2> SUFFICES ASSUME NEW q \in Pushers PROVE pc[q] \notin {"crashed", "exited"}
    BY DEF NoPusherDied, Died
  <2>1. pc'[q] \notin {"crashed", "exited"} /\ q \in Procs
    BY DEF NoPusherDied, Died, Procs
  <2>2. q = p \/ pc'[q] = pc[q]
    BY <2>1 DEF Plain, LabelMove
  <2> QED
    BY <2>1, <2>2 DEF Plain
<1>2. Served(r)
  BY <1>1 DEF ServedInv
<1> QED
  BY <1>2, OtherServed, OwnServed

LEMMA PlainInvariant ==
  ASSUME GrowingInv, NEW p \in Procs, Plain(p)
  PROVE  GrowingInv'
<1>1. /\ TypeInv /\ LockInv /\ CopyInv /\ WriteInv /\ PushesStay /\ WalkInv /\ ServedInv
      /\ LabelMove(p) /\ LockMoves(p)
  BY DEF GrowingInv, Plain
<1>2. TypeInv' /\ LockInv'
  BY <1>1, PlainTypes, PlainLocks
<1>3. CopyInv' /\ WriteInv' /\ PushesStay'
  BY <1>1, PlainCopy
<1>4. WalkInv' /\ ServedInv'
  BY <1>1, PlainWalk, PlainServed
<1> QED
  BY <1>2, <1>3, <1>4 DEF GrowingInv

-----------------------------------------------------------------------------
(***************************************************************************)
(* The two steps of a replacement, by a pusher or by a push to another     *)
(* bucket.                                                                 *)
(***************************************************************************)
Copies(by) ==
  /\ copy_blocks(by)
  /\ UNCHANGED <<rest, sems, pc, index, landed>>
  /\ \/ by = Others /\ UNCHANGED pointers
     \/ by \in Pushers /\ pc[by] \in BallocLabels /\ RemapMove(by, {})

(* The readers, and the processes other than the one that replaces the     *)
(* segment, keep their mappings.                                           *)
LEMMA CopyMoves ==
  ASSUME TypeInv, NEW by \in Pushers \cup {Others}, Copies(by)
  PROVE  /\ current' = current /\ replacer = Nobody /\ replacer' = by
         /\ current < MaxSegments /\ current + 1 \in Segments
         /\ seg' \in [Segments -> SegmentType] /\ seg'[current] = seg[current]
         /\ seg'[current + 1] = seg[current]
         /\ mapped' \in [Procs -> 1..current] /\ fresh' \in [Procs -> SUBSET Pointers]
         /\ UNCHANGED <<rest, sem, adj, pc, index, landed>>
         /\ \A q \in Procs \ {by} : mapped'[q] = mapped[q] /\ fresh'[q] = fresh[q]
         /\ by \in Procs => pc[by] \in BallocLabels /\ mapped'[by] = current
         /\ overtaken \subseteq overtaken' /\ overtaken' \subseteq Pushers
         /\ \A q \in Pushers \ {by} : pc[q] \in WriteLabels => q \in overtaken'
<1>1. /\ DataTypes /\ current \in Nat /\ current >= 1 /\ MaxSegments \in Nat
  <2>1. current \in Segments /\ DataTypes
    BY DEF TypeInv, DataTypes
  <2> QED
    BY <2>1, GrowingBucketAssumption DEF Segments
<1>2. /\ replacer = Nobody /\ current < MaxSegments /\ replacer' = by
      /\ seg' = [seg EXCEPT ![current + 1] = seg[current]]
      /\ overtaken' = overtaken \cup {p \in Pushers \ {by} : pc[p] \in Writing}
      /\ current' = current
      /\ UNCHANGED <<rest, sem, adj, pc, index, landed>>
  BY DEF Copies, copy_blocks, sems
<1>3. current + 1 \in Segments /\ current + 1 # current /\ current \in Segments
  BY <1>1, <1>2 DEF Segments
<1>4. /\ seg' \in [Segments -> SegmentType] /\ seg'[current] = seg[current]
      /\ seg'[current + 1] = seg[current]
  BY <1>1, <1>2, <1>3 DEF DataTypes
<1>5. WriteLabels \subseteq Writing
  BY DEF WriteLabels, Writing
<1>6. /\ overtaken \subseteq overtaken' /\ overtaken' \subseteq Pushers
      /\ \A q \in Pushers \ {by} : pc[q] \in WriteLabels => q \in overtaken'
  BY <1>1, <1>2, <1>5 DEF DataTypes
<1>7. CASE by = Others /\ UNCHANGED pointers
  <2>1. by \notin Procs
    BY <1>7, GrowingBucketAssumption
  <2> QED
    BY <1>1, <1>2, <1>3, <1>4, <1>6, <1>7, <2>1 DEF pointers, DataTypes
<1>8. CASE by \in Pushers /\ pc[by] \in BallocLabels /\ RemapMove(by, {})
  BY <1>2, <1>3, <1>4, <1>6, <1>8 DEF RemapMove
<1> QED
  BY <1>7, <1>8 DEF Copies

LEMMA CopyStep ==
  ASSUME GrowingInv, NEW by \in Pushers \cup {Others}, Copies(by)
  PROVE  GrowingInv'
<1>0. TypeInv /\ LockInv /\ CopyInv /\ WriteInv /\ PushesStay /\ WalkInv /\ ServedInv
  BY DEF GrowingInv
<1>1. /\ current' = current /\ replacer = Nobody /\ replacer' = by
      /\ current < MaxSegments
      /\ seg' \in [Segments -> SegmentType] /\ seg'[current] = seg[current]
      /\ seg'[current + 1] = seg[current]
      /\ mapped' \in [Procs -> 1..current] /\ fresh' \in [Procs -> SUBSET Pointers]
      /\ UNCHANGED <<rest, sem, adj, pc, index, landed>>
      /\ \A q \in Procs \ {by} : mapped'[q] = mapped[q] /\ fresh'[q] = fresh[q]
      /\ by \in Procs => pc[by] \in BallocLabels /\ mapped'[by] = current
      /\ overtaken \subseteq overtaken' /\ overtaken' \subseteq Pushers
      /\ \A q \in Pushers \ {by} : pc[q] \in WriteLabels => q \in overtaken'
  BY <1>0, CopyMoves
<1>2. TypeInv'
  BY <1>0, <1>1 DEF TypeInv, DataTypes, LabelTypes, Procs
<1>3. LockInv'
  BY <1>0, <1>1 DEF LockInv, LockOK
<1>4. CopyInv' /\ PushesStay'
  BY <1>0, <1>1 DEF CopyInv, PushesStay
<1>5. WriteInv'
  <2> SUFFICES ASSUME NEW q \in Pushers \ overtaken', pc[q] \in WriteLabels
               PROVE  mapped'[q] = current /\ by \in {Nobody, q}
    BY <1>1 DEF WriteInv
  <2>1. q = by /\ q \in Procs
    BY <1>1 DEF Procs
  <2> QED
    BY <1>1, <2>1
<1>6. \A r \in Readers : /\ Ahead(r)' \subseteq Ahead(r)
                         /\ mapped'[r] = mapped[r] /\ fresh'[r] = fresh[r]
  <2> SUFFICES ASSUME NEW r \in Readers
               PROVE  /\ Ahead(r)' \subseteq Ahead(r)
                      /\ mapped'[r] = mapped[r] /\ fresh'[r] = fresh[r]
    OBVIOUS
  <2>1. Garbled \subseteq Garbled'
    BY <1>1 DEF Garbled
  <2>2. r \in Procs /\ r # by
    BY GrowingBucketAssumption DEF Procs
  <2> QED
    BY <1>1, <2>1, <2>2 DEF Ahead
<1>7. WalkInv'
  <2> SUFFICES ASSUME NEW r \in Readers PROVE Walked(r)'
    BY DEF WalkInv
  <2>1. Walked(r)
    BY <1>0 DEF WalkInv
  <2> QED
    BY <1>1, <1>6, <2>1 DEF Walked
<1>8. ServedInv'
  <2> SUFFICES ASSUME NoPusherDied', NEW r \in Readers, Registered(r)'
               PROVE  /\ index'[r] <= seg'[current'].waitIndex
                      /\ seg'[current'].wakeIndex < index'[r] /\ Ahead(r)' # {}
                           => \E q \in Pushers : Wakes(q)'
    BY DEF ServedInv, Served
  <2>1. NoPusherDied /\ Registered(r)
    BY <1>1, <1>6 DEF NoPusherDied, Died, Registered
  <2>2. Served(r)
    BY <1>0, <2>1 DEF ServedInv
  <2>3. ASSUME NEW q \in Pushers, Wakes(q) PROVE Wakes(q)'
    <3>1. q # by /\ q \in Procs
      BY <1>1, <2>3 DEF Wakes, BallocLabels, Procs
    <3> QED
      BY <1>1, <2>3, <3>1 DEF Wakes
  <2> QED
    BY <1>1, <1>6, <2>1, <2>2, <2>3 DEF Served
<1> QED
  BY <1>2, <1>3, <1>4, <1>5, <1>7, <1>8 DEF GrowingInv

Publishes(by) ==
  /\ replacer = by /\ publish
  /\ UNCHANGED <<rest, index, landed>>
  /\ \/ by = Others /\ UNCHANGED <<pointers, sems, pc>>
     \/ /\ by \in Pushers
        /\ mapped' = [mapped EXCEPT ![by] = current'] /\ fresh' = [fresh EXCEPT ![by] = {}]
        /\ UNCHANGED <<sems, pc>> \/ ends(by, "exited")

(* What a publication does to the semaphores and to the labels.            *)
LEMMA PublishEnds ==
  ASSUME TypeInv, LockInv, NEW by \in Pushers \cup {Others}, Publishes(by)
  PROVE  /\ sem' \in [Sems -> Int] /\ adj' \in [Procs -> [Sems -> Int]]
         /\ LabelTypes' /\ LockInv'
         /\ \A q \in Procs : pc'[q] = pc[q] \/ (q = by /\ pc'[q] = "exited")
<1>0. DataTypes /\ LabelTypes
  BY DEF TypeInv
<1>1. CASE UNCHANGED <<sems, pc>>
  BY <1>0, <1>1 DEF sems, DataTypes, LabelTypes, LockInv, LockOK
<1>2. CASE by \in Pushers /\ ends(by, "exited")
  <2>1. by \in Procs /\ by \notin Readers
    BY <1>2, GrowingBucketAssumption DEF Procs
  <2>2. /\ sem' \in [Sems -> Int] /\ adj' \in [Procs -> [Sems -> Int]]
        /\ LabelMove(by) /\ pc'[by] = "exited" /\ LockMoves(by)
    BY <1>2, <2>1, EndMoves
  <2>3. LockInv'
    BY <2>1, <2>2, PlainLocks
  <2>4. LabelTypes'
    BY <1>0, <2>1, <2>2 DEF LabelMove, LabelTypes, Procs
  <2> QED
    BY <2>2, <2>3, <2>4 DEF LabelMove
<1> QED
  BY <1>1, <1>2 DEF Publishes

LEMMA PublishMoves ==
  ASSUME TypeInv, NEW by \in Pushers \cup {Others}, Publishes(by)
  PROVE  /\ current' = current + 1 /\ replacer = by /\ replacer' = Nobody
         /\ current' \in Segments /\ current \in Nat
         /\ mapped' \in [Procs -> 1..current'] /\ fresh' \in [Procs -> SUBSET Pointers]
         /\ UNCHANGED <<seg, overtaken, rest, index, landed>>
         /\ \A q \in Procs \ {by} : mapped'[q] = mapped[q] /\ fresh'[q] = fresh[q]
         /\ by \in Procs => mapped'[by] = current'
<1>1. /\ DataTypes /\ by # Nobody /\ current \in Nat /\ current >= 1 /\ MaxSegments \in Nat
  <2>1. current \in Segments /\ DataTypes
    BY DEF TypeInv, DataTypes
  <2> QED
    BY <2>1, GrowingBucketAssumption DEF Segments, Procs
<1>2. /\ current' = current + 1 /\ replacer = by /\ replacer' = Nobody
      /\ UNCHANGED <<seg, overtaken, rest, index, landed>>
  BY DEF Publishes, publish
<1>3. current < MaxSegments /\ current' \in Segments
  BY <1>1, <1>2 DEF DataTypes, Segments
<1>4. 1..current \subseteq 1..current' /\ current' \in 1..current'
  BY <1>1, <1>2
<1>5. mapped \in [Procs -> 1..current'] /\ fresh \in [Procs -> SUBSET Pointers]
  BY <1>1, <1>4 DEF DataTypes
<1>6. CASE by = Others /\ UNCHANGED pointers
  <2>1. by \notin Procs
    BY <1>6, GrowingBucketAssumption
  <2> QED
    BY <1>1, <1>2, <1>3, <1>5, <1>6, <2>1 DEF pointers
<1>7. CASE by \in Pushers /\ mapped' = [mapped EXCEPT ![by] = current']
           /\ fresh' = [fresh EXCEPT ![by] = {}]
  <2>1. by \in Procs
    BY <1>7 DEF Procs
  <2> QED
    BY <1>1, <1>2, <1>3, <1>4, <1>5, <1>7, <2>1
<1> QED
  BY <1>6, <1>7 DEF Publishes

LEMMA PublishStep ==
  ASSUME GrowingInv, NEW by \in Pushers \cup {Others}, Publishes(by)
  PROVE  GrowingInv'
<1>0. TypeInv /\ LockInv /\ CopyInv /\ WriteInv /\ PushesStay /\ WalkInv
  BY DEF GrowingInv
<1>1. /\ current' = current + 1 /\ replacer = by /\ replacer' = Nobody
      /\ current' \in Segments /\ current \in Nat
      /\ mapped' \in [Procs -> 1..current'] /\ fresh' \in [Procs -> SUBSET Pointers]
      /\ UNCHANGED <<seg, overtaken, rest, index, landed>>
      /\ \A q \in Procs \ {by} : mapped'[q] = mapped[q] /\ fresh'[q] = fresh[q]
      /\ by \in Procs => mapped'[by] = current'
  BY <1>0, PublishMoves
<1>2. /\ sem' \in [Sems -> Int] /\ adj' \in [Procs -> [Sems -> Int]]
      /\ LabelTypes' /\ LockInv'
      /\ \A q \in Procs : pc'[q] = pc[q] \/ (q = by /\ pc'[q] = "exited")
  BY <1>0, PublishEnds
<1>3. TypeInv'
  BY <1>0, <1>1, <1>2 DEF TypeInv, DataTypes
<1>4. by # Nobody /\ Nobody \notin Procs
  BY GrowingBucketAssumption DEF Procs
<1>5. /\ landed \subseteq seg[current + 1].tuples
      /\ seg[current + 1].tuples \subseteq seg[current].tuples
  BY <1>0, <1>1, <1>4 DEF CopyInv
<1>6. CopyInv' /\ PushesStay'
  BY <1>1, <1>4, <1>5 DEF CopyInv, PushesStay
<1>7. WriteInv'
  <2> SUFFICES ASSUME NEW q \in Pushers \ overtaken, pc'[q] \in WriteLabels
               PROVE  mapped'[q] = current'
    BY <1>1 DEF WriteInv
  <2>1. q \in Procs /\ pc'[q] # "exited"
    BY DEF Procs, WriteLabels
  <2>2. pc[q] \in WriteLabels
    BY <1>2, <2>1
  <2>3. q = by
    BY <1>0, <1>1, <1>4, <2>2 DEF WriteInv
  <2> QED
    BY <1>1, <2>1, <2>3
<1>8. \A r \in Readers : /\ pc'[r] = pc[r] /\ fresh'[r] = fresh[r]
                         /\ mapped'[r] # current' /\ Ahead(r)' \subseteq Ahead(r)
  <2> SUFFICES ASSUME NEW r \in Readers
               PROVE  /\ pc'[r] = pc[r] /\ fresh'[r] = fresh[r]
                      /\ mapped'[r] # current' /\ Ahead(r)' \subseteq Ahead(r)
    OBVIOUS
  <2>1. r \in Procs /\ r # by
    BY GrowingBucketAssumption DEF Procs
  <2>2. mapped[r] \in 1..current
    BY <1>0, <2>1, TypesNow
  <2>3. mapped'[r] # current'
    BY <1>1, <2>1, <2>2
  <2> QED
    BY <1>1, <1>2, <1>5, <2>1, <2>3 DEF Ahead, Garbled
<1>9. WalkInv'
  <2> SUFFICES ASSUME NEW r \in Readers PROVE Walked(r)'
    BY DEF WalkInv
  <2>1. Walked(r)
    BY <1>0 DEF WalkInv
  <2> QED
    BY <1>8, <2>1 DEF Walked
<1>10. ServedInv'
  BY <1>8 DEF ServedInv, Served, Registered
<1> QED
  BY <1>2, <1>3, <1>6, <1>7, <1>9, <1>10 DEF GrowingInv

-----------------------------------------------------------------------------
(***************************************************************************)
(* The invariant.                                                          *)
(***************************************************************************)
LEMMA GrowingInit ==
  ASSUME Init
  PROVE  GrowingInv
<1>1. TypeInv
  <2>1. 1 \in Segments /\ 1 \in 1..1
    BY GrowingBucketAssumption DEF Segments
  <2>2. DataTypes
    BY <2>1, GrowingBucketAssumption
       DEF Init, DataTypes, SegmentType, Tuples, Sems
  <2>3. LabelTypes
    BY DEF Init, LabelTypes, PushLabels, ReadLabels, Procs
  <2> QED
    BY <2>2, <2>3 DEF TypeInv
<1>2. LockInv
  <2>1. \A p \in Procs : "idle" \notin MonHeld[p] /\ "idle" \notin ExclHeld[p]
    BY HeldLabels DEF MonPush, MonRead, ExclLabels
  <2> QED
    BY <2>1 DEF Init, LockInv, LockOK, Sems
<1>3. CopyInv /\ WriteInv /\ PushesStay
  BY GrowingBucketAssumption
     DEF Init, CopyInv, WriteInv, PushesStay, WriteLabels, Procs
<1>4. WalkInv
  BY DEF Init, WalkInv, Walked, WalkLabels, Procs
<1>5. ServedInv
  BY DEF Init, ServedInv, Served, Registered, RegisteredLabels, Procs
<1> QED
  BY <1>1, <1>2, <1>3, <1>4, <1>5 DEF GrowingInv

LEMMA NextCases ==
  ASSUME TypeInv, Next
  PROVE  \/ \E p \in Procs : PlainStep(p)
         \/ \E by \in Pushers \cup {Others} : Copies(by) \/ Publishes(by)
<1>1. CASE \E p \in Pushers : PushStep(p)
  <2>1. PICK p \in Pushers : PushStep(p)
    BY <1>1
  <2>2. p \in Procs
    BY DEF Procs
  <2>3. CASE balloc_copies(p)
    <3>1. pc[p] \in BallocLabels
      BY <2>3, BallocRows DEF balloc_copies
    <3>2. RemapMove(p, {})
      BY <2>2, <2>3, RemapMoves DEF balloc_copies
    <3> QED
      BY <2>3, <3>1, <3>2 DEF balloc_copies, Copies
  <2>4. CASE balloc_publishes(p)
    BY <2>4 DEF balloc_publishes, Publishes
  <2>5. CASE ~ (balloc_copies(p) \/ balloc_publishes(p))
    BY <2>1, <2>2, <2>5 DEF PushStep, PlainStep
  <2> QED
    BY <2>3, <2>4, <2>5
<1>2. CASE \E p \in Readers : PeekStep(p)
  BY <1>2 DEF PlainStep, Procs
<1>3. CASE \E p \in Procs : WalkStep(p) \/ deref_ptr(p) \/ semop(p) \/ crash(p)
  BY <1>3 DEF PlainStep
<1>4. CASE grow_elsewhere
  BY <1>4 DEF grow_elsewhere, Copies, Publishes
<1> QED
  BY <1>1, <1>2, <1>3, <1>4 DEF Next

LEMMA GrowingNext ==
  ASSUME GrowingInv, [Next]_vars
  PROVE  GrowingInv'
<1>0. TypeInv
  BY DEF GrowingInv
<1>1. ASSUME NEW p \in Procs, PlainStep(p)
      PROVE  GrowingInv'
  BY <1>0, <1>1, StepIsPlain, PlainInvariant
<1>2. ASSUME NEW by \in Pushers \cup {Others}, Copies(by) \/ Publishes(by)
      PROVE  GrowingInv'
  BY <1>2, CopyStep, PublishStep
<1>3. CASE Next
  BY <1>0, <1>1, <1>2, <1>3, NextCases
<1>4. CASE UNCHANGED vars
  <2>1. /\ UNCHANGED <<current, replacer, seg, overtaken, mapped, fresh, rest>>
        /\ UNCHANGED <<sem, adj, pc, index, landed>>
    BY <1>4 DEF vars, segments, pointers, sems
  <2>2. (TypeInv /\ LockInv)'
    BY <2>1 DEF GrowingInv, TypeInv, DataTypes, LabelTypes, LockInv, LockOK
  <2>3. (CopyInv /\ WriteInv /\ PushesStay)'
    BY <2>1 DEF GrowingInv, CopyInv, WriteInv, PushesStay
  <2>4. (WalkInv /\ ServedInv)'
    BY <2>1 DEF GrowingInv, WalkInv, Walked, ServedInv, Served, Registered, Ahead,
                Garbled, Wakes, NoPusherDied, Died
  <2> QED
    BY <2>2, <2>3, <2>4 DEF GrowingInv
<1> QED
  BY <1>3, <1>4

LEMMA GrowingInvariant == Spec => []GrowingInv
<1>1. Init => GrowingInv
  BY GrowingInit
<1>2. GrowingInv /\ [Next]_vars => GrowingInv'
  BY GrowingNext
<1> QED
  BY <1>1, <1>2, PTL DEF Spec

-----------------------------------------------------------------------------
(***************************************************************************)
(* Theorems.                                                               *)
(***************************************************************************)
(* A lock's semaphore is 0 when it has its one owner, and 1 when it has    *)
(* none.                                                                   *)
LEMMA LockCounts ==
  ASSUME NEW l \in {"mon", "excl"}, NEW H, LockOK(l, H)
  PROVE  sem[l] + Cardinality({p \in Procs : adj[p][l] = 1}) = 1
<1>0. \A p \in Procs : adj[p][l] = 1 <=> pc[p] \in H[p]
  BY DEF LockOK
<1>1. CASE \E p \in Procs : pc[p] \in H[p]
  <2>1. PICK p \in Procs : pc[p] \in H[p]
    BY <1>1
  <2>2. {q \in Procs : adj[q][l] = 1} = {p}
    BY <1>0, <2>1 DEF LockOK
  <2>3. Cardinality({p}) = 1
    BY FS_Singleton
  <2>4. sem[l] = 0
    BY <1>1 DEF LockOK
  <2> QED
    BY <2>2, <2>3, <2>4
<1>2. CASE ~ \E p \in Procs : pc[p] \in H[p]
  <2>1. {q \in Procs : adj[q][l] = 1} = {}
    BY <1>0, <1>2
  <2>2. Cardinality({}) = 0
    BY FS_EmptySet
  <2>3. sem[l] = 1
    BY <1>2 DEF LockOK
  <2> QED
    BY <2>1, <2>2, <2>3
<1> QED
  BY <1>1, <1>2

(* Types, and one owner for each lock, in every reachable state, also      *)
(* after an owner has crashed in a segment that is gone, or has exited in  *)
(* resize_allocation_segment.                                              *)
THEOREM GrowingTypes == Spec => []GrowingTypeOK
<1>1. GrowingInv => GrowingTypeOK
  <2> SUFFICES ASSUME GrowingInv PROVE GrowingTypeOK
    OBVIOUS
  <2>1. current \in Segments /\ mapped \in [Procs -> 1..current]
    BY DEF GrowingInv, TypeInv, DataTypes
  <2>2. ASSUME NEW s \in Segments
        PROVE  /\ seg[s].tuples \subseteq Initial \cup {Added[p] : p \in Pushers}
               /\ {seg[s].waitIndex, seg[s].wakeIndex, seg[s].waiting} \subseteq Nat
    <3>1. seg[s] \in SegmentType
      BY DEF GrowingInv, TypeInv, DataTypes
    <3> QED
      BY <3>1 DEF SegmentType, Tuples
  <2>3. ASSUME NEW l \in {"mon", "excl"}
        PROVE  sem[l] + Cardinality({p \in Procs : adj[p][l] = 1}) = 1
    BY LockCounts DEF GrowingInv, LockInv
  <2> QED
    BY <2>1, <2>2, <2>3 DEF GrowingTypeOK
<1> QED
  BY <1>1, GrowingInvariant, PTL

(* Every insertion is in the current segment from then on, unless another  *)
(* process copied the segment while its pusher wrote the tuple             *)
(* (list_t.c:44-61): so the raw list pointer that insert_into_list_after   *)
(* writes through (list_t.c:50) was taken after the pusher's own           *)
(* replacements, and the list is copied whole by all the others.           *)
THEOREM PushesStayInList == Spec => []PushesStay
<1>1. GrowingInv => PushesStay
  BY DEF GrowingInv
<1> QED
  BY <1>1, GrowingInvariant, PTL

(* If no pusher died, no reader that has the current segment mapped sleeps *)
(* through a tuple that it wants, whatever replacements came before and    *)
(* during its call: the ones that took its list away kill it in the        *)
(* monitor, at the raw hashTable of hash_table_t.c:66.                     *)
THEOREM FreshWaitersAreServed == Spec => []FreshWaitersServed
<1>1. GrowingInv => FreshWaitersServed
  <2> SUFFICES ASSUME GrowingInv, NoPusherDied, NEW r \in Readers,
                      mapped[r] = current, Missed(r)
               PROVE  FALSE
    BY DEF FreshWaitersServed, NoPusherDied
  <2>1. Registered(r)
    BY DEF Missed, Asleep, Registered, RegisteredLabels
  <2>2. seg[current].wakeIndex < index[r] /\ Ahead(r) # {}
    BY DEF Missed, Asleep, Ahead
  <2>3. \E q \in Pushers : Wakes(q)
    BY <2>1, <2>2 DEF GrowingInv, ServedInv, Served
  <2> QED
    BY <2>3 DEF Missed, Wakes
<1> QED
  BY <1>1, GrowingInvariant, PTL

=============================================================================
