----------------------------- MODULE GrowingBucket -----------------------------
(***************************************************************************)
(* push_tuple and peek_tuple on one bucket while the segment is replaced   *)
(* under them (hash_table_t.c, list_t.c, tuple_t.c, monitor.c,             *)
(* shared_allocator.c).                                                    *)
(*                                                                         *)
(* Each process has one segment mapped, and changes over to the current    *)
(* one in every is_ptr_null, deref_ptr and balloc.  What deref_ptr returns *)
(* is a raw pointer: it leads into the segment that was mapped when it was *)
(* taken, and once that is no longer mapped its use is a SIGSEGV.  Here    *)
(* are all the raw pointers that are used after a later remap.  (The ones  *)
(* of clone_into_local_memory are taken anew for every use.)               *)
(*                                                                         *)
(* A replacement has two steps, the copy and the publication: in between   *)
(* it holds semId, so that nobody remaps or allocates, but whoever has the *)
(* old segment mapped goes on writing to it.  What a process does to the   *)
(* counters between two semops is one step (module Monitor has it in       *)
(* detail).  A list is the set of its tuples.                              *)
(***************************************************************************)
EXTENDS Integers, FiniteSets

CONSTANTS
  Pushers, Readers,
  Added,         (* Added[p]: the tuple p pushes                            *)
  Wanted,        (* Wanted[p]: the tuples that p's pattern matches          *)
  Initial,       (* the tuples that are in the bucket to begin with         *)
  MaxSegments,   (* bound of the instance: segments ever created            *)
  OthersGrow,    (* whether pushes to other buckets replace the segment too *)
  Nobody, Others (* who replaces the segment, if none of the processes does *)

Procs == Pushers \cup Readers

ASSUME GrowingBucketAssumption ==
  /\ Pushers \cap Readers = {}
  /\ MaxSegments \in Nat \ {0}
  /\ OthersGrow \in BOOLEAN
  /\ Nobody # Others /\ {Nobody, Others} \cap Procs = {}

VARIABLES
  current,   (* fixedSharedMemory->allocShmId                               *)
  replacer,  (* who has copied the current segment and not yet published    *)
  seg,       (* seg[s]: the bucket as segment s has it                      *)
  mapped,    (* mapped[p]: the segment p is attached to                     *)
  fresh,     (* fresh[p]: p's raw pointers that lead into mapped[p]         *)
  rest,      (* rest[p]: the tuples that p's walk has still to visit        *)
  sem,       (* the values of the bucket's semaphores                       *)
  adj,       (* adj[p]: what SEM_UNDO would add to them                     *)
  pc,        (* where p is in its call                                      *)
  index,     (* index[p]: p's ticket                                        *)
  overtaken, (* the pushers that wrote their tuple while another process    *)
             (* copied the segment                                          *)
  landed     (* the tuples inserted by the other pushers                    *)

segments == <<current, replacer, seg, overtaken>>
pointers == <<mapped, fresh>>
sems == <<sem, adj>>
vars == <<segments, pointers, rest, sems, pc, index, landed>>

Segments == 1..MaxSegments
Sems == {"mon", "excl", "cond", "hand"}

Init ==
  /\ current = 1 /\ replacer = Nobody
  /\ seg = [s \in Segments |->
              [tuples |-> Initial, waitIndex |-> 0, wakeIndex |-> 0, waiting |-> 0]]
  /\ mapped = [p \in Procs |-> 1] /\ fresh = [p \in Procs |-> {}]
  /\ rest = [p \in Procs |-> {}]
  /\ sem = [s \in Sems |-> IF s \in {"mon", "excl"} THEN 1 ELSE 0]
  /\ adj = [p \in Procs |-> [s \in Sems |-> 0]]
  /\ pc = [p \in Procs |-> "idle"]
  /\ index = [p \in Procs |-> 0]
  /\ overtaken = {} /\ landed = {}

-----------------------------------------------------------------------------
move(p, from, to) == pc[p] = from /\ pc' = [pc EXCEPT ![p] = to]

changes(s, n) == sem' = [sem EXCEPT ![s] = @ + n]

acquire_semaphore(p, s) ==
  /\ sem[s] > 0
  /\ changes(s, -1)
  /\ adj' = [adj EXCEPT ![p][s] = @ + 1]

(* Variant with a defect: the release has no SEM_UNDO.                     *)
release_without_undo(p, s, n) == changes(s, n) /\ UNCHANGED adj

release_semaphore(p, s, n) ==
  /\ changes(s, n)
  /\ adj' = [adj EXCEPT ![p][s] = @ - n]

(* remap_allocation_segment_if_necessary: it waits for semId if the        *)
(* segment was replaced, and then all the raw pointers are stale but the   *)
(* one that deref_ptr takes.                                               *)
remaps(p, taken) ==
  /\ mapped[p] = current \/ replacer = Nobody
  /\ mapped' = [mapped EXCEPT ![p] = current]
  /\ fresh' = [fresh EXCEPT ![p] = (IF mapped[p] = current THEN @ ELSE {}) \cup taken]

(* The raw pointers that p uses next, hashTable left out.                  *)
UsedBehindBucket(p) ==
  CASE pc[p] \in {"enter", "scan", "found", "leave", "wait", "pEnter", "pBroadcast"} -> {"list"}
    [] pc[p] \in {"data", "clone", "miss"} -> {"element"}
    [] pc[p] = "compared" -> {"part"}
    [] pc[p] = "pTuple" -> {"copy"}
    [] pc[p] = "pHead" -> {"newElement", "list"}
    [] pc[p] = "test" -> {"condVar"}
    [] OTHER -> {}

(* The raw pointers that p uses next.  The bucket's address is read        *)
(* through the hashTable of hash_table_t.c:51 also after the walk (:66).   *)
Used(p) == IF pc[p] \in {"bucket", "again"} THEN {"hashTable"} ELSE UsedBehindBucket(p)

sound(p) == Used(p) \subseteq fresh[p]

(* A tuple that was written while another process copied the segment may   *)
(* have lost any of its parts: reading it may find no match or a null      *)
(* pointer.                                                                *)
Garbled == {Added[p] : p \in overtaken}

ends(p, how) ==
  /\ pc' = [pc EXCEPT ![p] = how]
  /\ sem' = [s \in Sems |-> IF sem[s] + adj[p][s] < 0 THEN 0 ELSE sem[s] + adj[p][s]]
  /\ adj' = [adj EXCEPT ![p] = [s \in Sems |-> 0]]

crash(p) ==
  /\ \/ ~ sound(p)
     \/ pc[p] = "compared" /\ rest[p] \cap Garbled # {}
  /\ ends(p, "crashed")
  /\ UNCHANGED <<segments, pointers, rest, index, landed>>

-----------------------------------------------------------------------------
(***************************************************************************)
(* balloc, with resize_allocation_segment.  A tuple's allocations stand    *)
(* at two labels: that of the tuple and its element, and that of the value *)
(* behind it.                                                              *)
(***************************************************************************)
Ballocs == {<<"pElement", "pEnter">>, <<"pClone", "pCopy">>, <<"pValue", "pDeref">>}

Writing == {"pClone", "pCopy", "pCopyHead", "pTuple", "pValue", "pDeref", "pList", "pHead"}

(* Variant with a defect: nothing is copied.                               *)
copies_nothing(by) ==
  /\ replacer = Nobody /\ current < MaxSegments
  /\ replacer' = by
  /\ overtaken' = overtaken \cup {p \in Pushers \ {by} : pc[p] \in Writing}
  /\ UNCHANGED <<current, seg>>

(* The bucket is copied with everything else.                              *)
copy_blocks(by) ==
  /\ replacer = Nobody /\ current < MaxSegments
  /\ replacer' = by
  /\ seg' = [seg EXCEPT ![current + 1] = seg[current]]
  /\ overtaken' = overtaken \cup {p \in Pushers \ {by} : pc[p] \in Writing}
  /\ UNCHANGED current

publish ==
  /\ current' = current + 1 /\ replacer' = Nobody
  /\ UNCHANGED <<seg, overtaken>>

balloc_fits(p) ==
  /\ replacer = Nobody
  /\ \E b \in Ballocs : move(p, b[1], b[2])
  /\ remaps(p, {})
  /\ UNCHANGED <<segments, rest, sems, index, landed>>

balloc_copies(p) ==
  /\ \E b \in Ballocs : pc[p] = b[1]
  /\ remaps(p, {})
  /\ copy_blocks(p)
  /\ UNCHANGED <<rest, sems, pc, index, landed>>

(* The old segment goes with the detachment of the last process, and then  *)
(* its removal fails: the process exits (shared_allocator.c:150-151).      *)
alone(p) ==
  \A q \in Procs \ {p} :
    pc[q] \notin {"crashed", "exited", "returned"} => mapped[q] # current

balloc_publishes(p) ==
  /\ replacer = p
  /\ publish
  /\ mapped' = [mapped EXCEPT ![p] = current'] /\ fresh' = [fresh EXCEPT ![p] = {}]
  /\ \/ UNCHANGED <<sems, pc>>
     \/ alone(p) /\ ends(p, "exited")
  /\ UNCHANGED <<rest, index, landed>>

grow_elsewhere ==
  /\ OthersGrow
  /\ copy_blocks(Others) \/ (replacer = Others /\ publish)
  /\ UNCHANGED <<pointers, rest, sems, pc, index, landed>>

-----------------------------------------------------------------------------
(***************************************************************************)
(* The steps that only remap, with the raw pointer that is taken if it is  *)
(* used again, and those that are one semop.                               *)
(***************************************************************************)
Derefs ==
  {<<"bucket", {"list"}, "enter">>, <<"enter", {}, "mon">>,
   <<"data", {"part"}, "value">>, <<"value", {}, "compared">>,
   <<"compared", {"part"}, "value">>, <<"miss", {}, "element">>,
   <<"clone", {}, "found">>, <<"found", {"condVar"}, "signalExcl">>, <<"leave", {}, "free">>,
   <<"again", {"list"}, "wait">>, <<"wait", {"condVar"}, "waitExcl">>,
   <<"waitLeave", {}, "waitFree">>, <<"reenter", {}, "mon">>,
   <<"absent", {"list"}, "pElement">>, <<"pEnter", {}, "pMon">>,
   <<"pCopy", {"copy"}, "pCopyHead">>, <<"pCopyHead", {}, "pTuple">>, <<"pTuple", {}, "pValue">>,
   <<"pDeref", {"newElement"}, "pList">>, <<"pList", {"list"}, "pHead">>,
   <<"pAgain", {"list"}, "pLeave">>, <<"pLeave", {}, "pFree">>,
   <<"pBroadcast", {"condVar"}, "bExcl">>}

Acquires ==
  {<<"pMon", "mon", "pClone">>, <<"bExcl", "excl", "bWake">>, <<"bHand", "hand", "bLoop">>,
   <<"mon", "mon", "scan">>, <<"waitExcl", "excl", "count">>, <<"sleep", "cond", "hand">>,
   <<"signalExcl", "excl", "signalTest">>, <<"signalHand", "hand", "signalRelease">>}

Releases ==
  {<<"pFree", "mon", "pBroadcast">>, <<"waitRelease", "excl", "waitLeave">>,
   <<"waitFree", "mon", "test">>, <<"hand", "hand", "test">>,
   <<"signalRelease", "excl", "leave">>, <<"free", "mon", "returned">>}

deref_ptr(p) ==
  /\ sound(p)
  /\ \E d \in Derefs : move(p, d[1], d[3]) /\ remaps(p, d[2])
  /\ UNCHANGED <<segments, rest, sems, index, landed>>

semop(p) ==
  /\ \/ \E a \in Acquires : move(p, a[1], a[3]) /\ acquire_semaphore(p, a[2])
     \/ \E r \in Releases : move(p, r[1], r[3]) /\ release_semaphore(p, r[2], 1)
  /\ UNCHANGED <<segments, pointers, rest, index, landed>>

-----------------------------------------------------------------------------
(***************************************************************************)
(* The walk over the list: is_in_hash_table, outside the monitor, and the  *)
(* loop of get_from_hash_table.  The elements behind list->head are the    *)
(* same in every later segment.                                            *)
(***************************************************************************)
Sought(p) == IF p \in Pushers THEN {Added[p]} ELSE Wanted[p]

walk_starts(p) ==
  /\ move(p, "scan", "element") /\ sound(p)
  /\ rest' = [rest EXCEPT ![p] = seg[mapped[p]].tuples]
  /\ UNCHANGED <<segments, pointers, sems, index, landed>>

walk_visits(p) ==
  /\ rest[p] # {}
  /\ move(p, "element", "data")
  /\ remaps(p, {"element"})
  /\ UNCHANGED <<segments, rest, sems, index, landed>>

walk_misses(p) ==
  /\ move(p, "compared", "miss")
  /\ \E t \in rest[p] \ (Sought(p) \ Garbled) : rest' = [rest EXCEPT ![p] = @ \ {t}]
  /\ UNCHANGED <<segments, pointers, sems, index, landed>>

walk_matches(p) ==
  /\ sound(p) /\ rest[p] \cap Sought(p) # {}
  /\ move(p, "compared", IF p \in Readers THEN "clone" ELSE "returned")
  /\ rest' = [rest EXCEPT ![p] = {}]
  /\ UNCHANGED <<segments, pointers, sems, index, landed>>

walk_ends(p) ==
  /\ rest[p] = {}
  /\ move(p, "element", IF p \in Readers THEN "again" ELSE "absent")
  /\ remaps(p, {})
  /\ UNCHANGED <<segments, rest, sems, index, landed>>

WalkStep(p) ==
  walk_starts(p) \/ walk_visits(p) \/ walk_misses(p) \/ walk_matches(p) \/ walk_ends(p)

-----------------------------------------------------------------------------
(***************************************************************************)
(* push_tuple.                                                             *)
(***************************************************************************)
push_tuple(p) ==
  /\ move(p, "idle", "scan")
  /\ remaps(p, {"list"})
  /\ UNCHANGED <<segments, rest, sems, index, landed>>

insert_head(p) ==
  /\ move(p, "pHead", "pAgain") /\ sound(p)
  /\ seg' = [seg EXCEPT ![mapped[p]].tuples = @ \cup {Added[p]}]
  /\ landed' = IF p \in overtaken THEN landed ELSE landed \cup {Added[p]}
  /\ UNCHANGED <<current, replacer, overtaken, pointers, rest, sems, index>>

broadcast_wake(p) ==
  LET c == mapped[p] IN
  /\ move(p, "bWake", "bLoop")
  /\ seg' = [seg EXCEPT ![c].wakeIndex = seg[c].waitIndex]
  /\ release_semaphore(p, "cond", seg[c].waiting)
  /\ UNCHANGED <<current, replacer, overtaken, pointers, rest, index, landed>>

broadcast_loop(p) ==
  /\ seg[mapped[p]].waiting > 0
  /\ move(p, "bLoop", "bHand")
  /\ seg' = [seg EXCEPT ![mapped[p]].waiting = @ - 1]
  /\ UNCHANGED <<current, replacer, overtaken, pointers, rest, sems, index, landed>>

broadcast_release_excl(p) ==
  /\ seg[mapped[p]].waiting = 0
  /\ move(p, "bLoop", "returned")
  /\ release_semaphore(p, "excl", 1)
  /\ UNCHANGED <<segments, pointers, rest, index, landed>>

PushStep(p) ==
  \/ push_tuple(p) \/ balloc_fits(p) \/ balloc_copies(p) \/ balloc_publishes(p)
  \/ insert_head(p) \/ broadcast_wake(p) \/ broadcast_loop(p)
  \/ broadcast_release_excl(p)

-----------------------------------------------------------------------------
(***************************************************************************)
(* peek_tuple.                                                             *)
(***************************************************************************)
peek_tuple(p) ==
  /\ move(p, "idle", "bucket")
  /\ remaps(p, {"hashTable"})
  /\ UNCHANGED <<segments, rest, sems, index, landed>>

(* wait_on_monitor_condition.                                              *)
wait_count(p) ==
  LET c == mapped[p] IN
  /\ move(p, "count", "waitRelease")
  /\ seg' = [seg EXCEPT ![c].waiting = @ + 1, ![c].waitIndex = @ + 1]
  /\ index' = [index EXCEPT ![p] = seg[c].waitIndex + 1]
  /\ UNCHANGED <<current, replacer, overtaken, pointers, rest, sems, landed>>

wait_test(p) ==
  /\ sound(p)
  /\ move(p, "test", IF seg[mapped[p]].wakeIndex < index[p] THEN "sleep" ELSE "reenter")
  /\ UNCHANGED <<segments, pointers, rest, sems, index, landed>>

(* signal_monitor_condition, after the match has been cloned.              *)
signal_nobody(p) ==
  /\ seg[mapped[p]].waiting = 0
  /\ move(p, "signalTest", "signalRelease")
  /\ UNCHANGED <<segments, pointers, rest, sems, index, landed>>

signal_wake(p) ==
  LET c == mapped[p] IN
  /\ seg[c].waiting > 0
  /\ move(p, "signalTest", "signalHand")
  /\ release_semaphore(p, "cond", seg[c].waiting)
  /\ seg' = [seg EXCEPT ![c].wakeIndex = @ + 1, ![c].waiting = @ - 1]
  /\ UNCHANGED <<current, replacer, overtaken, pointers, rest, index, landed>>

PeekStep(p) ==
  \/ peek_tuple(p) \/ wait_count(p) \/ wait_test(p)
  \/ signal_nobody(p) \/ signal_wake(p)

Next ==
  \/ \E p \in Pushers : PushStep(p)
  \/ \E p \in Readers : PeekStep(p)
  \/ \E p \in Procs : WalkStep(p) \/ deref_ptr(p) \/ semop(p) \/ crash(p)
  \/ grow_elsewhere

Spec == Init /\ [][Next]_vars

-----------------------------------------------------------------------------
(***************************************************************************)
(* Properties.                                                             *)
(***************************************************************************)
(* Types; and the monitor has one owner, also when its owner crashes in a  *)
(* segment that is gone or exits in resize_allocation_segment.             *)
GrowingTypeOK ==
  /\ current \in Segments
  /\ mapped \in [Procs -> 1..current]
  /\ \A s \in Segments :
       /\ seg[s].tuples \subseteq Initial \cup {Added[p] : p \in Pushers}
       /\ {seg[s].waitIndex, seg[s].wakeIndex, seg[s].waiting} \subseteq Nat
  /\ \A s \in {"mon", "excl"} :
       sem[s] + Cardinality({p \in Procs : adj[p][s] = 1}) = 1

(* The tuple of every insertion is in the current segment's list from then *)
(* on, if no other process copied the segment while the pusher wrote the   *)
(* tuple (list_t.c:44-61): the pusher's own replacements, in the clone,    *)
(* are survived (list_t.c:45, 50), and so is every one before and after.   *)
PushesStay == landed \subseteq seg[current].tuples

(* p has registered as a waiter and nobody has woken it, as far as the     *)
(* wakeIndex that it reads can tell.                                       *)
Asleep(p) ==
  /\ pc[p] \in {"waitRelease", "waitLeave", "waitFree", "test", "sleep", "hand"}
  /\ "condVar" \in fresh[p] /\ seg[mapped[p]].wakeIndex < index[p]

(* A tuple it wants is in the list, and no push is about to broadcast.     *)
Missed(p) ==
  /\ Asleep(p)
  /\ (seg[current].tuples \ Garbled) \cap Wanted[p] # {}
  /\ \A q \in Pushers :
       pc[q] \notin {"pAgain", "pLeave", "pFree", "pBroadcast", "bExcl", "bWake"}

Died(p) == pc[p] \in {"crashed", "exited"}

(* No reader sleeps through a tuple it wants, as long as it reads its      *)
(* wakeIndex in the current segment and no pusher died: a reader that      *)
(* scanned the list of an older segment never gets to wait, because the    *)
(* way to the condition leads through the raw hashTable                    *)
(* (hash_table_t.c:66), and a pusher takes list and condition anew after   *)
(* its insertion (hash_table_t.c:42, monitor.c:141).                       *)
FreshWaitersServed ==
  (\A q \in Pushers : ~ Died(q)) =>
    \A p \in Readers : mapped[p] = current => ~ Missed(p)

=============================================================================
