-------------------------------- MODULE Bucket --------------------------------
(***************************************************************************)
(* One bucket of the hash table (hash_table_t.c, list_t.c, tuple_space.c): *)
(* a linked list guarded by a monitor, with the condition variable that    *)
(* blocked readers wait on.  push_tuple and peek_tuple are modelled as the *)
(* processes run them, interleaved at every semop and at every access to   *)
(* the list; the monitor's own steps are those of module Monitor.          *)
(*                                                                         *)
(* Buckets share nothing that is read (hashTable->size is only written),   *)
(* so one bucket is the unit.  Tuples stay in the list: pop_tuple is not   *)
(* part of this module.  Hence the nodes behind list->head never change    *)
(* and a traversal sees what it would see at its read of list->head.       *)
(***************************************************************************)
EXTENDS Monitor, Sequences

CONSTANTS
  Tuples,     (* the tuples of this bucket                                  *)
  Patterns,   (* the patterns that hash to it                               *)
  MatchedBy,  (* MatchedBy[pat]: the tuples that match pat                  *)
  PushArgs,   (* PushArgs[p]: the tuples p may push                         *)
  PeekArgs,   (* PeekArgs[p]: the patterns p may peek                       *)
  Budget      (* Budget[p]: how many calls p's program makes                *)

ASSUME BucketAssumption ==
  /\ MatchedBy \in [Patterns -> SUBSET Tuples]
  /\ PushArgs \in [Procs -> SUBSET Tuples]
  /\ PeekArgs \in [Procs -> SUBSET Patterns]
  /\ Budget \in [Procs -> Nat]

VARIABLES
  list,    (* the list, oldest tuple first: the C list's head is the last   *)
  pc,      (* where p is in hash_table_t.c and list_t.c                     *)
  tuple,   (* the tuple p is pushing                                        *)
  pattern, (* the pattern p is peeking                                      *)
  out,     (* the tuple p's latest peek found                               *)
  left     (* how many calls p's program has still to make                  *)

bvars == <<list, pc, tuple, pattern, out, left>>
vars == <<mvars, bvars>>

NoValue == "none"

Locations == {"idle", "insert", "link", "leave", "broadcast", "pushed",
              "peek", "scan", "found"}

Contents == {list[i] : i \in DOMAIN list}

Matching(pat) == {i \in DOMAIN list : list[i] \in MatchedBy[pat]}

(* The traversal starts at the head: it finds the match linked last.       *)
FirstMatch(pat, i) == i \in Matching(pat) /\ \A j \in Matching(pat) : j <= i

Init ==
  /\ MonitorInit
  /\ list = <<>>
  /\ pc = [p \in Procs |-> "idle"]
  /\ tuple = [p \in Procs |-> NoValue]
  /\ pattern = [p \in Procs |-> NoValue]
  /\ out = [p \in Procs |-> NoValue]
  /\ left = Budget

move(p, from, to) == pc[p] = from /\ pc' = [pc EXCEPT ![p] = to]

begin_call(p) ==
  /\ mpc[p] = "out"
  /\ left[p] > 0
  /\ left' = [left EXCEPT ![p] = @ - 1]

(***************************************************************************)
(* push_tuple, put_into_hash_table: is_in_hash_table looks for an equal    *)
(* tuple without entering the monitor; if there is one the push returns 1. *)
(***************************************************************************)
push_tuple(p, t) ==
  /\ begin_call(p)
  /\ IF t \in Contents
       THEN /\ pc[p] = "idle"
            /\ UNCHANGED <<pc, tuple>>
       ELSE /\ move(p, "idle", "insert")
            /\ tuple' = [tuple EXCEPT ![p] = t]
  /\ UNCHANGED <<mvars, list, pattern, out>>

(* insert_into_list_after: the element is allocated and the monitor entered *)
insert_enter(p) ==
  /\ move(p, "insert", "link")
  /\ enter_monitor(p)
  /\ UNCHANGED <<list, tuple, pattern, out, left>>

(* ... and the cloned tuple becomes the head of the list.                  *)
insert_link(p) ==
  /\ move(p, "link", "leave")
  /\ mpc[p] = "in"
  /\ list' = Append(list, tuple[p])
  /\ UNCHANGED <<mvars, tuple, pattern, out, left>>

(* Variant with a defect: the waiting readers are not woken.               *)
put_without_broadcast(p) ==
  /\ move(p, "leave", "pushed")
  /\ leave_monitor(p)
  /\ UNCHANGED <<list, tuple, pattern, out, left>>

(* Variant with a defect: the monitor is not left before the broadcast.    *)
put_without_leave(p) ==
  /\ move(p, "leave", "broadcast")
  /\ UNCHANGED <<mvars, list, tuple, pattern, out, left>>

put_leave(p) ==
  /\ move(p, "leave", "broadcast")
  /\ leave_monitor(p)
  /\ UNCHANGED <<list, tuple, pattern, out, left>>

put_broadcast(p) ==
  /\ move(p, "broadcast", "pushed")
  /\ broadcast_monitor_condition(p)
  /\ UNCHANGED <<list, tuple, pattern, out, left>>

(* The broadcast has returned: the push returns 0.                         *)
put_return(p) ==
  /\ move(p, "pushed", "idle")
  /\ mpc[p] = "out"
  /\ tuple' = [tuple EXCEPT ![p] = NoValue]
  /\ UNCHANGED <<mvars, list, pattern, out, left>>

(***************************************************************************)
(* peek_tuple, get_from_hash_table.                                        *)
(***************************************************************************)
peek_tuple(p, pat) ==
  /\ begin_call(p)
  /\ move(p, "idle", "peek")
  /\ pattern' = [pattern EXCEPT ![p] = pat]
  /\ out' = [out EXCEPT ![p] = NoValue]
  /\ UNCHANGED <<mvars, list, tuple>>

get_enter(p) ==
  /\ move(p, "peek", "scan")
  /\ enter_monitor(p)
  /\ UNCHANGED <<list, tuple, pattern, out, left>>

(* A match: its clone is the result, and one waiter is signalled.          *)
get_found(p) ==
  /\ move(p, "scan", "found")
  /\ \E i \in DOMAIN list :
       FirstMatch(pattern[p], i) /\ out' = [out EXCEPT ![p] = list[i]]
  /\ signal_monitor_condition(p)
  /\ UNCHANGED <<list, tuple, pattern, left>>

(* No match: wait; when the wait returns (mpc[p] = "in") p scans again.    *)
get_wait(p) ==
  /\ move(p, "scan", "scan")
  /\ Matching(pattern[p]) = {}
  /\ wait_on_monitor_condition(p)
  /\ UNCHANGED <<list, tuple, pattern, out, left>>

get_leave(p) ==
  /\ move(p, "found", "idle")
  /\ leave_monitor(p)
  /\ pattern' = [pattern EXCEPT ![p] = NoValue]
  /\ UNCHANGED <<list, tuple, out, left>>

(***************************************************************************)
(* Steps inside monitor.c, and the ends of a process: main returns when    *)
(* its calls are done.                                                     *)
(***************************************************************************)
monitor_step(p) == MonitorStep(p) /\ UNCHANGED bvars

main_returns(p) ==
  /\ pc[p] = "idle"
  /\ left[p] = 0
  /\ exit(p)
  /\ UNCHANGED bvars

semop_fails(p) == semop_error(p) /\ UNCHANGED bvars
dies(p) == (kill(p) \/ semop_error(p)) /\ UNCHANGED bvars

PutStep(p) ==
  \/ \E t \in PushArgs[p] : push_tuple(p, t)
  \/ insert_enter(p)
  \/ insert_link(p)
  \/ put_leave(p)
  \/ put_broadcast(p)
  \/ put_return(p)

GetStep(p) ==
  \/ \E pat \in PeekArgs[p] : peek_tuple(p, pat)
  \/ get_enter(p)
  \/ get_found(p)
  \/ get_wait(p)
  \/ get_leave(p)

Run(p) == PutStep(p) \/ GetStep(p) \/ monitor_step(p)

Next == \E p \in Procs : Run(p) \/ main_returns(p) \/ dies(p)

Spec == Init /\ [][Next]_vars

(* The scheduler runs every process that can run, into a failing semop     *)
(* too; nobody has to end or to be killed.                                 *)
FairSpec == Spec /\ \A p \in Procs : WF_vars(Run(p) \/ semop_fails(p))

-----------------------------------------------------------------------------
(***************************************************************************)
(* Properties.                                                             *)
(***************************************************************************)

(* Where a process is in hash_table_t.c against where it is in monitor.c:  *)
(* the callers use the monitor as its functions require, wait and signal   *)
(* inside it and broadcast outside.                                        *)
CallsMonitorAt(p) ==
  /\ pc[p] \in {"idle", "insert", "peek", "broadcast"} => mpc[p] = "out"
  /\ pc[p] \in {"link", "leave"} => mpc[p] = "in"
  /\ pc[p] = "pushed" => mpc[p] \in {"out"} \cup BroadcastLabels
  /\ pc[p] = "scan" => mpc[p] \in {"in"} \cup WaitLabels
  /\ pc[p] = "found" => mpc[p] \in {"in"} \cup SignalLabels

(* Types of the bucket's variables, and the discipline of its monitor      *)
(* calls for every process that has not ended.                             *)
BucketTypeOK ==
  /\ list \in Seq(Tuples)
  /\ pc \in [Procs -> Locations]
  /\ tuple \in [Procs -> Tuples \cup {NoValue}]
  /\ pattern \in [Procs -> Patterns \cup {NoValue}]
  /\ out \in [Procs -> Tuples \cup {NoValue}]
  /\ left \in [Procs -> Nat]
  /\ \A p \in Procs : mpc[p] \notin Gone => CallsMonitorAt(p)

(* p scanned in vain and will not look again before it is woken.           *)
Asleep(p) ==
  /\ pc[p] = "scan"
  /\ \/ mpc[p] \in {"waitExcl", "waitCount", "waitTicket"}
     \/ HasTicket(p) /\ wakeIndex < index[p]

(* p has linked its tuple and has not yet advanced wakeIndex.              *)
AboutToWake(p) ==
  \/ pc[p] \in {"leave", "broadcast"}
  \/ pc[p] = "pushed" /\ mpc[p] \in {"bcastExcl", "bcastWake"}

(* No reader sleeps through the tuple it wants: as long as no process has  *)
(* died, when the list holds a match for a sleeping reader, some pusher is *)
(* on its way to wake it (get_from_hash_table takes its ticket before it   *)
(* leaves the monitor, put_into_hash_table broadcasts after linking).      *)
NoLostTuple ==
  NobodyDied =>
    \A p \in Procs :
      Asleep(p) /\ Matching(pattern[p]) # {} => \E q \in Procs : AboutToWake(q)

Finished(p) == pc[p] = "idle" /\ left[p] = 0

(* Every call that the programs make returns: push_tuple always, and       *)
(* peek_tuple when every peeked pattern is matched by a pushed tuple.      *)
AllCallsReturn == <>(\A p \in Procs : Finished(p))

(* If no reader ever has to wait, every push and every peek returns,       *)
(* whatever signals, broadcasts and exits of other processes they meet,    *)
(* and wherever others are killed: the kernel gives back what they held.   *)
CallsReturnUnlessWaiting ==
  [](\A p \in Procs : mpc[p] \notin WaitLabels)
    => <>(\A p \in Procs : Finished(p) \/ mpc[p] = "died")

(* testSynchronization.c inserts each tuple once, and testInt.c expects    *)
(* the push of an equal tuple to leave the space as it is: no tuple is in  *)
(* the list twice.                                                         *)
NoDuplicates == \A i, j \in DOMAIN list : list[i] = list[j] => i = j

Stalled == \A p \in Procs : ~ ENABLED Run(p)

(* p waits in vain: it is asleep and the tuple it wants is in the list.    *)
Stranded(p) ==
  pc[p] = "scan" /\ mpc[p] \notin Gone /\ Matching(pattern[p]) # {}

InHandshake(p) == mpc[p] \in {"signalHand", "bcastHand"}

(* testSynchronization.c:105, "Consumer 2 peeked all tuples": unless some  *)
(* process hangs in the handshake, a stalled system has no reader waiting  *)
(* for a tuple that is there.                                              *)
NoReaderStranded ==
  Stalled /\ (\A p \in Procs : ~InHandshake(p)) => \A p \in Procs : ~Stranded(p)

(* Signals that find two or more waiters post more tokens than they wake   *)
(* readers; see hazards in the README.                                     *)
SignalsFindOneWaiter ==
  \A p \in Procs : mpc[p] = "signalPost" => waitingCount <= 1

(* A reader whose ticket has been woken leaves the wait loop, as long as   *)
(* no process ends (the kernel would take back its tokens) and no signal   *)
(* finds two waiters (one of them could take the token of the other).      *)
WokenLeavesLoop ==
  [](NobodyLeft /\ SignalsFindOneWaiter) =>
    \A p \in Procs :
      (HasTicket(p) /\ index[p] <= wakeIndex) ~> mpc[p] \in {"waitEnter", "in"}

=============================================================================
