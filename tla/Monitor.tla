------------------------------- MODULE Monitor -------------------------------
(***************************************************************************)
(* monitor.c: a Hoare-style monitor and its condition variable, built from *)
(* four System V semaphores shared by processes.                           *)
(*                                                                         *)
(*   sem["mon"]   monitor_t.semId,  1 when nobody is in the monitor        *)
(*   sem["excl"]  exclSemId, guards the counters of the condition variable *)
(*   sem["cond"]  condSemId, the tokens a sleeping waiter consumes         *)
(*   sem["hand"]  handSemId, the handshakes a waker collects               *)
(*                                                                         *)
(* Every semop of the code carries SEM_UNDO, so the kernel keeps for each  *)
(* process and semaphore an adjustment (semadj) that it applies when the   *)
(* process ends, in whatever way.  One action is one semop or one access   *)
(* to the shared counters; mpc[p] is where p is in monitor.c, and "out"    *)
(* and "in" mean that p runs its caller's code without, or with, the       *)
(* monitor.                                                                *)
(***************************************************************************)
EXTENDS Integers, FiniteSets

CONSTANTS
  Procs,     (* the processes attached to the tuple space                   *)
  Killable,  (* those that may be killed at any point                       *)
  SEMAEM,    (* the kernel's bound on a semadj (32767 on Linux)             *)
  SEMVMX,    (* the kernel's bound on a semaphore's value (32767 on Linux)  *)
  UIntMax,   (* the largest unsigned int (2^32 - 1 in the code)             *)
  MaxWaits   (* bound of the checked instance: tickets taken before the     *)
             (* generic client stops calling wait                           *)

ASSUME MonitorAssumption ==
  /\ IsFiniteSet(Procs)
  /\ Killable \subseteq Procs
  /\ SEMAEM \in Nat \ {0}
  /\ SEMVMX \in Nat \ {0}
  /\ UIntMax \in Nat \ {0}
  /\ MaxWaits \in Nat

VARIABLES
  sem,           (* the semaphores' values                                  *)
  semadj,        (* per process, the kernel's SEM_UNDO adjustments          *)
  waitingCount,  (* condition_variable_t.waitingCount                       *)
  waitIndex,     (* condition_variable_t.waitIndex: the last ticket taken   *)
  wakeIndex,     (* condition_variable_t.wakeIndex: the last ticket woken   *)
  index,         (* the local variable of wait_on_monitor_condition         *)
  posted,        (* the loop variable i of signal and broadcast             *)
  mpc            (* where each process is in monitor.c                      *)

sems == <<sem, semadj>>
counters == <<waitingCount, waitIndex, wakeIndex>>
locals == <<index, posted>>
mvars == <<sem, semadj, waitingCount, waitIndex, wakeIndex, index, posted, mpc>>

Sems == {"mon", "excl", "cond", "hand"}

Gone == {"exited", "died"}

WaitLabels == {"waitExcl", "waitCount", "waitTicket", "waitRelease",
               "waitLeave", "waitTest", "waitCond", "waitHand", "waitEnter"}
SignalLabels == {"signalExcl", "signalTest", "signalPost", "signalHand",
                 "signalRelease"}
BroadcastLabels == {"bcastExcl", "bcastWake", "bcastPost", "bcastLoop",
                    "bcastHand", "bcastRelease"}

Labels == {"out", "in"} \cup WaitLabels \cup SignalLabels
            \cup BroadcastLabels \cup Gone

(* p is inside the monitor: it has entered and not left.                   *)
InMonitorLabels ==
  {"in", "waitExcl", "waitCount", "waitTicket", "waitRelease", "waitLeave"}
    \cup SignalLabels
InMonitor(p) == mpc[p] \in InMonitorLabels

(* p has acquired exclSemId and not released it.                           *)
HoldsExclLabels ==
  {"waitCount", "waitTicket", "waitRelease", "signalTest", "signalPost",
   "signalHand", "signalRelease"} \cup (BroadcastLabels \ {"bcastExcl"})
HoldsExcl(p) == mpc[p] \in HoldsExclLabels

(* p holds a ticket and has not returned from wait.                        *)
HasTicket(p) ==
  mpc[p] \in {"waitRelease", "waitLeave", "waitTest", "waitCond", "waitHand",
              "waitEnter"}

NobodyDied == \A p \in Procs : mpc[p] # "died"
NobodyLeft == \A p \in Procs : mpc[p] \notin Gone

(***************************************************************************)
(* Arithmetic of the counters: unsigned int.                               *)
(***************************************************************************)
UInc(n) == IF n = UIntMax THEN 0 ELSE n + 1

Clamp(v) == IF v < 0 THEN 0 ELSE IF v > SEMVMX THEN SEMVMX ELSE v

goto(p, label) == mpc' = [mpc EXCEPT ![p] = label]

(***************************************************************************)
(* Semaphores (semop with SEM_UNDO).  The kernel refuses an operation that *)
(* would take the value or the adjustment out of range; the code then      *)
(* prints an error and calls exit(1), see semop_error.                     *)
(***************************************************************************)
acquire_semaphore(p, s) ==
  /\ sem[s] > 0
  /\ semadj[p][s] < SEMAEM
  /\ sem' = [sem EXCEPT ![s] = @ - 1]
  /\ semadj' = [semadj EXCEPT ![p][s] = @ + 1]

acquire_fails(p, s) ==
  /\ sem[s] > 0
  /\ semadj[p][s] = SEMAEM

(* Variant with a defect: semop without SEM_UNDO.                          *)
release_without_undo(p, s) ==
  /\ sem[s] < SEMVMX
  /\ sem' = [sem EXCEPT ![s] = @ + 1]
  /\ UNCHANGED semadj

release_semaphore(p, s) ==
  /\ sem[s] < SEMVMX
  /\ semadj[p][s] > -SEMAEM - 1
  /\ sem' = [sem EXCEPT ![s] = @ + 1]
  /\ semadj' = [semadj EXCEPT ![p][s] = @ - 1]

release_fails(p, s) ==
  \/ sem[s] = SEMVMX
  \/ semadj[p][s] = -SEMAEM - 1

(***************************************************************************)
(* create_monitor, create_condition_variable.  waitIndex and wakeIndex are *)
(* not assigned by the code: the block comes from the zero-filled segment  *)
(* that init_host has just created.                                        *)
(***************************************************************************)
MonitorInit ==
  /\ sem = [s \in Sems |-> IF s \in {"mon", "excl"} THEN 1 ELSE 0]
  /\ semadj = [p \in Procs |-> [s \in Sems |-> 0]]
  /\ waitingCount = 0
  /\ waitIndex = 0
  /\ wakeIndex = 0
  /\ index = [p \in Procs |-> 0]
  /\ posted = [p \in Procs |-> 0]
  /\ mpc = [p \in Procs |-> "out"]

(***************************************************************************)
(* enter_monitor and leave_monitor.                                        *)
(***************************************************************************)
enter_monitor(p) ==
  /\ mpc[p] = "out"
  /\ acquire_semaphore(p, "mon")
  /\ goto(p, "in")
  /\ UNCHANGED <<counters, locals>>

leave_monitor(p) ==
  /\ mpc[p] = "in"
  /\ release_semaphore(p, "mon")
  /\ goto(p, "out")
  /\ UNCHANGED <<counters, locals>>

(***************************************************************************)
(* wait_on_monitor_condition, called in the monitor.                       *)
(***************************************************************************)
wait_on_monitor_condition(p) ==
  /\ mpc[p] = "in"
  /\ goto(p, "waitExcl")
  /\ UNCHANGED <<sems, counters, locals>>

wait_acquire_excl(p) ==
  /\ mpc[p] = "waitExcl"
  /\ acquire_semaphore(p, "excl")
  /\ goto(p, "waitCount")
  /\ UNCHANGED <<counters, locals>>

wait_count(p) ==
  /\ mpc[p] = "waitCount"
  /\ waitingCount' = UInc(waitingCount)
  /\ goto(p, "waitTicket")
  /\ UNCHANGED <<sems, waitIndex, wakeIndex, locals>>

wait_take_ticket(p) ==
  /\ mpc[p] = "waitTicket"
  /\ waitIndex' = UInc(waitIndex)
  /\ index' = [index EXCEPT ![p] = UInc(waitIndex)]
  /\ goto(p, "waitRelease")
  /\ UNCHANGED <<sems, waitingCount, wakeIndex, posted>>

wait_release_excl(p) ==
  /\ mpc[p] = "waitRelease"
  /\ release_semaphore(p, "excl")
  /\ goto(p, "waitLeave")
  /\ UNCHANGED <<counters, locals>>

wait_leave_monitor(p) ==
  /\ mpc[p] = "waitLeave"
  /\ release_semaphore(p, "mon")
  /\ goto(p, "waitTest")
  /\ UNCHANGED <<counters, locals>>

(* The loop condition reads wakeIndex without holding exclSemId.           *)
wait_test(p) ==
  /\ mpc[p] = "waitTest"
  /\ goto(p, IF wakeIndex < index[p] THEN "waitCond" ELSE "waitEnter")
  /\ UNCHANGED <<sems, counters, locals>>

wait_acquire_cond(p) ==
  /\ mpc[p] = "waitCond"
  /\ acquire_semaphore(p, "cond")
  /\ goto(p, "waitHand")
  /\ UNCHANGED <<counters, locals>>

wait_release_hand(p) ==
  /\ mpc[p] = "waitHand"
  /\ release_semaphore(p, "hand")
  /\ goto(p, "waitTest")
  /\ UNCHANGED <<counters, locals>>

(* Variant with a defect: wait returns without entering the monitor.       *)
wait_return_outside(p) ==
  /\ mpc[p] = "waitEnter"
  /\ goto(p, "in")
  /\ UNCHANGED <<sems, counters, locals>>

wait_enter_monitor(p) ==
  /\ mpc[p] = "waitEnter"
  /\ acquire_semaphore(p, "mon")
  /\ goto(p, "in")
  /\ UNCHANGED <<counters, locals>>

(***************************************************************************)
(* signal_monitor_condition, called in the monitor.                        *)
(***************************************************************************)
signal_monitor_condition(p) ==
  /\ mpc[p] = "in"
  /\ goto(p, "signalExcl")
  /\ UNCHANGED <<sems, counters, locals>>

signal_acquire_excl(p) ==
  /\ mpc[p] = "signalExcl"
  /\ acquire_semaphore(p, "excl")
  /\ goto(p, "signalTest")
  /\ UNCHANGED <<counters, locals>>

(* Variant with a defect: the test of waitingCount is missing.             *)
signal_even_if_nobody_waits(p) ==
  /\ mpc[p] = "signalTest"
  /\ wakeIndex' = UInc(wakeIndex)
  /\ posted' = [posted EXCEPT ![p] = 0]
  /\ goto(p, "signalPost")
  /\ UNCHANGED <<sems, waitingCount, waitIndex, index>>

signal_test(p) ==
  /\ mpc[p] = "signalTest"
  /\ IF waitingCount # 0
       THEN /\ wakeIndex' = UInc(wakeIndex)
            /\ posted' = [posted EXCEPT ![p] = 0]
            /\ goto(p, "signalPost")
       ELSE /\ goto(p, "signalRelease")
            /\ UNCHANGED <<wakeIndex, posted>>
  /\ UNCHANGED <<sems, waitingCount, waitIndex, index>>

(* One token for every waiter, though a single ticket is woken.            *)
signal_post(p) ==
  /\ mpc[p] = "signalPost"
  /\ posted[p] < waitingCount
  /\ release_semaphore(p, "cond")
  /\ posted' = [posted EXCEPT ![p] = @ + 1]
  /\ UNCHANGED <<counters, index, mpc>>

(* Variant with a defect: signal counts all waiters as woken.              *)
signal_posted_forgets(p) ==
  /\ mpc[p] = "signalPost"
  /\ posted[p] >= waitingCount
  /\ waitingCount' = 0
  /\ goto(p, "signalHand")
  /\ UNCHANGED <<sems, waitIndex, wakeIndex, locals>>

signal_posted(p) ==
  /\ mpc[p] = "signalPost"
  /\ posted[p] >= waitingCount
  /\ waitingCount' = waitingCount - 1
  /\ goto(p, "signalHand")
  /\ UNCHANGED <<sems, waitIndex, wakeIndex, locals>>

signal_acquire_hand(p) ==
  /\ mpc[p] = "signalHand"
  /\ acquire_semaphore(p, "hand")
  /\ goto(p, "signalRelease")
  /\ UNCHANGED <<counters, locals>>

signal_release_excl(p) ==
  /\ mpc[p] = "signalRelease"
  /\ release_semaphore(p, "excl")
  /\ goto(p, "in")
  /\ UNCHANGED <<counters, locals>>

(***************************************************************************)
(* broadcast_monitor_condition, called outside the monitor.                *)
(***************************************************************************)
broadcast_monitor_condition(p) ==
  /\ mpc[p] = "out"
  /\ goto(p, "bcastExcl")
  /\ UNCHANGED <<sems, counters, locals>>

(* Variant with a defect: broadcast does not take exclSemId.               *)
broadcast_without_excl(p) ==
  /\ mpc[p] = "bcastExcl"
  /\ goto(p, "bcastWake")
  /\ UNCHANGED <<sems, counters, locals>>

broadcast_acquire_excl(p) ==
  /\ mpc[p] = "bcastExcl"
  /\ acquire_semaphore(p, "excl")
  /\ goto(p, "bcastWake")
  /\ UNCHANGED <<counters, locals>>

broadcast_wake(p) ==
  /\ mpc[p] = "bcastWake"
  /\ wakeIndex' = waitIndex
  /\ posted' = [posted EXCEPT ![p] = 0]
  /\ goto(p, "bcastPost")
  /\ UNCHANGED <<sems, waitingCount, waitIndex, index>>

broadcast_post(p) ==
  /\ mpc[p] = "bcastPost"
  /\ posted[p] < waitingCount
  /\ release_semaphore(p, "cond")
  /\ posted' = [posted EXCEPT ![p] = @ + 1]
  /\ UNCHANGED <<counters, index, mpc>>

(* Variant with a defect: broadcast posts a single token.                  *)
broadcast_posts_one(p) ==
  /\ mpc[p] = "bcastPost"
  /\ posted[p] >= waitingCount \/ posted[p] = 1
  /\ goto(p, "bcastLoop")
  /\ UNCHANGED <<sems, counters, locals>>

broadcast_posted(p) ==
  /\ mpc[p] = "bcastPost"
  /\ posted[p] >= waitingCount
  /\ goto(p, "bcastLoop")
  /\ UNCHANGED <<sems, counters, locals>>

broadcast_loop(p) ==
  /\ mpc[p] = "bcastLoop"
  /\ IF waitingCount # 0
       THEN waitingCount' = waitingCount - 1 /\ goto(p, "bcastHand")
       ELSE UNCHANGED waitingCount /\ goto(p, "bcastRelease")
  /\ UNCHANGED <<sems, waitIndex, wakeIndex, locals>>

broadcast_acquire_hand(p) ==
  /\ mpc[p] = "bcastHand"
  /\ acquire_semaphore(p, "hand")
  /\ goto(p, "bcastLoop")
  /\ UNCHANGED <<counters, locals>>

broadcast_release_excl(p) ==
  /\ mpc[p] = "bcastRelease"
  /\ release_semaphore(p, "excl")
  /\ goto(p, "out")
  /\ UNCHANGED <<counters, locals>>

(***************************************************************************)
(* The end of a process.  The kernel adds its adjustments to the           *)
(* semaphores, within 0..SEMVMX; the shared counters stay as they are.     *)
(***************************************************************************)
terminate(p, how) ==
  /\ sem' = [s \in Sems |-> Clamp(sem[s] + semadj[p][s])]
  /\ semadj' = [semadj EXCEPT ![p] = [s \in Sems |-> 0]]
  /\ goto(p, how)
  /\ UNCHANGED <<counters, locals>>

(* main returns.                                                           *)
exit(p) ==
  /\ mpc[p] = "out"
  /\ terminate(p, "exited")

(* A signal kills the process, or interrupts its semop (EINTR, exit(1)).   *)
kill(p) ==
  /\ p \in Killable
  /\ mpc[p] \notin Gone
  /\ terminate(p, "died")

(* A semop returns -1 because of a range (ERANGE): exit(1).  "mon" and     *)
(* "excl" never get there: their values and adjustments stay within 0..1.  *)
semop_error(p) ==
  /\ \/ mpc[p] = "waitCond" /\ acquire_fails(p, "cond")
     \/ mpc[p] = "waitHand" /\ release_fails(p, "hand")
     \/ mpc[p] \in {"signalHand", "bcastHand"} /\ acquire_fails(p, "hand")
     \/ /\ mpc[p] \in {"signalPost", "bcastPost"}
        /\ posted[p] < waitingCount
        /\ release_fails(p, "cond")
  /\ terminate(p, "died")

(***************************************************************************)
(* The steps a process takes inside monitor.c once it has called it.       *)
(***************************************************************************)
WaitStep(p) ==
  \/ wait_acquire_excl(p)
  \/ wait_count(p)
  \/ wait_take_ticket(p)
  \/ wait_release_excl(p)
  \/ wait_leave_monitor(p)
  \/ wait_test(p)
  \/ wait_acquire_cond(p)
  \/ wait_release_hand(p)
  \/ wait_enter_monitor(p)

SignalStep(p) ==
  \/ signal_acquire_excl(p)
  \/ signal_test(p)
  \/ signal_post(p)
  \/ signal_posted(p)
  \/ signal_acquire_hand(p)
  \/ signal_release_excl(p)

BroadcastStep(p) ==
  \/ broadcast_acquire_excl(p)
  \/ broadcast_wake(p)
  \/ broadcast_post(p)
  \/ broadcast_posted(p)
  \/ broadcast_loop(p)
  \/ broadcast_acquire_hand(p)
  \/ broadcast_release_excl(p)

MonitorStep(p) == WaitStep(p) \/ SignalStep(p) \/ BroadcastStep(p)

(***************************************************************************)
(* What a caller may do: as hash_table_t.c does, wait and signal in the    *)
(* monitor and broadcast outside it.  Library(p) is every step of p that   *)
(* touches the monitor; modules that compose the monitor with its callers  *)
(* take the same actions.                                                  *)
(***************************************************************************)
Call(p) ==
  \/ enter_monitor(p)
  \/ leave_monitor(p)
  \/ wait_on_monitor_condition(p)
  \/ signal_monitor_condition(p)
  \/ broadcast_monitor_condition(p)

End(p) == exit(p) \/ kill(p) \/ semop_error(p)

Library(p) == Call(p) \/ MonitorStep(p) \/ End(p)

(* The generic client calls wait at most while fewer than MaxWaits tickets *)
(* have been taken, so that the checked instance is finite.                *)
MonitorNext ==
  \E p \in Procs :
    /\ Library(p)
    /\ mpc[p] = "in" /\ mpc'[p] = "waitExcl" => waitIndex < MaxWaits

MonitorSpec == MonitorInit /\ [][MonitorNext]_mvars

-----------------------------------------------------------------------------
(***************************************************************************)
(* Properties.                                                             *)
(***************************************************************************)

(* Types of all variables; semadj and sem stay in the kernel's ranges and  *)
(* no counter is ever decremented below zero.                              *)
MonitorTypeOK ==
  /\ sem \in [Sems -> 0..SEMVMX]
  /\ semadj \in [Procs -> [Sems -> (-SEMAEM - 1)..SEMAEM]]
  /\ waitingCount \in 0..UIntMax
  /\ waitIndex \in 0..UIntMax
  /\ wakeIndex \in 0..UIntMax
  /\ index \in [Procs -> 0..UIntMax]
  /\ posted \in [Procs -> 0..UIntMax]
  /\ mpc \in [Procs -> Labels]

(* At most one process is in the monitor and at most one uses the          *)
(* condition variable's counters, across waits that leave and re-enter     *)
(* the monitor and across processes that die anywhere (monitor.c's         *)
(* enter/leave and the exclSemId sections).                                *)
MutualExclusion ==
  \A p, q \in Procs :
    \/ InMonitor(p) /\ InMonitor(q)
    \/ HoldsExcl(p) /\ HoldsExcl(q)
    => p = q

(* What the kernel would undo for p at any moment is exactly what p holds: *)
(* the monitor iff it is inside, exclSemId iff it is in a section guarded  *)
(* by it (SEM_UNDO in acquire_semaphore and release_semaphore).            *)
UndoMatchesHeld ==
  \A p \in Procs :
    /\ semadj[p]["mon"] = IF InMonitor(p) THEN 1 ELSE 0
    /\ semadj[p]["excl"] = IF HoldsExcl(p) THEN 1 ELSE 0

(* Neither lock is ever lost or duplicated: each is available exactly when *)
(* no living process holds it, so a process that dies inside the monitor   *)
(* never leaves it locked.                                                 *)
LocksNeverLost ==
  /\ sem["mon"] = IF \E p \in Procs : InMonitor(p) THEN 0 ELSE 1
  /\ sem["excl"] = IF \E p \in Procs : HoldsExcl(p) THEN 0 ELSE 1

(* The number of tickets taken and not yet woken.                          *)
TicketsAhead == IF waitIndex >= wakeIndex
                  THEN waitIndex - wakeIndex
                  ELSE waitIndex + UIntMax + 1 - wakeIndex

(* Whenever no process is updating them, waitingCount is the distance from *)
(* wakeIndex to waitIndex, also when they wrap around: signal and          *)
(* broadcast never wake a ticket that nobody has taken.                    *)
WaitAccounting ==
  NobodyDied /\ (\A p \in Procs : ~HoldsExcl(p)) => waitingCount = TicketsAhead

(* The waiters that hold a ticket which nobody has woken.                  *)
Sleepers == {p \in Procs : HasTicket(p) /\ wakeIndex < index[p]}

(* Whenever no process is updating it, waitingCount is the number of       *)
(* sleepers (without wrap-around).  When processes die anywhere, a dead    *)
(* waiter being counted for ever after (monitor.c:133, :148), it is still  *)
(* at least the number of living sleepers, so that signal and broadcast    *)
(* never skip their tokens while someone sleeps.                           *)
WaitersCounted ==
  (\A p \in Procs : ~HoldsExcl(p)) =>
    /\ waitingCount >= Cardinality(Sleepers)
    /\ NobodyDied => waitingCount = Cardinality(Sleepers)

(* The handshakes that are given, or will be once their token is consumed. *)
Handshakes ==
  sem["cond"] + Cardinality({p \in Procs : mpc[p] = "waitHand"}) + sem["hand"]

(* A signaller or broadcaster has always posted a token for every          *)
(* handshake it still has to collect, as long as every process is alive:   *)
(* it can only be stuck on handSemId because nobody consumes the tokens.   *)
HandshakeFunded ==
  NobodyLeft =>
    \A p \in Procs :
      /\ mpc[p] \in {"signalPost", "bcastPost"} => Handshakes >= posted[p]
      /\ mpc[p] = "signalHand" => Handshakes >= 1
      /\ mpc[p] = "bcastLoop" => Handshakes >= waitingCount
      /\ mpc[p] = "bcastHand" => Handshakes >= waitingCount + 1

=============================================================================
