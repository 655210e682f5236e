---------------------------- MODULE MonitorProofs ----------------------------
(***************************************************************************)
(* Proofs about module Monitor, and about module Bucket, whose processes   *)
(* take the monitor's steps: for every set of processes, every choice of   *)
(* those that may be killed and every bound of the kernel's.               *)
(***************************************************************************)
EXTENDS Bucket, TLAPS, FiniteSetTheorems

Locks == {"mon", "excl"}

(* The processes that hold lock l, by where they are in monitor.c.         *)
HolderLabels(l) == IF l = "mon" THEN InMonitorLabels ELSE HoldsExclLabels
Holders(l) == {p \in Procs : mpc[p] \in HolderLabels(l)}

(* What makes l a lock: at most one holder, the kernel's adjustments       *)
(* account for it, and the semaphore is 1 exactly when there is none.      *)
LockOK(l) ==
  /\ \A p, q \in Holders(l) : p = q
  /\ \A p \in Procs : semadj[p][l] = IF p \in Holders(l) THEN 1 ELSE 0
  /\ sem[l] = IF Holders(l) = {} THEN 1 ELSE 0

(* A signaller in its loop found a waiter.                                 *)
SignalFoundWaiter == \A p \in Procs : mpc[p] = "signalPost" => waitingCount # 0

(* The inductive invariant of the locks.                                   *)
LockInv ==
  /\ MonitorTypeOK
  /\ \A l \in Locks : LockOK(l)
  /\ SignalFoundWaiter

-----------------------------------------------------------------------------
(***************************************************************************)
(* How one semaphore operation, or the end of a process, changes a lock.   *)
(***************************************************************************)

(* Acquiring a free lock makes the caller its only holder.                 *)
LEMMA AcquireLock ==
  ASSUME MonitorTypeOK, NEW l \in Locks, NEW p \in Procs, LockOK(l),
         acquire_semaphore(p, l), Holders(l)' = Holders(l) \cup {p}
  PROVE  LockOK(l)'
<1>1. Holders(l) = {}
  BY DEF LockOK, acquire_semaphore
<1>2. semadj'[p][l] = 1
  BY <1>1 DEF LockOK, acquire_semaphore, MonitorTypeOK, Sems, Locks
<1>3. \A q \in Procs \ {p} : semadj'[q][l] = 0
  BY <1>1 DEF LockOK, acquire_semaphore, MonitorTypeOK, Sems, Locks
<1>4. sem'[l] = 0
  BY <1>1 DEF LockOK, acquire_semaphore, MonitorTypeOK, Sems, Locks
<1> QED
  BY <1>1, <1>2, <1>3, <1>4 DEF LockOK

(* Releasing a held lock leaves it free.                                   *)
LEMMA ReleaseLock ==
  ASSUME MonitorTypeOK, NEW l \in Locks, NEW p \in Procs, LockOK(l),
         p \in Holders(l), release_semaphore(p, l),
         Holders(l)' = Holders(l) \ {p}
  PROVE  LockOK(l)'
<1>1. Holders(l) = {p}
  BY DEF LockOK
<1>2. semadj'[p][l] = 0
  BY <1>1 DEF LockOK, release_semaphore, MonitorTypeOK, Sems, Locks
<1>3. \A q \in Procs \ {p} : semadj'[q][l] = 0
  BY <1>1 DEF LockOK, release_semaphore, MonitorTypeOK, Sems, Locks
<1>4. sem'[l] = 1
  BY <1>1 DEF LockOK, release_semaphore, MonitorTypeOK, Sems, Locks
<1> QED
  BY <1>1, <1>2, <1>3, <1>4 DEF LockOK

(* A step that neither moves the semaphore nor its holders.                *)
LEMMA OtherLock ==
  ASSUME NEW l \in Locks, LockOK(l), sem'[l] = sem[l],
         \A q \in Procs : semadj'[q][l] = semadj[q][l],
         Holders(l)' = Holders(l)
  PROVE  LockOK(l)'
BY DEF LockOK

(* A process that ends, wherever it is, gives back the lock it holds.      *)
LEMMA TerminateLock ==
  ASSUME MonitorTypeOK, NEW l \in Locks, NEW p \in Procs, NEW how, LockOK(l),
         terminate(p, how), Holders(l)' = Holders(l) \ {p}
  PROVE  LockOK(l)'
<1>1. /\ l \in Sems
      /\ \A s \in Sems : sem[s] \in Nat /\ sem[s] <= SEMVMX
      /\ SEMVMX \in Nat /\ SEMVMX >= 1
  BY MonitorAssumption DEF MonitorTypeOK, Sems, Locks
<1>2. /\ semadj'[p][l] = 0
      /\ \A q \in Procs \ {p} : semadj'[q][l] = semadj[q][l]
  BY <1>1 DEF terminate, MonitorTypeOK
<1>3. sem'[l] = Clamp(sem[l] + semadj[p][l])
  BY <1>1 DEF terminate
<1>4. CASE p \in Holders(l)
  <2>1. Holders(l) = {p} /\ sem[l] = 0 /\ semadj[p][l] = 1
    BY <1>4 DEF LockOK
  <2>2. sem'[l] = 1
    BY <1>1, <1>3, <2>1 DEF Clamp
  <2> QED
    BY <1>2, <2>1, <2>2 DEF LockOK
<1>5. CASE p \notin Holders(l)
  <2>1. semadj[p][l] = 0
    BY <1>5 DEF LockOK
  <2>2. sem'[l] = sem[l]
    BY <1>1, <1>3, <2>1 DEF Clamp
  <2> QED
    BY <1>2, <1>5, <2>2 DEF LockOK
<1> QED
  BY <1>4, <1>5

(* A step of p that acquires l, releases l, or does not touch it, and      *)
(* moves p accordingly.                                                    *)
Untouched(l) == sem'[l] = sem[l] /\ \A q \in Procs : semadj'[q][l] = semadj[q][l]

LEMMA StepLock ==
  ASSUME MonitorTypeOK, NEW l \in Locks, NEW p \in Procs, NEW label,
         LockOK(l), goto(p, label),
         \/ acquire_semaphore(p, l) /\ label \in HolderLabels(l)
         \/ /\ mpc[p] \in HolderLabels(l) /\ release_semaphore(p, l)
            /\ label \notin HolderLabels(l)
         \/ /\ Untouched(l)
            /\ mpc[p] \in HolderLabels(l) <=> label \in HolderLabels(l)
  PROVE  LockOK(l)'
<1>1. Holders(l)' = IF label \in HolderLabels(l) THEN Holders(l) \cup {p}
                                                ELSE Holders(l) \ {p}
  BY DEF Holders, HolderLabels, goto, MonitorTypeOK
<1>2. p \in Holders(l) <=> mpc[p] \in HolderLabels(l)
  BY DEF Holders
<1>3. CASE acquire_semaphore(p, l) /\ label \in HolderLabels(l)
  BY <1>1, <1>3, AcquireLock
<1>4. CASE /\ mpc[p] \in HolderLabels(l) /\ release_semaphore(p, l)
           /\ label \notin HolderLabels(l)
  BY <1>1, <1>2, <1>4, ReleaseLock
<1>5. CASE /\ Untouched(l)
           /\ mpc[p] \in HolderLabels(l) <=> label \in HolderLabels(l)
  <2>1. Holders(l)' = Holders(l)
    BY <1>1, <1>2, <1>5
  <2> QED
    BY <1>5, <2>1, OtherLock DEF Untouched
<1> QED
  BY <1>3, <1>4, <1>5

(* An operation on one semaphore keeps the types and no other semaphore.   *)
LEMMA SemOp ==
  ASSUME MonitorTypeOK, NEW s \in Sems, NEW p \in Procs,
         acquire_semaphore(p, s) \/ release_semaphore(p, s)
  PROVE  /\ sem' \in [Sems -> 0..SEMVMX]
         /\ semadj' \in [Procs -> [Sems -> (-SEMAEM - 1)..SEMAEM]]
         /\ \A l \in Sems \ {s} : Untouched(l)
<1>1. /\ SEMAEM \in Nat /\ SEMVMX \in Nat
      /\ sem \in [Sems -> 0..SEMVMX]
      /\ semadj \in [Procs -> [Sems -> (-SEMAEM - 1)..SEMAEM]]
  BY MonitorAssumption DEF MonitorTypeOK
<1>2. CASE acquire_semaphore(p, s)
  BY <1>1, <1>2 DEF acquire_semaphore, Untouched
<1>3. CASE release_semaphore(p, s)
  BY <1>1, <1>3 DEF release_semaphore, Untouched
<1> QED
  BY <1>2, <1>3

(***************************************************************************)
(* The inductive step, one case per action of monitor.c.                   *)
(***************************************************************************)

(* The types.                                                              *)
LEMMA TypeStep ==
  ASSUME MonitorTypeOK, SignalFoundWaiter, NEW p \in Procs, Library(p)
  PROVE  MonitorTypeOK'
<1> USE DEF sems, counters, locals, goto, Labels, WaitLabels, SignalLabels,
            BroadcastLabels, Gone
<1>0. /\ SEMAEM \in Nat /\ SEMVMX \in Nat /\ UIntMax \in Nat \ {0}
      /\ sem \in [Sems -> 0..SEMVMX]
      /\ semadj \in [Procs -> [Sems -> (-SEMAEM - 1)..SEMAEM]]
      /\ \A n \in 0..UIntMax : UInc(n) \in 0..UIntMax
  BY MonitorAssumption DEF MonitorTypeOK, UInc
<1>1. CASE enter_monitor(p)
  BY <1>0, <1>1, SemOp DEF enter_monitor, MonitorTypeOK, Sems
<1>2. CASE leave_monitor(p)
  BY <1>0, <1>2, SemOp DEF leave_monitor, MonitorTypeOK, Sems
<1>3. CASE wait_on_monitor_condition(p)
  BY <1>0, <1>3 DEF wait_on_monitor_condition, MonitorTypeOK
<1>4. CASE signal_monitor_condition(p)
  BY <1>0, <1>4 DEF signal_monitor_condition, MonitorTypeOK
<1>5. CASE broadcast_monitor_condition(p)
  BY <1>0, <1>5 DEF broadcast_monitor_condition, MonitorTypeOK
<1>6. CASE wait_acquire_excl(p)
  BY <1>0, <1>6, SemOp DEF wait_acquire_excl, MonitorTypeOK, Sems
<1>7. CASE wait_count(p)
  BY <1>0, <1>7 DEF wait_count, MonitorTypeOK
<1>8. CASE wait_take_ticket(p)
  BY <1>0, <1>8 DEF wait_take_ticket, MonitorTypeOK
<1>9. CASE wait_release_excl(p)
  BY <1>0, <1>9, SemOp DEF wait_release_excl, MonitorTypeOK, Sems
<1>10. CASE wait_leave_monitor(p)
  BY <1>0, <1>10, SemOp DEF wait_leave_monitor, MonitorTypeOK, Sems
<1>11. CASE wait_test(p)
  BY <1>0, <1>11 DEF wait_test, MonitorTypeOK
<1>12. CASE wait_acquire_cond(p)
  BY <1>0, <1>12, SemOp DEF wait_acquire_cond, MonitorTypeOK, Sems
<1>13. CASE wait_release_hand(p)
  BY <1>0, <1>13, SemOp DEF wait_release_hand, MonitorTypeOK, Sems
<1>14. CASE wait_enter_monitor(p)
  BY <1>0, <1>14, SemOp DEF wait_enter_monitor, MonitorTypeOK, Sems
<1>15. CASE signal_acquire_excl(p)
  BY <1>0, <1>15, SemOp DEF signal_acquire_excl, MonitorTypeOK, Sems
<1>16. CASE signal_test(p)
  <2>1. CASE waitingCount # 0
    <3>1. /\ wakeIndex' = UInc(wakeIndex)
          /\ posted' = [posted EXCEPT ![p] = 0]
          /\ mpc' = [mpc EXCEPT ![p] = "signalPost"]
          /\ UNCHANGED <<sem, semadj, waitingCount, waitIndex, index>>
      BY <1>16, <2>1 DEF signal_test
    <3> QED
      BY <1>0, <3>1 DEF MonitorTypeOK
  <2>2. CASE waitingCount = 0
    BY <1>0, <1>16, <2>2 DEF signal_test, MonitorTypeOK
  <2> QED
    BY <2>1, <2>2
<1>17. CASE signal_post(p)
  BY <1>0, <1>17, SemOp DEF signal_post, MonitorTypeOK, Sems
<1>18. CASE signal_posted(p)
  BY <1>0, <1>18 DEF signal_posted, MonitorTypeOK, SignalFoundWaiter
<1>19. CASE signal_acquire_hand(p)
  BY <1>0, <1>19, SemOp DEF signal_acquire_hand, MonitorTypeOK, Sems
<1>20. CASE signal_release_excl(p)
  BY <1>0, <1>20, SemOp DEF signal_release_excl, MonitorTypeOK, Sems
<1>21. CASE broadcast_acquire_excl(p)
  BY <1>0, <1>21, SemOp DEF broadcast_acquire_excl, MonitorTypeOK, Sems
<1>22. CASE broadcast_wake(p)
  BY <1>0, <1>22 DEF broadcast_wake, MonitorTypeOK
<1>23. CASE broadcast_post(p)
  BY <1>0, <1>23, SemOp DEF broadcast_post, MonitorTypeOK, Sems
<1>24. CASE broadcast_posted(p)
  BY <1>0, <1>24 DEF broadcast_posted, MonitorTypeOK
<1>25. CASE broadcast_loop(p)
  BY <1>0, <1>25 DEF broadcast_loop, MonitorTypeOK
<1>26. CASE broadcast_acquire_hand(p)
  BY <1>0, <1>26, SemOp DEF broadcast_acquire_hand, MonitorTypeOK, Sems
<1>27. CASE broadcast_release_excl(p)
  BY <1>0, <1>27, SemOp DEF broadcast_release_excl, MonitorTypeOK, Sems
<1>28. CASE End(p)
  <2>1. PICK how \in Gone : terminate(p, how)
    BY <1>28 DEF End, exit, kill, semop_error
  <2>2. \A s \in Sems : Clamp(sem[s] + semadj[p][s]) \in 0..SEMVMX
    BY <1>0 DEF Clamp
  <2> QED
    BY <1>0, <2>1, <2>2 DEF terminate, MonitorTypeOK
<1> QED
  BY <1>1, <1>2, <1>3, <1>4, <1>5, <1>6, <1>7, <1>8, <1>9, <1>10, <1>11, <1>12, <1>13, <1>14, <1>15, <1>16, <1>17, <1>18, <1>19, <1>20, <1>21, <1>22, <1>23, <1>24, <1>25, <1>26, <1>27, <1>28
     DEF Library, Call, MonitorStep, WaitStep, SignalStep, BroadcastStep

(* The locks.                                                              *)
LEMMA LockStep ==
  ASSUME MonitorTypeOK, NEW l \in Locks, NEW p \in Procs, LockOK(l), Library(p)
  PROVE  LockOK(l)'
<1> USE DEF HolderLabels, InMonitorLabels, HoldsExclLabels, SignalLabels,
            BroadcastLabels
<1>0. l \in {"mon", "excl"} /\ l \in Sems
  BY DEF Locks, Sems
<1>a. ASSUME UNCHANGED sems PROVE Untouched(l)
  BY <1>a DEF Untouched, sems
<1>1. CASE enter_monitor(p)
  <2>1. CASE l = "mon"
    BY <1>1, <2>1, StepLock DEF enter_monitor
  <2>2. CASE l = "excl"
    <3>1. Untouched(l)
      BY <1>1, <2>2, SemOp DEF enter_monitor, Sems
    <3> QED
      BY <1>1, <2>2, <3>1, StepLock DEF enter_monitor
  <2> QED
    BY <1>0, <2>1, <2>2
<1>2. CASE leave_monitor(p)
  <2>1. CASE l = "mon"
    BY <1>2, <2>1, StepLock DEF leave_monitor
  <2>2. CASE l = "excl"
    <3>1. Untouched(l)
      BY <1>2, <2>2, SemOp DEF leave_monitor, Sems
    <3> QED
      BY <1>2, <2>2, <3>1, StepLock DEF leave_monitor
  <2> QED
    BY <1>0, <2>1, <2>2
<1>3. CASE wait_on_monitor_condition(p)
  BY <1>0, <1>a, <1>3, StepLock DEF wait_on_monitor_condition
<1>4. CASE signal_monitor_condition(p)
  BY <1>0, <1>a, <1>4, StepLock DEF signal_monitor_condition
<1>5. CASE broadcast_monitor_condition(p)
  BY <1>0, <1>a, <1>5, StepLock DEF broadcast_monitor_condition
<1>6. CASE wait_acquire_excl(p)
  <2>1. CASE l = "excl"
    BY <1>6, <2>1, StepLock DEF wait_acquire_excl
  <2>2. CASE l = "mon"
    <3>1. Untouched(l)
      BY <1>6, <2>2, SemOp DEF wait_acquire_excl, Sems
    <3> QED
      BY <1>6, <2>2, <3>1, StepLock DEF wait_acquire_excl
  <2> QED
    BY <1>0, <2>1, <2>2
<1>7. CASE wait_count(p)
  BY <1>0, <1>a, <1>7, StepLock DEF wait_count
<1>8. CASE wait_take_ticket(p)
  BY <1>0, <1>a, <1>8, StepLock DEF wait_take_ticket
<1>9. CASE wait_release_excl(p)
  <2>1. CASE l = "excl"
    BY <1>9, <2>1, StepLock DEF wait_release_excl
  <2>2. CASE l = "mon"
    <3>1. Untouched(l)
      BY <1>9, <2>2, SemOp DEF wait_release_excl, Sems
    <3> QED
      BY <1>9, <2>2, <3>1, StepLock DEF wait_release_excl
  <2> QED
    BY <1>0, <2>1, <2>2
<1>10. CASE wait_leave_monitor(p)
  <2>1. CASE l = "mon"
    BY <1>10, <2>1, StepLock DEF wait_leave_monitor
  <2>2. CASE l = "excl"
    <3>1. Untouched(l)
      BY <1>10, <2>2, SemOp DEF wait_leave_monitor, Sems
    <3> QED
      BY <1>10, <2>2, <3>1, StepLock DEF wait_leave_monitor
  <2> QED
    BY <1>0, <2>1, <2>2
<1>11. CASE wait_test(p)
  <2>1. PICK label \in {"waitCond", "waitEnter"} : goto(p, label)
    BY <1>11 DEF wait_test, goto
  <2> QED
    BY <1>0, <1>a, <1>11, <2>1, StepLock DEF wait_test
<1>12. CASE wait_acquire_cond(p)
  <2>1. Untouched(l)
    BY <1>0, <1>12, SemOp DEF wait_acquire_cond, Sems
  <2> QED
    BY <1>0, <1>12, <2>1, StepLock DEF wait_acquire_cond
<1>13. CASE wait_release_hand(p)
  <2>1. Untouched(l)
    BY <1>0, <1>13, SemOp DEF wait_release_hand, Sems
  <2> QED
    BY <1>0, <1>13, <2>1, StepLock DEF wait_release_hand
<1>14. CASE wait_enter_monitor(p)
  <2>1. CASE l = "mon"
    BY <1>14, <2>1, StepLock DEF wait_enter_monitor
  <2>2. CASE l = "excl"
    <3>1. Untouched(l)
      BY <1>14, <2>2, SemOp DEF wait_enter_monitor, Sems
    <3> QED
      BY <1>14, <2>2, <3>1, StepLock DEF wait_enter_monitor
  <2> QED
    BY <1>0, <2>1, <2>2
<1>15. CASE signal_acquire_excl(p)
  <2>1. CASE l = "excl"
    BY <1>15, <2>1, StepLock DEF signal_acquire_excl
  <2>2. CASE l = "mon"
    <3>1. Untouched(l)
      BY <1>15, <2>2, SemOp DEF signal_acquire_excl, Sems
    <3> QED
      BY <1>15, <2>2, <3>1, StepLock DEF signal_acquire_excl
  <2> QED
    BY <1>0, <2>1, <2>2
<1>16. CASE signal_test(p)
  <2>1. PICK label \in {"signalPost", "signalRelease"} : goto(p, label)
    BY <1>16 DEF signal_test, goto
  <2> QED
    BY <1>0, <1>a, <1>16, <2>1, StepLock DEF signal_test
<1>17. CASE signal_post(p)
  <2>1. goto(p, "signalPost")
    BY <1>17 DEF signal_post, goto, MonitorTypeOK
  <2>2. Untouched(l)
    BY <1>0, <1>17, SemOp DEF signal_post, Sems
  <2> QED
    BY <1>0, <1>17, <2>1, <2>2, StepLock DEF signal_post
<1>18. CASE signal_posted(p)
  BY <1>0, <1>a, <1>18, StepLock DEF signal_posted
<1>19. CASE signal_acquire_hand(p)
  <2>1. Untouched(l)
    BY <1>0, <1>19, SemOp DEF signal_acquire_hand, Sems
  <2> QED
    BY <1>0, <1>19, <2>1, StepLock DEF signal_acquire_hand
<1>20. CASE signal_release_excl(p)
  <2>1. CASE l = "excl"
    BY <1>20, <2>1, StepLock DEF signal_release_excl
  <2>2. CASE l = "mon"
    <3>1. Untouched(l)
      BY <1>20, <2>2, SemOp DEF signal_release_excl, Sems
    <3> QED
      BY <1>20, <2>2, <3>1, StepLock DEF signal_release_excl
  <2> QED
    BY <1>0, <2>1, <2>2
<1>21. CASE broadcast_acquire_excl(p)
  <2>1. CASE l = "excl"
    BY <1>21, <2>1, StepLock DEF broadcast_acquire_excl
  <2>2. CASE l = "mon"
    <3>1. Untouched(l)
      BY <1>21, <2>2, SemOp DEF broadcast_acquire_excl, Sems
    <3> QED
      BY <1>21, <2>2, <3>1, StepLock DEF broadcast_acquire_excl
  <2> QED
    BY <1>0, <2>1, <2>2
<1>22. CASE broadcast_wake(p)
  BY <1>0, <1>a, <1>22, StepLock DEF broadcast_wake
<1>23. CASE broadcast_post(p)
  <2>1. goto(p, "bcastPost")
    BY <1>23 DEF broadcast_post, goto, MonitorTypeOK
  <2>2. Untouched(l)
    BY <1>0, <1>23, SemOp DEF broadcast_post, Sems
  <2> QED
    BY <1>0, <1>23, <2>1, <2>2, StepLock DEF broadcast_post
<1>24. CASE broadcast_posted(p)
  BY <1>0, <1>a, <1>24, StepLock DEF broadcast_posted
<1>25. CASE broadcast_loop(p)
  <2>1. PICK label \in {"bcastHand", "bcastRelease"} : goto(p, label)
    BY <1>25 DEF broadcast_loop, goto
  <2> QED
    BY <1>0, <1>a, <1>25, <2>1, StepLock DEF broadcast_loop
<1>26. CASE broadcast_acquire_hand(p)
  <2>1. Untouched(l)
    BY <1>0, <1>26, SemOp DEF broadcast_acquire_hand, Sems
  <2> QED
    BY <1>0, <1>26, <2>1, StepLock DEF broadcast_acquire_hand
<1>27. CASE broadcast_release_excl(p)
  <2>1. CASE l = "excl"
    BY <1>27, <2>1, StepLock DEF broadcast_release_excl
  <2>2. CASE l = "mon"
    <3>1. Untouched(l)
      BY <1>27, <2>2, SemOp DEF broadcast_release_excl, Sems
    <3> QED
      BY <1>27, <2>2, <3>1, StepLock DEF broadcast_release_excl
  <2> QED
    BY <1>0, <2>1, <2>2
<1>28. CASE End(p)
  <2>1. PICK how \in Gone : terminate(p, how)
    BY <1>28 DEF End, exit, kill, semop_error, Gone
  <2>2. Holders(l)' = Holders(l) \ {p}
    BY <2>1 DEF terminate, goto, Holders, Gone, MonitorTypeOK
  <2> QED
    BY <2>1, <2>2, TerminateLock
<1> QED
  BY <1>1, <1>2, <1>3, <1>4, <1>5, <1>6, <1>7, <1>8, <1>9, <1>10, <1>11, <1>12, <1>13, <1>14, <1>15, <1>16, <1>17, <1>18, <1>19, <1>20, <1>21, <1>22, <1>23, <1>24, <1>25, <1>26, <1>27, <1>28
     DEF Library, Call, MonitorStep, WaitStep, SignalStep, BroadcastStep

(* What a step of p leaves alone: the others' places and locals, and the   *)
(* counters unless p holds exclSemId; how p reaches signal's loop, gets a  *)
(* ticket, and which steps move the indices.                               *)
LEMMA Footprint ==
  ASSUME MonitorTypeOK, NEW p \in Procs, Library(p)
  PROVE  /\ \A q \in Procs \ {p} : /\ mpc'[q] = mpc[q]
                                   /\ index'[q] = index[q]
                                   /\ posted'[q] = posted[q]
         /\ ~HoldsExcl(p) => UNCHANGED counters
         /\ mpc'[p] = "signalPost" => signal_test(p) \/ signal_post(p)
         /\ HasTicket(p)' => HasTicket(p) \/ wait_take_ticket(p)
         /\ index' = index \/ wait_take_ticket(p)
         /\ \/ waitIndex' = waitIndex /\ wakeIndex' = wakeIndex
            \/ wait_take_ticket(p) \/ signal_test(p) \/ broadcast_wake(p)
         /\ mpc[p] \notin Gone
BY DEF MonitorTypeOK, HasTicket, goto, sems, counters, locals, HoldsExcl, HoldsExclLabels,
       BroadcastLabels, Gone,
       Library, End, exit, kill, semop_error, terminate, Call, enter_monitor,
       leave_monitor, wait_on_monitor_condition, signal_monitor_condition,
       broadcast_monitor_condition, MonitorStep, WaitStep, wait_acquire_excl,
       wait_count, wait_take_ticket, wait_release_excl, wait_leave_monitor,
       wait_test, wait_acquire_cond, wait_release_hand, wait_enter_monitor,
       SignalStep, signal_acquire_excl, signal_test, signal_post,
       signal_posted, signal_acquire_hand, signal_release_excl, BroadcastStep,
       broadcast_acquire_excl, broadcast_wake, broadcast_post,
       broadcast_posted, broadcast_loop, broadcast_acquire_hand,
       broadcast_release_excl

(* A signaller in its loop keeps the waiter it found: it holds exclSemId,  *)
(* so nobody else changes waitingCount.                                    *)
LEMMA FoundWaiterStep ==
  ASSUME MonitorTypeOK, LockOK("excl"), SignalFoundWaiter, NEW p \in Procs,
         Library(p)
  PROVE  SignalFoundWaiter'
<1>1. SUFFICES ASSUME NEW q \in Procs, mpc'[q] = "signalPost"
               PROVE  waitingCount' # 0
  BY DEF SignalFoundWaiter
<1>2. CASE q = p /\ signal_test(p)
  BY <1>1, <1>2 DEF signal_test, goto, MonitorTypeOK
<1>3. CASE q = p /\ signal_post(p)
  BY <1>3 DEF signal_post, counters, SignalFoundWaiter
<1>4. CASE q # p
  <2>1. mpc[q] = "signalPost" /\ waitingCount # 0
    BY <1>1, <1>4, Footprint DEF SignalFoundWaiter
  <2>2. ~ HoldsExcl(p)
    BY <1>4, <2>1
       DEF LockOK, Holders, HolderLabels, HoldsExcl, HoldsExclLabels
  <2> QED
    BY <2>1, <2>2, Footprint DEF counters
<1> QED
  BY <1>1, <1>2, <1>3, <1>4, Footprint

(* LockInv holds at first and every step of any process keeps it.          *)
LEMMA LockInvInit == MonitorInit => LockInv
<1> SUFFICES ASSUME MonitorInit PROVE LockInv
  OBVIOUS
<1>1. MonitorTypeOK
  BY MonitorAssumption DEF MonitorInit, MonitorTypeOK, Labels, Sems
<1>2. ASSUME NEW l \in Locks PROVE LockOK(l)
  <2>1. Holders(l) = {}
    BY DEF MonitorInit, Holders, HolderLabels, InMonitorLabels,
           HoldsExclLabels, SignalLabels, BroadcastLabels
  <2> QED
    BY <2>1 DEF MonitorInit, LockOK, Locks, Sems
<1> QED
  BY <1>1, <1>2 DEF LockInv, SignalFoundWaiter, MonitorInit

LEMMA LockInvStep ==
  ASSUME LockInv, NEW p \in Procs, Library(p)
  PROVE  LockInv'
BY TypeStep, LockStep, FoundWaiterStep DEF LockInv, Locks

LEMMA LockInvStutter == LockInv /\ UNCHANGED mvars => LockInv'
BY DEF LockInv, mvars, MonitorTypeOK, LockOK, Holders, SignalFoundWaiter

(* What the invariant says of the three properties of the locks.           *)
LEMMA LockInvImplies ==
  LockInv => MonitorTypeOK /\ MutualExclusion /\ UndoMatchesHeld /\ LocksNeverLost
<1> SUFFICES ASSUME LockInv
             PROVE  MutualExclusion /\ UndoMatchesHeld /\ LocksNeverLost
  BY DEF LockInv
<1>1. LockOK("mon") /\ LockOK("excl")
  BY DEF LockInv, Locks
<1>2. /\ Holders("mon") = {p \in Procs : InMonitor(p)}
      /\ Holders("excl") = {p \in Procs : HoldsExcl(p)}
  BY DEF Holders, HolderLabels, InMonitor, HoldsExcl
<1> QED
  BY <1>1, <1>2 DEF LockOK, MutualExclusion, UndoMatchesHeld, LocksNeverLost

-----------------------------------------------------------------------------
(* LockInv is an invariant of the monitor.                                 *)
THEOREM MonitorLockInv == MonitorSpec => []LockInv
<1>1. LockInv /\ [MonitorNext]_mvars => LockInv'
  BY LockInvStep, LockInvStutter DEF MonitorNext
<1> QED
  BY LockInvInit, <1>1, PTL DEF MonitorSpec

(* The kernel's ranges and the counters' types are never left, whatever    *)
(* processes call wait, signal and broadcast and wherever they die.        *)
THEOREM MonitorTypes == MonitorSpec => []MonitorTypeOK
BY MonitorLockInv, LockInvImplies, PTL

(* At most one process is in the monitor and at most one in an exclSemId   *)
(* section, whoever dies and wherever.                                     *)
THEOREM MonitorMutualExclusion == MonitorSpec => []MutualExclusion
BY MonitorLockInv, LockInvImplies, PTL

(* The kernel's adjustments are exactly what each process holds.           *)
THEOREM MonitorUndo == MonitorSpec => []UndoMatchesHeld
BY MonitorLockInv, LockInvImplies, PTL

(* No lock is lost or duplicated by a process that dies.                   *)
THEOREM MonitorLocksNeverLost == MonitorSpec => []LocksNeverLost
BY MonitorLockInv, LockInvImplies, PTL

-----------------------------------------------------------------------------
(***************************************************************************)
(* The accounting of waiters, with the counters' wrap-around.              *)
(***************************************************************************)

(* What waitingCount is while p is in its exclSemId section.               *)
Account(p) ==
  /\ mpc[p] \in {"waitCount", "waitRelease", "signalTest", "signalHand",
                "signalRelease", "bcastWake"} => waitingCount = TicketsAhead
  /\ mpc[p] \in {"waitTicket", "signalPost"} => waitingCount = UInc(TicketsAhead)
  /\ mpc[p] \in {"bcastPost", "bcastLoop", "bcastHand"} => TicketsAhead = 0
  /\ mpc[p] = "bcastRelease" => TicketsAhead = 0 /\ waitingCount = 0

AccountInv == WaitAccounting /\ (NobodyDied => \A p \in Procs : Account(p))

(* The distance between the indices moves with them, modulo 2^w.           *)
LEMMA TicketArithmetic ==
  ASSUME MonitorTypeOK
  PROVE  /\ TicketsAhead \in 0..UIntMax
         /\ waitIndex' = UInc(waitIndex) /\ wakeIndex' = wakeIndex
              => TicketsAhead' = UInc(TicketsAhead)
         /\ wakeIndex' = UInc(wakeIndex) /\ waitIndex' = waitIndex
              => TicketsAhead = UInc(TicketsAhead')
         /\ wakeIndex' = waitIndex /\ waitIndex' = waitIndex => TicketsAhead' = 0
<1>1. UIntMax \in Nat \ {0} /\ waitIndex \in 0..UIntMax /\ wakeIndex \in 0..UIntMax
  BY MonitorAssumption DEF MonitorTypeOK
<1>2. TicketsAhead \in 0..UIntMax
  BY <1>1 DEF TicketsAhead
<1>3. waitIndex' = UInc(waitIndex) /\ wakeIndex' = wakeIndex
         => TicketsAhead' = UInc(TicketsAhead)
  BY <1>1 DEF TicketsAhead, UInc
<1>4. wakeIndex' = UInc(wakeIndex) /\ waitIndex' = waitIndex
         => TicketsAhead = UInc(TicketsAhead')
  BY <1>1 DEF TicketsAhead, UInc
<1>5. wakeIndex' = waitIndex /\ waitIndex' = waitIndex => TicketsAhead' = 0
  BY <1>1 DEF TicketsAhead
<1> QED
  BY <1>2, <1>3, <1>4, <1>5

LEMMA AccountSame ==
  UNCHANGED counters => TicketsAhead' = TicketsAhead /\ waitingCount' = waitingCount
BY DEF counters, TicketsAhead

(* No step brings a dead process back.                                     *)
LEMMA DeadStayDead ==
  ASSUME MonitorTypeOK, NEW p \in Procs, Library(p), NobodyDied'
  PROVE  NobodyDied
BY Footprint DEF NobodyDied, Gone

(* The process that steps: one case per action that enters, stays in or    *)
(* leaves an exclSemId section.                                            *)
LEMMA AccountOwnStep ==
  ASSUME MonitorTypeOK, LockOK("excl"), SignalFoundWaiter, AccountInv,
         NEW p \in Procs, Library(p), NobodyDied, NobodyDied'
  PROVE  /\ Account(p)'
         /\ HoldsExcl(p) /\ ~HoldsExcl(p)' => waitingCount' = TicketsAhead'
<1> USE DEF Account, HoldsExcl, HoldsExclLabels, BroadcastLabels, goto, locals, sems
<1>0. /\ mpc \in [Procs -> Labels]
      /\ UIntMax \in Nat \ {0}
      /\ waitingCount \in 0..UIntMax
      /\ TicketsAhead \in 0..UIntMax
      /\ Account(p)
  BY MonitorAssumption, TicketArithmetic DEF MonitorTypeOK, AccountInv
<1>1. ASSUME acquire_semaphore(p, "excl") PROVE waitingCount = TicketsAhead
  <2>1. Holders("excl") = {}
    BY <1>1 DEF LockOK, acquire_semaphore
  <2> QED
    BY <2>1 DEF AccountInv, WaitAccounting, Holders, HolderLabels
<1>2. CASE wait_acquire_excl(p)
  BY <1>0, <1>1, <1>2, AccountSame DEF wait_acquire_excl
<1>3. CASE wait_count(p)
  <2>1. TicketsAhead' = TicketsAhead
    BY <1>3 DEF wait_count, TicketsAhead
  <2> QED
    BY <1>0, <1>3, <2>1 DEF wait_count
<1>4. CASE wait_take_ticket(p)
  BY <1>0, <1>4, TicketArithmetic DEF wait_take_ticket
<1>5. CASE wait_release_excl(p)
  BY <1>0, <1>5, AccountSame DEF wait_release_excl
<1>6. CASE signal_acquire_excl(p)
  BY <1>0, <1>1, <1>6, AccountSame DEF signal_acquire_excl
<1>7. CASE signal_test(p)
  <2>1. CASE waitingCount # 0
    BY <1>0, <1>7, <2>1, TicketArithmetic DEF signal_test
  <2>2. CASE waitingCount = 0
    BY <1>0, <1>7, <2>2, AccountSame DEF signal_test, counters
  <2> QED
    BY <2>1, <2>2
<1>8. CASE signal_post(p)
  BY <1>0, <1>8, AccountSame DEF signal_post
<1>9. CASE signal_posted(p)
  <2>1. TicketsAhead' = TicketsAhead
    BY <1>9 DEF signal_posted, TicketsAhead
  <2>2. waitingCount # 0
    BY <1>9 DEF signal_posted, SignalFoundWaiter
  <2>3. waitingCount - 1 = TicketsAhead
    BY <1>0, <1>9, <2>2 DEF signal_posted, UInc
  <2> QED
    BY <1>0, <1>9, <2>1, <2>3 DEF signal_posted
<1>10. CASE signal_acquire_hand(p)
  BY <1>0, <1>10, AccountSame DEF signal_acquire_hand
<1>11. CASE signal_release_excl(p)
  BY <1>0, <1>11, AccountSame DEF signal_release_excl
<1>12. CASE broadcast_acquire_excl(p)
  BY <1>0, <1>1, <1>12, AccountSame DEF broadcast_acquire_excl
<1>13. CASE broadcast_wake(p)
  BY <1>0, <1>13, TicketArithmetic DEF broadcast_wake
<1>14. CASE broadcast_post(p)
  BY <1>0, <1>14, AccountSame DEF broadcast_post
<1>15. CASE broadcast_posted(p)
  BY <1>0, <1>15, AccountSame DEF broadcast_posted
<1>16. CASE broadcast_loop(p)
  <2>1. TicketsAhead' = TicketsAhead
    BY <1>16 DEF broadcast_loop, TicketsAhead
  <2> QED
    BY <1>0, <1>16, <2>1 DEF broadcast_loop
<1>17. CASE broadcast_acquire_hand(p)
  BY <1>0, <1>17, AccountSame DEF broadcast_acquire_hand
<1>18. CASE broadcast_release_excl(p)
  BY <1>0, <1>18, AccountSame DEF broadcast_release_excl
<1>19. CASE End(p)
  BY <1>0, <1>19 DEF End, exit, kill, semop_error, terminate, NobodyDied
<1>20. CASE Call(p)
  BY <1>0, <1>20 DEF Call, enter_monitor, leave_monitor,
       wait_on_monitor_condition, signal_monitor_condition,
       broadcast_monitor_condition
<1>21. CASE \/ wait_leave_monitor(p) \/ wait_test(p) \/ wait_acquire_cond(p)
           \/ wait_release_hand(p) \/ wait_enter_monitor(p)
  BY <1>0, <1>21 DEF wait_leave_monitor, wait_test, wait_acquire_cond,
       wait_release_hand, wait_enter_monitor
<1> QED
  BY <1>2, <1>3, <1>4, <1>5, <1>6, <1>7, <1>8, <1>9, <1>10, <1>11, <1>12,
     <1>13, <1>14, <1>15, <1>16, <1>17, <1>18, <1>19, <1>20, <1>21
     DEF Library, MonitorStep, WaitStep, SignalStep, BroadcastStep

LEMMA AccountStep ==
  ASSUME LockInv, AccountInv, NEW p \in Procs, Library(p)
  PROVE  AccountInv'
<1>1. SUFFICES ASSUME NobodyDied'
               PROVE  /\ \A q \in Procs : Account(q)'
                      /\ (\A q \in Procs : ~HoldsExcl(q)')
                           => waitingCount' = TicketsAhead'
  BY DEF AccountInv, WaitAccounting
<1>2. MonitorTypeOK /\ LockOK("excl") /\ SignalFoundWaiter /\ NobodyDied
  BY <1>1, DeadStayDead DEF LockInv, Locks
<1>3. /\ Account(p)'
      /\ HoldsExcl(p) /\ ~HoldsExcl(p)' => waitingCount' = TicketsAhead'
  BY <1>1, <1>2, AccountOwnStep
<1>4. ASSUME NEW q \in Procs \ {p} PROVE Account(q)'
  <2>1. mpc'[q] = mpc[q]
    BY <1>2, Footprint
  <2>2. CASE HoldsExcl(q)
    <3>1. ~HoldsExcl(p)
      BY <1>2, <2>2 DEF LockOK, Holders, HolderLabels, HoldsExcl
    <3>2. TicketsAhead' = TicketsAhead /\ waitingCount' = waitingCount
      BY <1>2, <3>1, Footprint, AccountSame
    <3> QED
      BY <1>2, <2>1, <3>2 DEF AccountInv, Account
  <2>3. CASE ~HoldsExcl(q)
    BY <2>1, <2>3 DEF Account, HoldsExcl, HoldsExclLabels, BroadcastLabels
  <2> QED
    BY <2>2, <2>3
<1>5. ASSUME \A q \in Procs : ~HoldsExcl(q)', ~HoldsExcl(p)
      PROVE  waitingCount' = TicketsAhead'
  <2>1. \A q \in Procs : ~HoldsExcl(q)
    BY <1>2, <1>5, Footprint DEF HoldsExcl
  <2> QED
    BY <1>2, <1>5, <2>1, Footprint, AccountSame DEF AccountInv, WaitAccounting
<1> QED
  BY <1>3, <1>4, <1>5

LEMMA AccountInit == MonitorInit => AccountInv
BY MonitorAssumption
   DEF MonitorInit, AccountInv, WaitAccounting, Account, TicketsAhead

LEMMA AccountStutter == AccountInv /\ UNCHANGED mvars => AccountInv'
BY DEF mvars, AccountInv, WaitAccounting, Account, TicketsAhead, NobodyDied, HoldsExcl

(* waitingCount is the distance between the tickets taken and woken, for   *)
(* every number of waits, signals and broadcasts, past the wrap-around.    *)
THEOREM MonitorWaitAccounting == MonitorSpec => []WaitAccounting
<1>1. LockInv /\ AccountInv /\ [MonitorNext]_mvars => AccountInv'
  BY AccountStep, AccountStutter DEF MonitorNext
<1>2. AccountInv => WaitAccounting
  BY DEF AccountInv
<1> QED
  BY AccountInit, MonitorLockInv, <1>1, <1>2, PTL DEF MonitorSpec

-----------------------------------------------------------------------------
(***************************************************************************)
(* The number of waiters, as long as the counters do not wrap around.      *)
(***************************************************************************)

(* The instances whose counters stay below 2^w.                            *)
Unwrapped == 2 * MaxWaits + Cardinality(Procs) <= UIntMax

(* The processes that have counted a waiter but not given it its ticket,   *)
(* or woken a ticket but not uncounted its waiter, or have died and may    *)
(* have done either (monitor.c:133, :148).                                 *)
UnsettledLabels == {"waitTicket", "signalPost", "died"}
Unsettled == {p \in Procs : mpc[p] \in UnsettledLabels}

(* The counters stay small: whoever is about to take a ticket may do so,   *)
(* and each unsettled process accounts for one waiter too many.            *)
BoundsInv ==
  /\ waitIndex <= MaxWaits
  /\ \A p \in Procs :
       mpc[p] \in {"waitExcl", "waitCount", "waitTicket"} => waitIndex < MaxWaits
  /\ waitingCount <= waitIndex + Cardinality(Unsettled)
  /\ waitingCount + wakeIndex <= 2 * waitIndex + Cardinality(Unsettled)

(* A waiter is counted for every ticket taken and not woken, wherever      *)
(* processes die; one more while a waiter is between its two increments or *)
(* a signaller between its two assignments.                                *)
AwakeLabels == {"bcastPost", "bcastLoop", "bcastHand", "bcastRelease"}
EnoughInv ==
  /\ waitingCount >= waitIndex - wakeIndex
  /\ \A p \in Procs :
       /\ mpc[p] \in {"waitTicket", "signalPost"} =>
             waitingCount > waitIndex - wakeIndex
       /\ mpc[p] \in AwakeLabels => wakeIndex = waitIndex

(* A ticket has one holder.                                                *)
TicketHolderInv ==
  \A p \in Procs : HasTicket(p) =>
    /\ index[p] <= waitIndex
    /\ \A q \in Procs : HasTicket(q) /\ index[q] = index[p] => q = p

(* While everyone is alive, a ticket not woken still has its holder.       *)
SleeperInv ==
  NobodyDied =>
    /\ wakeIndex <= waitIndex
    /\ \A p \in Procs : mpc[p] = "waitEnter" => index[p] <= wakeIndex
    /\ \A t \in (wakeIndex + 1)..waitIndex :
         \E p \in Procs : HasTicket(p) /\ index[p] = t

(* The inductive invariant of the waiters' count.                          *)
WaiterInv == BoundsInv /\ EnoughInv /\ TicketHolderInv /\ SleeperInv

(* The generic client's step.                                              *)
ClientStep(p) ==
  /\ Library(p)
  /\ mpc[p] = "in" /\ mpc'[p] = "waitExcl" => waitIndex < MaxWaits

(* A step that moves no counter, and where it may take its process.        *)
QuietStep(p) ==
  /\ UNCHANGED <<waitingCount, waitIndex, wakeIndex, index>>
  /\ mpc[p] \in UnsettledLabels => mpc'[p] \in UnsettledLabels
  /\ mpc'[p] \in {"waitTicket", "signalPost"} => mpc[p] = mpc'[p]
  /\ mpc'[p] \in AwakeLabels => mpc[p] \in AwakeLabels
  /\ mpc'[p] = "waitCount" => mpc[p] = "waitExcl"
  /\ mpc'[p] = "waitExcl" => mpc[p] = "in"
  /\ HasTicket(p)' => HasTicket(p)
  /\ HasTicket(p) /\ ~HasTicket(p)' => mpc[p] = "waitEnter" \/ mpc'[p] = "died"
  /\ mpc'[p] = "waitEnter" => wakeIndex >= index[p]

(* Every step is quiet or one of the six that assign a counter.            *)
LEMMA StepKinds ==
  ASSUME MonitorTypeOK, NEW p \in Procs, Library(p)
  PROVE  \/ wait_count(p) \/ wait_take_ticket(p)
         \/ signal_test(p) /\ waitingCount # 0
         \/ signal_posted(p) \/ broadcast_wake(p)
         \/ broadcast_loop(p) /\ waitingCount # 0
         \/ QuietStep(p)
<1> USE DEF goto, sems, counters, locals, QuietStep, HasTicket, UnsettledLabels,
            AwakeLabels
<1>0. /\ mpc \in [Procs -> Labels]
      /\ index \in [Procs -> 0..UIntMax]
      /\ wakeIndex \in 0..UIntMax /\ UIntMax \in Nat
  BY MonitorAssumption DEF MonitorTypeOK
<1>1. CASE Call(p)
  BY <1>0, <1>1 DEF Call, enter_monitor, leave_monitor,
     wait_on_monitor_condition, signal_monitor_condition,
     broadcast_monitor_condition
<1>2. CASE End(p)
  <2>1. PICK how \in Gone : terminate(p, how) /\ (how # "died" => mpc[p] = "out")
    BY <1>2 DEF End, exit, kill, semop_error, Gone
  <2> QED
    BY <1>0, <2>1 DEF terminate, Gone
<1>3. CASE WaitStep(p)
  <2>1. CASE wait_test(p)
    BY <1>0, <2>1 DEF wait_test
  <2>2. CASE ~wait_test(p)
    BY <1>0, <1>3, <2>2 DEF WaitStep, wait_acquire_excl, wait_release_excl,
       wait_leave_monitor, wait_acquire_cond, wait_release_hand,
       wait_enter_monitor
  <2> QED
    BY <2>1, <2>2
<1>4. CASE SignalStep(p)
  <2>1. CASE signal_test(p) /\ waitingCount = 0
    BY <1>0, <2>1 DEF signal_test
  <2>2. CASE ~signal_test(p)
    BY <1>0, <1>4, <2>2 DEF SignalStep, signal_acquire_excl, signal_post,
       signal_acquire_hand, signal_release_excl
  <2> QED
    BY <2>1, <2>2
<1>5. CASE BroadcastStep(p)
  <2>1. CASE broadcast_loop(p) /\ waitingCount = 0
    BY <1>0, <2>1 DEF broadcast_loop
  <2>2. CASE ~broadcast_loop(p)
    BY <1>0, <1>5, <2>2 DEF BroadcastStep, broadcast_acquire_excl,
       broadcast_post, broadcast_posted, broadcast_acquire_hand,
       broadcast_release_excl
  <2> QED
    BY <2>1, <2>2
<1> QED
  BY <1>1, <1>2, <1>3, <1>4, <1>5 DEF Library, MonitorStep

(* The plain facts the counters' steps use.                                *)
LEMMA CounterTypes ==
  ASSUME MonitorTypeOK
  PROVE  /\ UIntMax \in Nat \ {0} /\ MaxWaits \in Nat
         /\ waitingCount \in Nat /\ waitIndex \in Nat /\ wakeIndex \in Nat
         /\ mpc \in [Procs -> Labels]
         /\ index \in [Procs -> 0..UIntMax]
         /\ IsFiniteSet(Unsettled) /\ Cardinality(Unsettled) \in Nat
         /\ Cardinality(Procs) \in Nat
         /\ Cardinality(Unsettled) <= Cardinality(Procs)
         /\ \A p \in Procs \ Unsettled :
              Cardinality(Unsettled) < Cardinality(Procs)
<1>1. IsFiniteSet(Procs) /\ Unsettled \in SUBSET Procs
  BY MonitorAssumption DEF Unsettled
<1>2. /\ IsFiniteSet(Unsettled) /\ Cardinality(Unsettled) \in Nat
      /\ Cardinality(Procs) \in Nat
      /\ Cardinality(Unsettled) <= Cardinality(Procs)
      /\ Cardinality(Procs) = Cardinality(Unsettled) => Procs = Unsettled
  BY <1>1, FS_Subset, FS_CardinalityType
<1>3. /\ UIntMax \in Nat \ {0} /\ MaxWaits \in Nat
      /\ waitingCount \in Nat /\ waitIndex \in Nat /\ wakeIndex \in Nat
      /\ mpc \in [Procs -> Labels]
      /\ index \in [Procs -> 0..UIntMax]
  BY MonitorAssumption DEF MonitorTypeOK
<1>4. \A p \in Procs \ Unsettled : Cardinality(Unsettled) < Cardinality(Procs)
  BY <1>2
<1> QED
  BY <1>2, <1>3, <1>4

(* How many processes are unsettled after p has moved.                     *)
LEMMA UnsettledMoves ==
  ASSUME MonitorTypeOK, NEW p \in Procs, Library(p)
  PROVE  Cardinality(Unsettled') =
           Cardinality(Unsettled)
             + (IF mpc'[p] \in UnsettledLabels THEN 1 ELSE 0)
             - (IF mpc[p] \in UnsettledLabels THEN 1 ELSE 0)
<1>1. /\ IsFiniteSet(Unsettled) /\ Cardinality(Unsettled) \in Nat
      /\ \A q \in Procs \ {p} : mpc'[q] = mpc[q]
      /\ p \in Unsettled <=> mpc[p] \in UnsettledLabels
  BY CounterTypes, Footprint DEF Unsettled
<1>2. CASE mpc'[p] \in UnsettledLabels
  <2>1. Unsettled' = Unsettled \cup {p}
    BY <1>1, <1>2 DEF Unsettled
  <2>2. Cardinality(Unsettled \cup {p}) =
          IF p \in Unsettled THEN Cardinality(Unsettled)
                            ELSE Cardinality(Unsettled) + 1
    BY <1>1, FS_AddElement
  <2> QED
    BY <1>1, <1>2, <2>1, <2>2
<1>3. CASE mpc'[p] \notin UnsettledLabels
  <2>1. Unsettled' = Unsettled \ {p}
    BY <1>1, <1>3 DEF Unsettled
  <2>2. Cardinality(Unsettled \ {p}) =
          IF p \in Unsettled THEN Cardinality(Unsettled) - 1
                            ELSE Cardinality(Unsettled)
    BY <1>1, FS_RemoveElement
  <2> QED
    BY <1>1, <1>3, <2>1, <2>2
<1> QED
  BY <1>2, <1>3

(* The counters never wrap around in an unwrapped instance.                *)
LEMMA CountersAdd ==
  ASSUME MonitorTypeOK, Unwrapped, BoundsInv, NEW p \in Procs
  PROVE  /\ wait_count(p) => waitingCount' = waitingCount + 1
         /\ wait_take_ticket(p) => waitIndex' = waitIndex + 1
         /\ signal_test(p) /\ waitingCount # 0 => wakeIndex' = wakeIndex + 1
<1> USE CounterTypes DEF UInc
<1>1. ASSUME wait_count(p) PROVE waitingCount' = waitingCount + 1
  <2>1. /\ waitIndex < MaxWaits
        /\ waitingCount <= waitIndex + Cardinality(Unsettled)
    BY <1>1 DEF wait_count, BoundsInv
  <2>2. waitingCount < UIntMax
    BY <2>1 DEF Unwrapped
  <2> QED
    BY <1>1, <2>2 DEF wait_count
<1>2. ASSUME wait_take_ticket(p) PROVE waitIndex' = waitIndex + 1
  <2>1. waitIndex < MaxWaits
    BY <1>2 DEF wait_take_ticket, BoundsInv
  <2>2. waitIndex < UIntMax
    BY <2>1 DEF Unwrapped
  <2> QED
    BY <1>2, <2>2 DEF wait_take_ticket
<1>3. ASSUME signal_test(p), waitingCount # 0
      PROVE  wakeIndex' = wakeIndex + 1
  <2>1. /\ waitIndex <= MaxWaits
        /\ waitingCount + wakeIndex <= 2 * waitIndex + Cardinality(Unsettled)
    BY DEF BoundsInv
  <2>2. wakeIndex < UIntMax
    BY <1>3, <2>1 DEF Unwrapped
  <2> QED
    BY <1>3, <2>2 DEF signal_test
<1> QED
  BY <1>1, <1>2, <1>3

(* The bounds: a ticket is taken only below MaxWaits, by the one process   *)
(* in the monitor, and C, w and the unsettled processes move together.     *)
LEMMA BoundsStep ==
  ASSUME LockInv, Unwrapped, BoundsInv, NEW p \in Procs, ClientStep(p)
  PROVE  BoundsInv'
<1> DEFINE N == Cardinality(Unsettled)
           Early == {"waitExcl", "waitCount", "waitTicket"}
           B(c, i, k, n) == i <= MaxWaits /\ c <= i + n /\ c + k <= 2 * i + n
<1>0. /\ MonitorTypeOK /\ LockOK("mon") /\ Library(p)
      /\ N \in Nat /\ MaxWaits \in Nat
      /\ waitingCount \in Nat /\ waitIndex \in Nat /\ wakeIndex \in Nat
      /\ mpc \in [Procs -> Labels]
      /\ B(waitingCount, waitIndex, wakeIndex, N)
      /\ \A q \in Procs : mpc[q] \in Early => waitIndex < MaxWaits
  BY CounterTypes DEF LockInv, Locks, ClientStep, BoundsInv
<1>1. N' = N + (IF mpc'[p] \in UnsettledLabels THEN 1 ELSE 0)
             - (IF mpc[p] \in UnsettledLabels THEN 1 ELSE 0)
  BY <1>0, UnsettledMoves
<1>2. \A q \in Procs \ {p} : mpc'[q] = mpc[q]
  BY <1>0, Footprint
<1>3. SUFFICES /\ B(waitingCount', waitIndex', wakeIndex', N')
               /\ mpc'[p] \in Early => waitIndex' < MaxWaits
               /\ \A q \in Procs \ {p} : mpc[q] \in Early => waitIndex' < MaxWaits
  BY <1>2 DEF BoundsInv
<1> HIDE DEF N
<1>4. CASE wait_count(p)
  <2>1. /\ waitingCount' = waitingCount + 1
        /\ waitIndex' = waitIndex /\ wakeIndex' = wakeIndex
        /\ mpc[p] = "waitCount" /\ mpc'[p] = "waitTicket"
    BY <1>0, <1>4, CountersAdd DEF wait_count, goto
  <2>2. N' = N + 1
    BY <1>0, <1>1, <2>1 DEF UnsettledLabels
  <2> QED
    BY <1>0, <2>1, <2>2
<1>5. CASE wait_take_ticket(p)
  <2>1. /\ waitIndex' = waitIndex + 1
        /\ waitingCount' = waitingCount /\ wakeIndex' = wakeIndex
        /\ mpc[p] = "waitTicket" /\ mpc'[p] = "waitRelease"
    BY <1>0, <1>5, CountersAdd DEF wait_take_ticket, goto
  <2>2. N' = N - 1
    BY <1>0, <1>1, <2>1 DEF UnsettledLabels
  <2>3. ASSUME NEW q \in Procs \ {p}, mpc[q] \in Early PROVE FALSE
    BY <1>0, <2>1, <2>3 DEF LockOK, Holders, HolderLabels, InMonitorLabels
  <2>4. waitIndex < MaxWaits
    BY <1>0, <2>1
  <2> QED
    BY <1>0, <2>1, <2>2, <2>3, <2>4
<1>6. CASE signal_test(p) /\ waitingCount # 0
  <2>1. /\ wakeIndex' = wakeIndex + 1
        /\ waitingCount' = waitingCount /\ waitIndex' = waitIndex
        /\ mpc[p] = "signalTest" /\ mpc'[p] = "signalPost"
    BY <1>0, <1>6, CountersAdd DEF signal_test, goto
  <2>2. N' = N + 1
    BY <1>0, <1>1, <2>1 DEF UnsettledLabels
  <2> QED
    BY <1>0, <2>1, <2>2
<1>7. CASE signal_posted(p)
  <2>1. /\ waitingCount' = waitingCount - 1
        /\ waitIndex' = waitIndex /\ wakeIndex' = wakeIndex
        /\ mpc[p] = "signalPost" /\ mpc'[p] = "signalHand"
    BY <1>0, <1>7 DEF signal_posted, goto
  <2>2. N' = N - 1
    BY <1>0, <1>1, <2>1 DEF UnsettledLabels
  <2> QED
    BY <1>0, <2>1, <2>2
<1>8. CASE broadcast_wake(p)
  <2>1. /\ wakeIndex' = waitIndex
        /\ waitingCount' = waitingCount /\ waitIndex' = waitIndex
        /\ mpc[p] = "bcastWake" /\ mpc'[p] = "bcastPost"
    BY <1>0, <1>8 DEF broadcast_wake, goto
  <2>2. N' = N
    BY <1>0, <1>1, <2>1 DEF UnsettledLabels
  <2> QED
    BY <1>0, <2>1, <2>2
<1>9. CASE broadcast_loop(p) /\ waitingCount # 0
  <2>1. /\ waitingCount' = waitingCount - 1
        /\ waitIndex' = waitIndex /\ wakeIndex' = wakeIndex
        /\ mpc[p] = "bcastLoop" /\ mpc'[p] = "bcastHand"
    BY <1>0, <1>9 DEF broadcast_loop, goto
  <2>2. N' = N
    BY <1>0, <1>1, <2>1 DEF UnsettledLabels
  <2> QED
    BY <1>0, <2>1, <2>2
<1>10. CASE QuietStep(p)
  <2>1. N' \in Nat /\ N' >= N
    BY <1>0, <1>1, <1>10 DEF QuietStep
  <2>2. /\ waitingCount' = waitingCount
        /\ waitIndex' = waitIndex /\ wakeIndex' = wakeIndex
    BY <1>10 DEF QuietStep
  <2>3. mpc'[p] \in Early => mpc[p] \in Early \/ waitIndex < MaxWaits
    BY <1>10 DEF QuietStep, ClientStep
  <2>4. B(waitingCount', waitIndex', wakeIndex', N')
    <3>1. /\ waitIndex <= MaxWaits /\ waitingCount <= waitIndex + N
          /\ waitingCount + wakeIndex <= 2 * waitIndex + N
          /\ N \in Nat /\ N' \in Nat /\ N' >= N
          /\ waitingCount \in Nat /\ waitIndex \in Nat /\ wakeIndex \in Nat
      BY <1>0, <2>1
    <3>2. /\ waitingCount <= waitIndex + N'
          /\ waitingCount + wakeIndex <= 2 * waitIndex + N'
      <4> HIDE DEF B
      <4>1. \A c, k, i, m, n \in Nat :
              /\ c <= i + m /\ c + k <= 2 * i + m /\ m <= n
              => c <= i + n /\ c + k <= 2 * i + n
        OBVIOUS
      <4> QED
        BY <3>1, <4>1
    <3> QED
      BY <2>2, <3>1, <3>2
  <2> HIDE DEF B
  <2> QED
    BY <1>0, <2>2, <2>3, <2>4
<1> QED
  BY <1>0, <1>4, <1>5, <1>6, <1>7, <1>8, <1>9, <1>10, StepKinds

(* Every waiter that sleeps is counted: only the holder of exclSemId moves *)
(* the counters, in an order that never counts one too few.                *)
LEMMA EnoughStep ==
  ASSUME LockInv, Unwrapped, BoundsInv, EnoughInv, NEW p \in Procs, Library(p)
  PROVE  EnoughInv'
<1> DEFINE Over == {"waitTicket", "signalPost"}
           E(c, i, k, l) == /\ c >= i - k
                            /\ l \in Over => c > i - k
                            /\ l \in AwakeLabels => k = i
<1>0. /\ MonitorTypeOK /\ LockOK("excl")
      /\ waitingCount \in Nat /\ waitIndex \in Nat /\ wakeIndex \in Nat
      /\ mpc \in [Procs -> Labels]
      /\ \A q \in Procs : E(waitingCount, waitIndex, wakeIndex, mpc[q])
  BY CounterTypes DEF LockInv, Locks, EnoughInv
<1>1. \A q \in Procs \ {p} : mpc'[q] = mpc[q]
  BY <1>0, Footprint
<1>2. SUFFICES /\ E(waitingCount', waitIndex', wakeIndex', mpc'[p])
               /\ \A q \in Procs \ {p} :
                    E(waitingCount', waitIndex', wakeIndex', mpc[q])
  BY <1>1 DEF EnoughInv
<1>3. CASE HoldsExcl(p)
  <2>1. \A q \in Procs \ {p} : mpc[q] \notin Over /\ mpc[q] \notin AwakeLabels
    BY <1>0, <1>3 DEF LockOK, Holders, HolderLabels, HoldsExcl,
       HoldsExclLabels, BroadcastLabels, AwakeLabels
  <2>2. SUFFICES E(waitingCount', waitIndex', wakeIndex', mpc'[p])
    BY <2>1
  <2>3. CASE wait_count(p)
    <3>1. /\ waitingCount' = waitingCount + 1
          /\ waitIndex' = waitIndex /\ wakeIndex' = wakeIndex
          /\ mpc'[p] = "waitTicket"
      BY <1>0, <2>3, CountersAdd DEF wait_count, goto
    <3> QED
      BY <1>0, <3>1 DEF AwakeLabels
  <2>4. CASE wait_take_ticket(p)
    <3>1. /\ waitingCount' = waitingCount
          /\ waitIndex' = waitIndex + 1 /\ wakeIndex' = wakeIndex
          /\ mpc[p] = "waitTicket" /\ mpc'[p] = "waitRelease"
      BY <1>0, <2>4, CountersAdd DEF wait_take_ticket, goto
    <3> QED
      BY <1>0, <3>1 DEF AwakeLabels
  <2>5. CASE signal_test(p) /\ waitingCount # 0
    BY <1>0, <2>5, CountersAdd DEF signal_test, goto, AwakeLabels
  <2>6. CASE signal_posted(p)
    BY <1>0, <2>6 DEF signal_posted, goto, AwakeLabels
  <2>7. CASE broadcast_wake(p)
    <3>1. /\ waitingCount' = waitingCount /\ waitIndex' = waitIndex
          /\ wakeIndex' = waitIndex /\ mpc'[p] = "bcastPost"
      BY <1>0, <2>7 DEF broadcast_wake, goto
    <3> QED
      BY <1>0, <3>1
  <2>8. CASE broadcast_loop(p) /\ waitingCount # 0
    <3>1. /\ waitingCount' = waitingCount - 1 /\ waitIndex' = waitIndex
          /\ wakeIndex' = wakeIndex /\ mpc[p] = "bcastLoop"
          /\ mpc'[p] = "bcastHand"
      BY <1>0, <2>8 DEF broadcast_loop, goto
    <3>2. wakeIndex = waitIndex
      BY <1>0, <3>1 DEF AwakeLabels
    <3> QED
      BY <1>0, <2>8, <3>1, <3>2
  <2>9. CASE QuietStep(p)
    BY <1>0, <2>9 DEF QuietStep
  <2> QED
    BY <1>0, <2>3, <2>4, <2>5, <2>6, <2>7, <2>8, <2>9, StepKinds
<1>4. CASE ~HoldsExcl(p)
  <2>1. QuietStep(p)
    BY <1>0, <1>4, StepKinds
       DEF HoldsExcl, HoldsExclLabels, BroadcastLabels, wait_count,
           wait_take_ticket, signal_test, signal_posted, broadcast_wake,
           broadcast_loop
  <2> QED
    BY <1>0, <2>1 DEF QuietStep
<1> QED
  BY <1>3, <1>4

(* A ticket is never given twice.                                          *)
LEMMA TicketHolderStep ==
  ASSUME LockInv, Unwrapped, BoundsInv, TicketHolderInv, NEW p \in Procs, Library(p)
  PROVE  TicketHolderInv'
<1>0. /\ MonitorTypeOK
      /\ waitIndex \in Nat
      /\ mpc \in [Procs -> Labels]
      /\ index \in [Procs -> 0..UIntMax] /\ UIntMax \in Nat
      /\ \A q \in Procs \ {p} : mpc'[q] = mpc[q] /\ index'[q] = index[q]
  BY CounterTypes, Footprint DEF LockInv
<1>1. CASE wait_take_ticket(p)
  <2>1. /\ waitIndex' = waitIndex + 1 /\ index'[p] = waitIndex + 1
        /\ ~HasTicket(p)
    BY <1>0, <1>1, CountersAdd DEF wait_take_ticket, HasTicket
  <2>2. \A q \in Procs \ {p} : HasTicket(q)' <=> HasTicket(q)
    BY <1>0 DEF HasTicket
  <2> QED
    BY <1>0, <2>1, <2>2 DEF TicketHolderInv
<1>2. CASE ~wait_take_ticket(p)
  <2>1. /\ waitIndex' = waitIndex /\ index' = index
        /\ \A q \in Procs : HasTicket(q)' => HasTicket(q)
    <3>1. HasTicket(p)' => HasTicket(p)
      BY <1>0, <1>2, Footprint
    <3>2. \A q \in Procs \ {p} : HasTicket(q)' => HasTicket(q)
      BY <1>0 DEF HasTicket
    <3>3. waitIndex' = waitIndex /\ index' = index
      BY <1>0, <1>2, Footprint DEF signal_test, broadcast_wake
    <3> QED
      BY <3>1, <3>2, <3>3
  <2> QED
    BY <2>1 DEF TicketHolderInv
<1> QED
  BY <1>1, <1>2

(* Nobody returns from wait before its ticket is woken: the account says   *)
(* that a signaller wakes only tickets that have been taken.               *)
LEMMA SleeperStep ==
  ASSUME LockInv, AccountInv, Unwrapped, BoundsInv, TicketHolderInv, SleeperInv,
         NEW p \in Procs, Library(p)
  PROVE  SleeperInv'
<1>1. SUFFICES ASSUME NobodyDied'
               PROVE  /\ wakeIndex' <= waitIndex'
                      /\ \A q \in Procs :
                           mpc'[q] = "waitEnter" => index'[q] <= wakeIndex'
                      /\ \A t \in (wakeIndex' + 1)..waitIndex' :
                           \E q \in Procs : HasTicket(q)' /\ index'[q] = t
  BY DEF SleeperInv
<1>2. /\ MonitorTypeOK /\ NobodyDied
      /\ waitIndex \in Nat /\ wakeIndex \in Nat
      /\ mpc \in [Procs -> Labels]
      /\ index \in [Procs -> 0..UIntMax] /\ UIntMax \in Nat
      /\ \A q \in Procs \ {p} : mpc'[q] = mpc[q] /\ index'[q] = index[q]
      /\ \A q \in Procs \ {p} : HasTicket(q)' <=> HasTicket(q)
  <2>1. MonitorTypeOK
    BY DEF LockInv
  <2>2. \A q \in Procs \ {p} : mpc'[q] = mpc[q] /\ index'[q] = index[q]
    BY <2>1, Footprint
  <2> QED
    BY <1>1, <2>1, <2>2, CounterTypes, DeadStayDead DEF HasTicket
<1>3. /\ wakeIndex <= waitIndex
      /\ \A q \in Procs : mpc[q] = "waitEnter" => index[q] <= wakeIndex
      /\ \A t \in (wakeIndex + 1)..waitIndex :
           \E q \in Procs : HasTicket(q) /\ index[q] = t
  BY <1>2 DEF SleeperInv
<1>4. CASE wait_take_ticket(p)
  <2>1. /\ waitIndex' = waitIndex + 1 /\ index'[p] = waitIndex + 1
        /\ wakeIndex' = wakeIndex /\ ~HasTicket(p) /\ HasTicket(p)'
        /\ mpc'[p] = "waitRelease"
    BY <1>2, <1>4, CountersAdd DEF wait_take_ticket, HasTicket, goto
  <2>2. ASSUME NEW t \in (wakeIndex' + 1)..waitIndex'
        PROVE  \E q \in Procs : HasTicket(q)' /\ index'[q] = t
    <3>1. CASE t = waitIndex + 1
      BY <2>1, <3>1
    <3>2. CASE t # waitIndex + 1
      <4>1. PICK q \in Procs : HasTicket(q) /\ index[q] = t
        BY <1>2, <1>3, <2>1, <3>2
      <4> QED
        BY <1>2, <2>1, <4>1
    <3> QED
      BY <3>1, <3>2
  <2>3. \A q \in Procs : mpc'[q] = "waitEnter" => index'[q] <= wakeIndex'
    BY <1>2, <1>3, <2>1
  <2> QED
    BY <1>2, <1>3, <2>1, <2>2, <2>3
<1>5. CASE signal_test(p) /\ waitingCount # 0
  <2>1. /\ wakeIndex' = wakeIndex + 1 /\ waitIndex' = waitIndex
        /\ index' = index /\ mpc[p] = "signalTest" /\ mpc'[p] = "signalPost"
    BY <1>2, <1>5, CountersAdd DEF signal_test, goto
  <2>2. waitingCount = TicketsAhead
    BY <1>2, <2>1 DEF AccountInv, Account
  <2>3. wakeIndex < waitIndex
    BY <1>2, <1>3, <1>5, <2>2 DEF TicketsAhead
  <2>4. ~HasTicket(p)
    BY <2>1 DEF HasTicket
  <2>5. \A t \in (wakeIndex' + 1)..waitIndex' : t \in (wakeIndex + 1)..waitIndex
    BY <1>2, <2>1
  <2>6. \A q \in Procs : mpc'[q] = "waitEnter" => index[q] <= wakeIndex + 1
    BY <1>2, <1>3, <2>1
  <2> QED
    BY <1>2, <1>3, <2>1, <2>3, <2>4, <2>5, <2>6
<1>6. CASE broadcast_wake(p)
  <2>1. /\ wakeIndex' = waitIndex /\ waitIndex' = waitIndex /\ index' = index
        /\ mpc'[p] = "bcastPost"
    BY <1>2, <1>6 DEF broadcast_wake, goto
  <2>2. \A q \in Procs : mpc'[q] = "waitEnter" => index[q] <= waitIndex
    BY <1>2, <2>1 DEF TicketHolderInv, HasTicket
  <2> QED
    BY <1>2, <2>1, <2>2
<1>7. CASE ~wait_take_ticket(p) /\ ~(signal_test(p) /\ waitingCount # 0)
             /\ ~broadcast_wake(p)
  <2>1. /\ wakeIndex' = wakeIndex /\ waitIndex' = waitIndex /\ index' = index
        /\ mpc'[p] = "waitEnter" => wakeIndex >= index[p]
        /\ HasTicket(p) => HasTicket(p)' \/ mpc[p] = "waitEnter"
    BY <1>1, <1>2, <1>7, StepKinds
       DEF wait_count, signal_posted, broadcast_loop, locals, QuietStep, goto,
           HasTicket, NobodyDied
  <2>2. ASSUME NEW t \in (wakeIndex + 1)..waitIndex
        PROVE  \E q \in Procs : HasTicket(q)' /\ index'[q] = t
    <3>1. PICK q \in Procs : HasTicket(q) /\ index[q] = t
      BY <1>3
    <3>2. mpc[q] # "waitEnter"
      BY <1>2, <1>3, <3>1
    <3> QED
      BY <1>2, <2>1, <3>1, <3>2
  <2> QED
    BY <1>2, <1>3, <2>1, <2>2
<1> QED
  BY <1>4, <1>5, <1>6, <1>7

(* WaiterInv holds at first and every step of the generic client keeps it. *)
LEMMA WaiterInit == MonitorInit => WaiterInv
<1> SUFFICES ASSUME MonitorInit PROVE WaiterInv
  OBVIOUS
<1>1. MonitorTypeOK
  BY LockInvInit DEF LockInv
<1>2. /\ Cardinality(Unsettled) \in Nat /\ MaxWaits \in Nat
      /\ waitingCount = 0 /\ waitIndex = 0 /\ wakeIndex = 0
      /\ \A p \in Procs : mpc[p] = "out"
  BY <1>1, CounterTypes DEF MonitorInit
<1>3. BoundsInv
  BY <1>2 DEF BoundsInv
<1>4. EnoughInv
  BY <1>2 DEF EnoughInv, AwakeLabels
<1>5. TicketHolderInv /\ SleeperInv
  BY <1>2 DEF TicketHolderInv, SleeperInv, HasTicket
<1> QED
  BY <1>3, <1>4, <1>5 DEF WaiterInv

LEMMA WaiterStutter == WaiterInv /\ UNCHANGED mvars => WaiterInv'
BY DEF mvars, WaiterInv, BoundsInv, EnoughInv, TicketHolderInv, SleeperInv, Unsettled,
       HasTicket, NobodyDied

LEMMA WaiterStep ==
  ASSUME LockInv, AccountInv, Unwrapped, WaiterInv, NEW p \in Procs, ClientStep(p)
  PROVE  WaiterInv'
<1>1. BoundsInv /\ EnoughInv /\ TicketHolderInv /\ SleeperInv /\ Library(p)
  BY DEF WaiterInv, ClientStep
<1> QED
  BY <1>1, BoundsStep, EnoughStep, TicketHolderStep, SleeperStep DEF WaiterInv

(* The sleepers hold different tickets out of those taken and not woken,   *)
(* and all of them while everyone is alive.                                *)
LEMMA SleepersCount ==
  ASSUME LockInv, WaiterInv
  PROVE  /\ Cardinality(Sleepers) \in Nat
         /\ \/ Cardinality(Sleepers) <= waitIndex - wakeIndex
            \/ Cardinality(Sleepers) = 0
         /\ NobodyDied => Cardinality(Sleepers) = waitIndex - wakeIndex
<1> DEFINE Waiting == (wakeIndex + 1)..waitIndex
           f == [p \in Sleepers |-> index[p]]
<1>1. /\ waitIndex \in Nat /\ wakeIndex \in Nat
      /\ index \in [Procs -> 0..UIntMax] /\ UIntMax \in Nat
  BY CounterTypes DEF LockInv
<1>2. /\ IsFiniteSet(Waiting)
      /\ Cardinality(Waiting) = IF wakeIndex + 1 > waitIndex
                                  THEN 0 ELSE waitIndex - wakeIndex
  BY <1>1, FS_Interval
<1>3. f \in Injection(Sleepers, Waiting)
  <2>1. f \in [Sleepers -> Waiting]
    BY <1>1 DEF Sleepers, WaiterInv, TicketHolderInv
  <2>2. \A p, q \in Sleepers : f[p] = f[q] => p = q
    BY DEF Sleepers, WaiterInv, TicketHolderInv
  <2> QED
    BY <2>1, <2>2 DEF Injection, IsInjective
<1>4. /\ IsFiniteSet(Sleepers)
      /\ Cardinality(Sleepers) <= Cardinality(Waiting)
      /\ f \in Surjection(Sleepers, Waiting)
           => Cardinality(Sleepers) = Cardinality(Waiting)
  BY <1>2, <1>3, FS_Injection
<1>5. Cardinality(Sleepers) \in Nat
  BY <1>4, FS_CardinalityType
<1>6. ASSUME NobodyDied
      PROVE  f \in Surjection(Sleepers, Waiting) /\ wakeIndex <= waitIndex
  <2>1. \A t \in Waiting : \E p \in Sleepers : f[p] = t
    BY <1>1, <1>6 DEF Sleepers, WaiterInv, SleeperInv
  <2> QED
    BY <1>3, <1>6, <2>1 DEF Injection, Surjection, WaiterInv, SleeperInv
<1> HIDE DEF Waiting, f
<1> QED
  BY <1>1, <1>2, <1>4, <1>5, <1>6

LEMMA WaiterInvImplies ==
  LockInv /\ AccountInv /\ WaiterInv => WaitersCounted
<1> SUFFICES ASSUME LockInv, AccountInv, WaiterInv, \A p \in Procs : ~HoldsExcl(p)
             PROVE  /\ waitingCount >= Cardinality(Sleepers)
                    /\ NobodyDied => waitingCount = Cardinality(Sleepers)
  BY DEF WaitersCounted
<1>1. /\ waitingCount \in Nat /\ waitIndex \in Nat /\ wakeIndex \in Nat
      /\ waitingCount >= waitIndex - wakeIndex
  BY CounterTypes DEF LockInv, WaiterInv, EnoughInv
<1>2. waitingCount >= Cardinality(Sleepers)
  BY <1>1, SleepersCount
<1>3. ASSUME NobodyDied PROVE waitingCount = Cardinality(Sleepers)
  <2>1. waitingCount = TicketsAhead /\ wakeIndex <= waitIndex
    BY <1>3 DEF AccountInv, WaitAccounting, WaiterInv, SleeperInv
  <2> QED
    BY <1>1, <1>3, <2>1, SleepersCount DEF TicketsAhead
<1> QED
  BY <1>2, <1>3

(* As long as the counters do not wrap around, waitingCount is the number  *)
(* of processes that sleep in wait, and never less than that after any     *)
(* process has died in wait, signal or broadcast: no waker skips its       *)
(* tokens while someone sleeps.                                            *)
THEOREM MonitorWaitersCounted ==
  ASSUME Unwrapped
  PROVE  MonitorSpec => []WaitersCounted
<1>1. LockInv /\ AccountInv /\ [MonitorNext]_mvars => AccountInv'
  BY AccountStep, AccountStutter DEF MonitorNext
<1>2. LockInv /\ AccountInv /\ WaiterInv /\ [MonitorNext]_mvars => WaiterInv'
  BY WaiterStep, WaiterStutter DEF MonitorNext, ClientStep
<1> QED
  BY AccountInit, WaiterInit, WaiterInvImplies, MonitorLockInv, <1>1, <1>2, PTL
     DEF MonitorSpec

-----------------------------------------------------------------------------
(***************************************************************************)
(* The handshakes: a token turns into a waiter that has taken it, and that *)
(* into a handshake; only the holder of exclSemId adds one or collects one.*)
(***************************************************************************)
Handing == {p \in Procs : mpc[p] = "waitHand"}

(* The parts of Handshakes are natural numbers.                            *)
LEMMA HandshakeTypes ==
  ASSUME MonitorTypeOK
  PROVE  /\ Handshakes = sem["cond"] + Cardinality(Handing) + sem["hand"]
         /\ IsFiniteSet(Handing) /\ Cardinality(Handing) \in Nat
         /\ sem["cond"] \in Nat /\ sem["hand"] \in Nat
         /\ Handshakes \in Nat
<1>1. IsFiniteSet(Procs) /\ Handing \in SUBSET Procs /\ SEMVMX \in Nat
  BY MonitorAssumption DEF Handing
<1>2. IsFiniteSet(Handing) /\ Cardinality(Handing) \in Nat
  BY <1>1, FS_Subset, FS_CardinalityType
<1>3. sem["cond"] \in Nat /\ sem["hand"] \in Nat
  BY <1>1 DEF MonitorTypeOK, Sems
<1>4. Handshakes = sem["cond"] + Cardinality(Handing) + sem["hand"]
  BY DEF Handshakes, Handing
<1> QED
  BY <1>2, <1>3, <1>4

(* How p's move changes the number of processes that hold a token.         *)
LEMMA HandingMoves ==
  ASSUME MonitorTypeOK, NEW p \in Procs, Library(p)
  PROVE  Cardinality(Handing') =
           Cardinality(Handing)
             + (IF mpc'[p] = "waitHand" THEN 1 ELSE 0)
             - (IF mpc[p] = "waitHand" THEN 1 ELSE 0)
<1>1. /\ IsFiniteSet(Handing) /\ Cardinality(Handing) \in Nat
      /\ \A q \in Procs \ {p} : mpc'[q] = mpc[q]
      /\ p \in Handing <=> mpc[p] = "waitHand"
  BY HandshakeTypes, Footprint DEF Handing
<1>2. CASE mpc'[p] = "waitHand"
  <2>1. Handing' = Handing \cup {p}
    BY <1>1, <1>2 DEF Handing
  <2>2. Cardinality(Handing \cup {p}) =
          IF p \in Handing THEN Cardinality(Handing) ELSE Cardinality(Handing) + 1
    BY <1>1, FS_AddElement
  <2> QED
    BY <1>1, <1>2, <2>1, <2>2
<1>3. CASE mpc'[p] # "waitHand"
  <2>1. Handing' = Handing \ {p}
    BY <1>1, <1>3 DEF Handing
  <2>2. Cardinality(Handing \ {p}) =
          IF p \in Handing THEN Cardinality(Handing) - 1 ELSE Cardinality(Handing)
    BY <1>1, FS_RemoveElement
  <2> QED
    BY <1>1, <1>3, <2>1, <2>2
<1> QED
  BY <1>2, <1>3

Posts(p) == signal_post(p) \/ broadcast_post(p)
Collects(p) == signal_acquire_hand(p) \/ broadcast_acquire_hand(p)

(* Posting a token adds a handshake, collecting one takes it away, and no  *)
(* other step changes their number while nobody ends.                      *)
LEMMA HandshakeMoves ==
  ASSUME MonitorTypeOK, NEW p \in Procs, Library(p), NobodyLeft'
  PROVE  /\ Posts(p) => Handshakes' = Handshakes + 1
         /\ Collects(p) => Handshakes' = Handshakes - 1
         /\ ~Posts(p) /\ ~Collects(p) => Handshakes' = Handshakes
<1> DEFINE N == Cardinality(Handing)
<1>1. /\ Handshakes = sem["cond"] + N + sem["hand"]
      /\ N \in Nat /\ sem["cond"] \in Nat /\ sem["hand"] \in Nat
      /\ sem \in [Sems -> 0..SEMVMX]
      /\ mpc \in [Procs -> Labels]
  BY HandshakeTypes DEF MonitorTypeOK
<1>2. /\ N' = N + (IF mpc'[p] = "waitHand" THEN 1 ELSE 0)
                - (IF mpc[p] = "waitHand" THEN 1 ELSE 0)
      /\ Handshakes' = sem'["cond"] + N' + sem'["hand"]
  BY HandingMoves DEF Handshakes, Handing
<1> HIDE DEF N
<1>3. CASE Posts(p)
  <2>1. /\ sem'["cond"] = sem["cond"] + 1 /\ sem'["hand"] = sem["hand"]
        /\ mpc' = mpc /\ mpc[p] # "waitHand"
    BY <1>1, <1>3 DEF Posts, signal_post, broadcast_post, release_semaphore, Sems
  <2>2. ~Collects(p)
    BY <1>3 DEF Posts, Collects, signal_post, broadcast_post,
       signal_acquire_hand, broadcast_acquire_hand
  <2> QED
    BY <1>1, <1>2, <1>3, <2>1, <2>2
<1>4. CASE Collects(p)
  <2>1. /\ sem'["cond"] = sem["cond"] /\ sem'["hand"] = sem["hand"] - 1
        /\ mpc[p] # "waitHand" /\ mpc'[p] # "waitHand"
    BY <1>1, <1>4 DEF Collects, signal_acquire_hand, broadcast_acquire_hand,
       acquire_semaphore, goto, Sems
  <2>2. ~Posts(p)
    BY <1>4 DEF Posts, Collects, signal_post, broadcast_post,
       signal_acquire_hand, broadcast_acquire_hand
  <2> QED
    BY <1>1, <1>2, <1>4, <2>1, <2>2
<1>5. CASE wait_acquire_cond(p)
  <2>1. /\ sem'["cond"] = sem["cond"] - 1 /\ sem'["hand"] = sem["hand"]
        /\ mpc[p] = "waitCond" /\ mpc'[p] = "waitHand"
    BY <1>1, <1>5 DEF wait_acquire_cond, acquire_semaphore, goto, Sems
  <2>2. ~Posts(p) /\ ~Collects(p)
    BY <2>1 DEF Posts, Collects, signal_post, broadcast_post,
       signal_acquire_hand, broadcast_acquire_hand
  <2> QED
    BY <1>1, <1>2, <2>1, <2>2
<1>6. CASE wait_release_hand(p)
  <2>1. /\ sem'["cond"] = sem["cond"] /\ sem'["hand"] = sem["hand"] + 1
        /\ mpc[p] = "waitHand" /\ mpc'[p] = "waitTest"
    BY <1>1, <1>6 DEF wait_release_hand, release_semaphore, goto, Sems
  <2>2. ~Posts(p) /\ ~Collects(p)
    BY <2>1 DEF Posts, Collects, signal_post, broadcast_post,
       signal_acquire_hand, broadcast_acquire_hand
  <2> QED
    BY <1>1, <1>2, <2>1, <2>2
<1>7. CASE /\ ~Posts(p) /\ ~Collects(p)
           /\ ~wait_acquire_cond(p) /\ ~wait_release_hand(p)
  <2>1. /\ sem'["cond"] = sem["cond"] /\ sem'["hand"] = sem["hand"]
        /\ mpc[p] # "waitHand" /\ mpc'[p] # "waitHand"
    <3>1. ~End(p)
      BY <1>1 DEF NobodyLeft, Gone, End, exit, kill, semop_error, terminate, goto
    <3>2. CASE Call(p)
      BY <1>1, <3>2 DEF Call, enter_monitor, leave_monitor,
         wait_on_monitor_condition, signal_monitor_condition,
         broadcast_monitor_condition, acquire_semaphore, release_semaphore,
         goto, sems, Sems
    <3>3. CASE WaitStep(p)
      BY <1>1, <1>7, <3>3 DEF WaitStep, wait_acquire_excl, wait_count,
         wait_take_ticket, wait_release_excl, wait_leave_monitor, wait_test,
         wait_enter_monitor, acquire_semaphore, release_semaphore, goto, sems,
         Sems
    <3>4. CASE SignalStep(p) \/ BroadcastStep(p)
      BY <1>1, <1>7, <3>4 DEF Posts, Collects, SignalStep, BroadcastStep,
         signal_acquire_excl, signal_test, signal_posted, signal_release_excl,
         broadcast_acquire_excl, broadcast_wake, broadcast_posted,
         broadcast_loop, broadcast_release_excl, acquire_semaphore,
         release_semaphore, goto, sems, Sems
    <3> QED
      BY <3>1, <3>2, <3>3, <3>4 DEF Library, MonitorStep
  <2> QED
    BY <1>1, <1>2, <1>7, <2>1
<1> QED
  BY <1>3, <1>4, <1>5, <1>6, <1>7

(* What a waker in its section needs.                                      *)
Funded(label, hands, i, count) ==
  /\ label \in {"signalPost", "bcastPost"} => hands >= i
  /\ label = "signalHand" => hands >= 1
  /\ label = "bcastLoop" => hands >= count
  /\ label = "bcastHand" => hands >= count + 1

(* The waker itself: it posts before it collects, and no more than it      *)
(* posted.                                                                 *)
LEMMA FundedOwnStep ==
  ASSUME LockInv, NEW p \in Procs, Library(p), NobodyLeft',
         Funded(mpc[p], Handshakes, posted[p], waitingCount)
  PROVE  Funded(mpc'[p], Handshakes', posted'[p], waitingCount')
<1> USE DEF Funded
<1>1. /\ MonitorTypeOK /\ SignalFoundWaiter
      /\ Handshakes \in Nat /\ waitingCount \in Nat
      /\ mpc \in [Procs -> Labels]
      /\ posted \in [Procs -> 0..UIntMax] /\ UIntMax \in Nat
  BY HandshakeTypes, CounterTypes DEF LockInv, MonitorTypeOK
<1>2. CASE Posts(p)
  <2>1. /\ mpc' = mpc /\ posted'[p] = posted[p] + 1
        /\ mpc[p] \in {"signalPost", "bcastPost"}
    BY <1>1, <1>2 DEF Posts, signal_post, broadcast_post
  <2>2. Handshakes' = Handshakes + 1
    BY <1>1, <1>2, HandshakeMoves
  <2> QED
    BY <1>1, <2>1, <2>2
<1>3. CASE Collects(p)
  <2>1. /\ waitingCount' = waitingCount
        /\ \/ mpc[p] = "signalHand" /\ mpc'[p] = "signalRelease"
           \/ mpc[p] = "bcastHand" /\ mpc'[p] = "bcastLoop"
    BY <1>1, <1>3 DEF Collects, signal_acquire_hand, broadcast_acquire_hand,
       goto, counters
  <2>2. Handshakes' = Handshakes - 1
    BY <1>1, <1>3, HandshakeMoves
  <2> QED
    BY <1>1, <2>1, <2>2
<1>4. CASE ~Posts(p) /\ ~Collects(p)
  <2>1. Handshakes' = Handshakes
    BY <1>1, <1>4, HandshakeMoves
  <2>2. CASE signal_test(p) \/ broadcast_wake(p)
    <3>1. \/ mpc'[p] \in {"signalPost", "bcastPost"} /\ posted'[p] = 0
          \/ mpc'[p] = "signalRelease"
      BY <1>1, <2>2 DEF signal_test, broadcast_wake, goto
    <3> QED
      BY <1>1, <2>1, <3>1
  <2>3. CASE signal_posted(p)
    <3>1. mpc[p] = "signalPost" /\ mpc'[p] = "signalHand" /\ posted[p] >= 1
      BY <1>1, <2>3 DEF signal_posted, goto, SignalFoundWaiter
    <3> QED
      BY <1>1, <2>1, <3>1
  <2>4. CASE broadcast_posted(p)
    <3>1. /\ mpc[p] = "bcastPost" /\ mpc'[p] = "bcastLoop"
          /\ posted[p] >= waitingCount /\ waitingCount' = waitingCount
      BY <1>1, <2>4 DEF broadcast_posted, goto, counters
    <3> QED
      BY <1>1, <2>1, <3>1
  <2>5. CASE broadcast_loop(p)
    <3>1. /\ mpc[p] = "bcastLoop"
          /\ \/ mpc'[p] = "bcastHand" /\ waitingCount' = waitingCount - 1
             \/ mpc'[p] = "bcastRelease"
      BY <1>1, <2>5 DEF broadcast_loop, goto
    <3> QED
      BY <1>1, <2>1, <3>1
  <2>6. CASE ~signal_test(p) /\ ~broadcast_wake(p) /\ ~signal_posted(p)
               /\ ~broadcast_posted(p) /\ ~broadcast_loop(p)
    <3>1. mpc'[p] \notin {"signalPost", "bcastPost", "signalHand",
                          "bcastLoop", "bcastHand"}
      <4>1. CASE Call(p) \/ End(p)
        BY <1>1, <4>1 DEF Call, enter_monitor, leave_monitor,
           wait_on_monitor_condition, signal_monitor_condition,
           broadcast_monitor_condition, End, exit, kill, semop_error,
           terminate, goto
      <4>2. CASE WaitStep(p)
        BY <1>1, <4>2 DEF WaitStep, wait_acquire_excl, wait_count,
           wait_take_ticket, wait_release_excl, wait_leave_monitor, wait_test,
           wait_acquire_cond, wait_release_hand, wait_enter_monitor, goto
      <4>3. CASE SignalStep(p) \/ BroadcastStep(p)
        BY <1>1, <1>4, <2>6, <4>3 DEF Posts, Collects, SignalStep,
           BroadcastStep, signal_acquire_excl, signal_release_excl,
           broadcast_acquire_excl, broadcast_release_excl, goto
      <4> QED
        BY <4>1, <4>2, <4>3 DEF Library, MonitorStep
    <3> QED
      BY <3>1
  <2> QED
    BY <2>2, <2>3, <2>4, <2>5, <2>6
<1> QED
  BY <1>2, <1>3, <1>4

(* The others: only the holder of exclSemId, who is unique, is a waker, so *)
(* whoever else steps only moves a handshake from one place to the next.   *)
LEMMA FundedStep ==
  ASSUME LockInv, HandshakeFunded, NEW p \in Procs, Library(p)
  PROVE  HandshakeFunded'
<1>1. SUFFICES ASSUME NobodyLeft', NEW q \in Procs
               PROVE  Funded(mpc'[q], Handshakes', posted'[q], waitingCount')
  BY DEF HandshakeFunded, Funded
<1>2. MonitorTypeOK /\ LockOK("excl")
  BY DEF LockInv, Locks
<1>3. NobodyLeft
  BY <1>1, <1>2, Footprint DEF NobodyLeft
<1>4. Funded(mpc[q], Handshakes, posted[q], waitingCount)
  BY <1>3 DEF HandshakeFunded, Funded
<1>5. CASE q = p
  BY <1>1, <1>4, <1>5, FundedOwnStep
<1>6. CASE q # p
  <2>1. mpc'[q] = mpc[q] /\ posted'[q] = posted[q]
    BY <1>2, <1>6, Footprint
  <2>2. CASE HoldsExcl(q)
    <3>1. ~HoldsExcl(p)
      BY <1>2, <1>6, <2>2 DEF LockOK, Holders, HolderLabels, HoldsExcl
    <3>2. ~Posts(p) /\ ~Collects(p)
      BY <3>1 DEF HoldsExcl, HoldsExclLabels, BroadcastLabels, Posts, Collects,
         signal_post, broadcast_post, signal_acquire_hand,
         broadcast_acquire_hand
    <3>3. Handshakes' = Handshakes /\ waitingCount' = waitingCount
      BY <1>1, <1>2, <3>1, <3>2, HandshakeMoves, Footprint DEF counters
    <3> QED
      BY <1>4, <2>1, <3>3
  <2>3. CASE ~HoldsExcl(q)
    BY <2>1, <2>3 DEF HoldsExcl, HoldsExclLabels, BroadcastLabels, Funded
  <2> QED
    BY <2>2, <2>3
<1> QED
  BY <1>5, <1>6

(* While every process lives, a waker never waits for a handshake that it  *)
(* has not paid for with a token: it is stuck on handSemId only as long as *)
(* the waiters do not consume what it posted.                              *)
THEOREM MonitorHandshakeFunded == MonitorSpec => []HandshakeFunded
<1>1. MonitorInit => HandshakeFunded
  BY DEF MonitorInit, HandshakeFunded
<1>2. LockInv /\ HandshakeFunded /\ [MonitorNext]_mvars => HandshakeFunded'
  <2>1. LockInv /\ HandshakeFunded /\ UNCHANGED mvars => HandshakeFunded'
    BY DEF mvars, HandshakeFunded, Handshakes, NobodyLeft
  <2> QED
    BY <2>1, FundedStep DEF MonitorNext
<1> QED
  BY MonitorLockInv, <1>1, <1>2, PTL DEF MonitorSpec

-----------------------------------------------------------------------------
(***************************************************************************)
(* Module Bucket: the properties of the monitor carry over to its use in   *)
(* the hash table, and no reader sleeps through its tuple.                 *)
(***************************************************************************)
Step(p) == Run(p) \/ main_returns(p) \/ dies(p)

(* Every step of the bucket is a step of the monitor or leaves it alone.   *)
LEMMA StepIsLibraryStep ==
  ASSUME NEW p \in Procs, Step(p)
  PROVE  Library(p) \/ UNCHANGED mvars
<1> USE DEF Library, Call, End
<1>1. CASE PutStep(p)
  BY <1>1 DEF PutStep, push_tuple, insert_enter, insert_link, put_leave,
              put_broadcast, put_return
<1>2. CASE GetStep(p)
  BY <1>2 DEF GetStep, peek_tuple, get_enter, get_found, get_wait, get_leave
<1>3. CASE monitor_step(p) \/ main_returns(p) \/ dies(p)
  BY <1>3 DEF monitor_step, main_returns, dies
<1> QED
  BY <1>1, <1>2, <1>3 DEF Step, Run

LEMMA NextIsLibraryStep ==
  ASSUME [Next]_vars
  PROVE  (\E p \in Procs : Library(p)) \/ UNCHANGED mvars
BY StepIsLibraryStep DEF Next, Step, vars

(* The locks and the accounting of the monitor, in the bucket.             *)
THEOREM BucketMonitorInv == Spec => [](LockInv /\ AccountInv)
<1>1. LockInv /\ AccountInv /\ [Next]_vars => (LockInv /\ AccountInv)'
  BY NextIsLibraryStep, LockInvStep, LockInvStutter, AccountStep, AccountStutter
<1>2. Init => LockInv /\ AccountInv
  BY LockInvInit, AccountInit DEF Init
<1> QED
  BY <1>1, <1>2, PTL DEF Spec

(* At most one process is inside the bucket's monitor.                     *)
THEOREM BucketMutualExclusion == Spec => []MutualExclusion
BY BucketMonitorInv, LockInvImplies, PTL

-----------------------------------------------------------------------------
(***************************************************************************)
(* The types and the discipline of the monitor calls.                      *)
(***************************************************************************)

(* A process inside wait, signal or broadcast stays there or returns.      *)
LEMMA MonitorStepStays ==
  ASSUME MonitorTypeOK, NEW p \in Procs, MonitorStep(p)
  PROVE  \/ mpc[p] \in WaitLabels /\ mpc'[p] \in WaitLabels \cup {"in"}
         \/ mpc[p] \in SignalLabels /\ mpc'[p] \in SignalLabels \cup {"in"}
         \/ mpc[p] \in BroadcastLabels /\ mpc'[p] \in BroadcastLabels \cup {"out"}
<1> USE DEF MonitorTypeOK, goto, WaitLabels, SignalLabels, BroadcastLabels
<1>1. CASE WaitStep(p)
  BY <1>1 DEF WaitStep, wait_acquire_excl, wait_count, wait_take_ticket,
       wait_release_excl, wait_leave_monitor, wait_test, wait_acquire_cond,
       wait_release_hand, wait_enter_monitor
<1>2. CASE SignalStep(p)
  BY <1>2 DEF SignalStep, signal_acquire_excl, signal_test, signal_post,
       signal_posted, signal_acquire_hand, signal_release_excl
<1>3. CASE BroadcastStep(p)
  BY <1>3 DEF BroadcastStep, broadcast_acquire_excl, broadcast_wake,
       broadcast_post, broadcast_posted, broadcast_loop,
       broadcast_acquire_hand, broadcast_release_excl
<1> QED
  BY <1>1, <1>2, <1>3 DEF MonitorStep

(* A pusher knows its tuple until it has linked it.                        *)
PusherHasTuple == \A p \in Procs : pc[p] \in {"insert", "link"} => tuple[p] \in Tuples

BucketTypeInv == BucketTypeOK /\ PusherHasTuple

LEMMA BucketTypeStep ==
  ASSUME MonitorTypeOK, BucketTypeInv, NEW p \in Procs, Step(p)
  PROVE  BucketTypeInv'
<1> USE DEF BucketTypeInv, PusherHasTuple, BucketTypeOK, CallsMonitorAt, Locations, move, begin_call, bvars,
            mvars, Gone, WaitLabels, SignalLabels, BroadcastLabels, goto,
            counters, locals, sems
<1>0. /\ mpc \in [Procs -> Labels]
      /\ PushArgs \in [Procs -> SUBSET Tuples]
      /\ PeekArgs \in [Procs -> SUBSET Patterns]
  BY BucketAssumption DEF MonitorTypeOK
<1>1. CASE \E t \in PushArgs[p] : push_tuple(p, t)
  <2>1. PICK t \in PushArgs[p] : push_tuple(p, t)
    BY <1>1
  <2>2. t \in Tuples
    BY <1>0
  <2>3. left' \in [Procs -> Nat]
    BY <2>1 DEF push_tuple
  <2>4. CASE t \in Contents
    BY <1>0, <2>1, <2>3, <2>4 DEF push_tuple
  <2>5. CASE t \notin Contents
    <3>1. /\ pc[p] = "idle" /\ mpc[p] = "out"
          /\ pc' = [pc EXCEPT ![p] = "insert"]
          /\ tuple' = [tuple EXCEPT ![p] = t]
          /\ UNCHANGED <<mpc, list, pattern, out>>
      BY <2>1, <2>5 DEF push_tuple
    <3>2. \A q \in Procs : mpc'[q] \notin Gone => CallsMonitorAt(q)'
      BY <1>0, <3>1
    <3> QED
      BY <2>2, <2>3, <3>1, <3>2
  <2> QED
    BY <2>4, <2>5
<1>2. CASE insert_enter(p)
  BY <1>0, <1>2 DEF insert_enter, enter_monitor
<1>3. CASE insert_link(p)
  <2>1. tuple[p] \in Tuples
    BY <1>3 DEF insert_link
  <2>2. list' \in Seq(Tuples)
    BY <1>3, <2>1 DEF insert_link
  <2>3. \A q \in Procs : mpc'[q] \notin Gone => CallsMonitorAt(q)'
    BY <1>0, <1>3 DEF insert_link
  <2>4. PusherHasTuple'
    BY <1>3 DEF insert_link
  <2> QED
    BY <1>0, <1>3, <2>2, <2>3, <2>4 DEF insert_link
<1>4. CASE put_leave(p)
  BY <1>0, <1>4 DEF put_leave, leave_monitor
<1>5. CASE put_broadcast(p)
  BY <1>0, <1>5 DEF put_broadcast, broadcast_monitor_condition
<1>6. CASE put_return(p)
  BY <1>0, <1>6 DEF put_return
<1>7. CASE \E pat \in PeekArgs[p] : peek_tuple(p, pat)
  BY <1>0, <1>7 DEF peek_tuple
<1>8. CASE get_enter(p)
  BY <1>0, <1>8 DEF get_enter, enter_monitor
<1>9. CASE get_found(p)
  BY <1>0, <1>9 DEF get_found, signal_monitor_condition
<1>10. CASE get_wait(p)
  BY <1>0, <1>10 DEF get_wait, wait_on_monitor_condition
<1>11. CASE get_leave(p)
  BY <1>0, <1>11 DEF get_leave, leave_monitor
<1>12. CASE monitor_step(p)
  <2>1. MonitorStep(p) /\ UNCHANGED bvars
    BY <1>12 DEF monitor_step
  <2>2. \A q \in Procs \ {p} : mpc'[q] = mpc[q]
    BY <2>1, Footprint DEF Library
  <2>3. mpc'[p] \notin Gone => CallsMonitorAt(p)'
    BY <2>1, MonitorStepStays
  <2>4. \A q \in Procs \ {p} : mpc'[q] \notin Gone => CallsMonitorAt(q)'
    BY <2>1, <2>2
  <2> QED
    BY <2>1, <2>3, <2>4
<1>13. CASE main_returns(p) \/ dies(p)
  BY <1>0, <1>13 DEF main_returns, dies, exit, kill, semop_error, terminate
<1> QED
  BY <1>1, <1>2, <1>3, <1>4, <1>5, <1>6, <1>7, <1>8, <1>9, <1>10, <1>11,
     <1>12, <1>13 DEF Step, Run, PutStep, GetStep

(* BucketTypeInv is an invariant.                                          *)
THEOREM BucketTypeInvariant == Spec => []BucketTypeInv
<1>1. Init => BucketTypeInv
  BY BucketAssumption DEF Init, MonitorInit, BucketTypeInv, BucketTypeOK,
     PusherHasTuple, CallsMonitorAt, Locations
<1>2. LockInv /\ BucketTypeInv /\ [Next]_vars => BucketTypeInv'
  <2>1. CASE UNCHANGED vars
    BY <2>1 DEF vars, bvars, mvars, BucketTypeInv, BucketTypeOK,
                PusherHasTuple, CallsMonitorAt
  <2>2. CASE Next
    BY <2>2, BucketTypeStep DEF Next, Step, LockInv
  <2> QED
    BY <2>1, <2>2
<1> QED
  BY <1>1, <1>2, BucketMonitorInv, PTL DEF Spec

(* The types of the bucket, and how its processes call the monitor: wait   *)
(* and signal inside it, broadcast outside.                                *)
THEOREM BucketTypes == Spec => []BucketTypeOK
<1>1. BucketTypeInv => BucketTypeOK
  BY DEF BucketTypeInv
<1> QED
  BY <1>1, BucketTypeInvariant, PTL

-----------------------------------------------------------------------------
(***************************************************************************)
(* No reader sleeps through its tuple, as long as the tickets do not wrap  *)
(* around (2^32 waits on one bucket).                                      *)
(***************************************************************************)
NoWrap == waitIndex < UIntMax

(* p has scanned the list in vain and is still in the monitor.             *)
Registering(p) ==
  pc[p] = "scan" /\ mpc[p] \in {"waitExcl", "waitCount", "waitTicket"}

(* p has its ticket, which has not been woken.                             *)
HasAsleepTicket(p) == pc[p] = "scan" /\ HasTicket(p) /\ wakeIndex < index[p]

TicketInv ==
  /\ wakeIndex <= waitIndex
  /\ \A p \in Procs : HasTicket(p) => index[p] <= waitIndex

SleepInv ==
  \A p \in Procs :
    /\ Registering(p) => Matching(pattern[p]) = {}
    /\ HasAsleepTicket(p) /\ Matching(pattern[p]) # {}
         => \E q \in Procs : AboutToWake(q)

WakeInv == NobodyDied => TicketInv /\ SleepInv

(* No ticket is woken before it is taken, and wakeIndex never goes back.   *)
LEMMA TicketStep ==
  ASSUME LockInv, AccountInv, NoWrap, TicketInv, NobodyDied, NobodyDied',
         NEW p \in Procs, Library(p)
  PROVE  TicketInv' /\ wakeIndex <= wakeIndex'
<1>0. /\ MonitorTypeOK /\ UIntMax \in Nat
      /\ waitIndex \in 0..UIntMax /\ wakeIndex \in 0..UIntMax
      /\ waitingCount \in 0..UIntMax
      /\ index \in [Procs -> 0..UIntMax]
  BY MonitorAssumption DEF LockInv, MonitorTypeOK
<1>1. CASE wait_take_ticket(p)
  <2>1. waitIndex' = waitIndex + 1 /\ wakeIndex' = wakeIndex
    BY <1>0, <1>1 DEF wait_take_ticket, UInc, NoWrap
  <2>2. index'[p] = waitIndex'
    BY <1>0, <1>1 DEF wait_take_ticket
  <2>3. \A q \in Procs \ {p} : HasTicket(q)' => index'[q] <= waitIndex'
    BY <1>0, <2>1, Footprint DEF TicketInv, HasTicket
  <2> QED
    BY <1>0, <2>1, <2>2, <2>3 DEF TicketInv
<1>2. CASE ~wait_take_ticket(p)
  <2>1. wakeIndex <= wakeIndex' /\ wakeIndex' <= waitIndex' /\ waitIndex' = waitIndex
    <3>1. CASE signal_test(p)
      <4>1. waitingCount = TicketsAhead
        BY <1>0, <3>1 DEF AccountInv, Account, signal_test
      <4> QED
        BY <1>0, <3>1, <4>1 DEF signal_test, TicketsAhead, TicketInv, UInc
    <3>2. CASE broadcast_wake(p)
      BY <1>0, <3>2 DEF broadcast_wake, TicketInv
    <3> QED
      BY <1>0, <1>2, <3>1, <3>2, Footprint DEF TicketInv
  <2>2. ASSUME NEW q \in Procs, HasTicket(q)' PROVE index'[q] <= waitIndex'
    <3>1. HasTicket(q) /\ index'[q] = index[q]
      BY <1>0, <1>2, <2>2, Footprint DEF HasTicket
    <3> QED
      BY <2>1, <3>1 DEF TicketInv
  <2> QED
    BY <2>1, <2>2 DEF TicketInv
<1> QED
  BY <1>1, <1>2

(* A step of anybody that leaves list and p's own place alone.             *)
LEMMA PatternStays ==
  ASSUME BucketTypeOK, NEW q \in Procs, Step(q), NEW p \in Procs
  PROVE  /\ p # q => pc'[p] = pc[p] /\ pattern'[p] = pattern[p]
         /\ pc'[p] = "scan" /\ pc[p] = "scan" => pattern'[p] = pattern[p]
         /\ list' = list \/ insert_link(q)
BY DEF BucketTypeOK, Step, Run, PutStep, GetStep, push_tuple, insert_enter,
       insert_link, put_leave, put_broadcast, put_return, peek_tuple,
       get_enter, get_found, get_wait, get_leave, monitor_step, main_returns,
       dies, move, bvars

(* A pusher that has linked its tuple stays about to wake the sleepers     *)
(* until it does.                                                          *)
LEMMA AboutToWakeStep ==
  ASSUME MonitorTypeOK, BucketTypeOK, NobodyDied, NobodyDied',
         NEW q \in Procs, Step(q), AboutToWake(q)
  PROVE  AboutToWake(q)' \/ broadcast_wake(q)
<1> USE DEF AboutToWake, MonitorTypeOK, BucketTypeOK, goto, move, begin_call
<1>1. pc[q] \in {"leave", "broadcast", "pushed"} /\ mpc[q] \notin Gone
  <2>1. CASE Library(q)
    BY <2>1, Footprint
  <2>2. CASE UNCHANGED mvars /\ ~Library(q)
    <3>1. CASE PutStep(q) \/ GetStep(q)
      BY <2>2, <3>1 DEF PutStep, push_tuple, insert_enter, insert_link,
           put_leave, put_broadcast, put_return, GetStep, peek_tuple,
           get_enter, get_found, get_wait, get_leave, Library, Call, Gone
    <3>2. CASE ~PutStep(q) /\ ~GetStep(q)
      BY <2>2, <3>2 DEF Step, Run, monitor_step, main_returns, dies, Library, End
    <3> QED
      BY <3>1, <3>2
  <2> QED
    BY <2>1, <2>2, StepIsLibraryStep
<1>2. CASE PutStep(q)
  BY <1>1, <1>2 DEF PutStep, push_tuple, insert_enter, insert_link, put_leave,
       put_broadcast, put_return, broadcast_monitor_condition, CallsMonitorAt,
       mvars
<1>3. CASE GetStep(q)
  BY <1>1, <1>3 DEF GetStep, peek_tuple, get_enter, get_found, get_wait, get_leave
<1>4. CASE monitor_step(q)
  <2>1. CASE broadcast_acquire_excl(q)
    BY <1>1, <1>4, <2>1 DEF monitor_step, broadcast_acquire_excl, bvars
  <2>2. CASE BroadcastStep(q) /\ ~broadcast_acquire_excl(q) /\ ~broadcast_wake(q)
    BY <1>1, <1>4, <2>2 DEF CallsMonitorAt, BroadcastStep, broadcast_post,
         broadcast_posted, broadcast_loop, broadcast_acquire_hand,
         broadcast_release_excl
  <2>3. CASE WaitStep(q) \/ SignalStep(q)
    BY <1>1, <2>3 DEF CallsMonitorAt, BroadcastLabels, WaitStep,
         wait_acquire_excl, wait_count, wait_take_ticket, wait_release_excl,
         wait_leave_monitor, wait_test, wait_acquire_cond, wait_release_hand,
         wait_enter_monitor, SignalStep, signal_acquire_excl, signal_test,
         signal_post, signal_posted, signal_acquire_hand, signal_release_excl
  <2> QED
    BY <1>4, <2>1, <2>2, <2>3 DEF monitor_step, MonitorStep
<1>5. CASE main_returns(q) \/ dies(q)
  BY <1>1, <1>5 DEF main_returns, dies, kill, semop_error, terminate, NobodyDied
<1> QED
  BY <1>2, <1>3, <1>4, <1>5 DEF Step, Run

(* How p gets into wait.                                                   *)
LEMMA RegisteringStep ==
  ASSUME MonitorTypeOK, BucketTypeOK, NEW q \in Procs, Step(q), NEW p \in Procs,
         pc'[p] = "scan", mpc'[p] \in WaitLabels
  PROVE  /\ pc[p] = "scan"
         /\ Registering(p)' => Registering(p) \/ get_wait(p)
<1> USE DEF MonitorTypeOK, BucketTypeOK, goto, move, WaitLabels
<1>1. CASE p # q
  BY <1>1, PatternStays, StepIsLibraryStep, Footprint DEF Registering, mvars
<1>2. CASE p = q /\ PutStep(q)
  BY <1>2 DEF PutStep, push_tuple, insert_enter, insert_link, put_leave,
       put_broadcast, put_return, begin_call, mvars, Registering
<1>3. CASE p = q /\ GetStep(q)
  BY <1>3 DEF GetStep, peek_tuple, get_enter, get_found, get_wait, get_leave,
       enter_monitor, Registering
<1>4. CASE p = q /\ monitor_step(q)
  <2>1. pc[p] = "scan"
    BY <1>4 DEF monitor_step, bvars
  <2>2. CASE WaitStep(q)
    BY <1>4, <2>1, <2>2 DEF Registering, WaitStep, wait_acquire_excl,
         wait_count, wait_take_ticket, wait_release_excl, wait_leave_monitor,
         wait_test, wait_acquire_cond, wait_release_hand, wait_enter_monitor
  <2> QED
    BY <1>4, <2>1, <2>2, MonitorStepStays
       DEF monitor_step, MonitorStep, WaitStep, SignalLabels, BroadcastLabels,
           SignalStep, signal_acquire_excl, signal_test, signal_post,
           signal_posted, signal_acquire_hand, signal_release_excl,
           BroadcastStep, broadcast_acquire_excl, broadcast_wake,
           broadcast_post, broadcast_posted, broadcast_loop,
           broadcast_acquire_hand, broadcast_release_excl
<1>5. CASE p = q /\ (main_returns(q) \/ dies(q))
  BY <1>5 DEF main_returns, exit, dies, kill, semop_error, terminate
<1> QED
  BY <1>1, <1>2, <1>3, <1>4, <1>5 DEF Step, Run

LEMMA SleepStep ==
  ASSUME LockInv, AccountInv, BucketTypeInv, NoWrap, TicketInv, SleepInv,
         NobodyDied, NobodyDied', NEW q \in Procs, Step(q),
         wakeIndex <= wakeIndex'
  PROVE  SleepInv'
<1>0. /\ MonitorTypeOK /\ BucketTypeOK /\ MutualExclusion
      /\ wakeIndex \in Nat /\ wakeIndex' \in Nat /\ waitIndex \in Nat
      /\ \A p \in Procs : index[p] \in Nat
  <2>1. LockInv'
    BY LockInvStep, LockInvStutter, StepIsLibraryStep
  <2> QED
    BY <2>1, LockInvImplies, MonitorAssumption
       DEF BucketTypeInv, LockInv, MonitorTypeOK
<1>1. ASSUME NEW p \in Procs, Registering(p)'
      PROVE  Matching(pattern[p])' = {}
  <2>1. /\ pc[p] = "scan" /\ pattern'[p] = pattern[p]
        /\ Registering(p) \/ get_wait(p)
    BY <1>0, <1>1, RegisteringStep, PatternStays DEF Registering, WaitLabels
  <2>2. Matching(pattern[p]) = {}
    BY <2>1 DEF SleepInv, get_wait
  <2>3. list' = list
    <3>1. SUFFICES ASSUME insert_link(q) PROVE FALSE
      BY <1>0, PatternStays
    <3>2. InMonitor(p) /\ pc[p] = "scan"
      BY <2>1 DEF Registering, get_wait, wait_on_monitor_condition,
                  InMonitor, InMonitorLabels
    <3>3. InMonitor(q) /\ pc[q] = "link"
      BY <3>1 DEF insert_link, move, InMonitor, InMonitorLabels
    <3> QED
      BY <1>0, <3>2, <3>3 DEF MutualExclusion
  <2> QED
    BY <2>1, <2>2, <2>3 DEF Matching
<1>2. ASSUME NEW p \in Procs, HasAsleepTicket(p)', Matching(pattern[p])' # {}
      PROVE  \E r \in Procs : AboutToWake(r)'
  <2>1. CASE insert_link(q)
    BY <1>0, <2>1 DEF insert_link, move, AboutToWake, BucketTypeOK
  <2>2. CASE ~insert_link(q)
    <3>1. /\ pc[p] = "scan" /\ pattern'[p] = pattern[p] /\ list' = list
      BY <1>0, <1>2, <2>2, RegisteringStep, PatternStays
         DEF HasAsleepTicket, HasTicket, WaitLabels
    <3>2. Matching(pattern[p]) # {}
      BY <1>2, <3>1 DEF Matching
    <3>3. ~wait_take_ticket(p)
      BY <3>1, <3>2 DEF wait_take_ticket, SleepInv, Registering
    <3>4. HasTicket(p) /\ index'[p] = index[p]
      BY <1>0, <1>2, <3>3, StepIsLibraryStep, Footprint
         DEF HasAsleepTicket, HasTicket, mvars
    <3>5. HasAsleepTicket(p)
      BY <1>0, <1>2, <3>1, <3>4 DEF HasAsleepTicket
    <3>6. PICK r \in Procs : AboutToWake(r)
      BY <3>2, <3>5 DEF SleepInv
    <3>7. CASE r # q
      BY <1>0, <3>6, <3>7, PatternStays, StepIsLibraryStep, Footprint
         DEF AboutToWake, mvars
    <3>8. CASE r = q
      <4>1. ~broadcast_wake(q)
        BY <1>0, <1>2, <3>4 DEF broadcast_wake, HasAsleepTicket, TicketInv
      <4> QED
        BY <1>0, <3>6, <3>8, <4>1, AboutToWakeStep
    <3> QED
      BY <3>7, <3>8
  <2> QED
    BY <2>1, <2>2
<1> QED
  BY <1>1, <1>2 DEF SleepInv

LEMMA WakeStep ==
  ASSUME LockInv, AccountInv, BucketTypeInv, WakeInv, NoWrap,
         NEW q \in Procs, Step(q)
  PROVE  WakeInv'
<1>1. SUFFICES ASSUME NobodyDied' PROVE TicketInv' /\ SleepInv'
  BY DEF WakeInv
<1>2. NobodyDied /\ TicketInv /\ SleepInv
  BY <1>1, StepIsLibraryStep, DeadStayDead DEF WakeInv, LockInv, NobodyDied, mvars
<1>3. TicketInv' /\ wakeIndex <= wakeIndex'
  <2>1. CASE Library(q)
    BY <1>1, <1>2, <2>1, TicketStep
  <2>2. CASE UNCHANGED mvars
    BY <1>2, <2>2, MonitorAssumption
       DEF mvars, TicketInv, HasTicket, LockInv, MonitorTypeOK
  <2> QED
    BY <2>1, <2>2, StepIsLibraryStep
<1> QED
  BY <1>1, <1>2, <1>3, SleepStep

(* No reader sleeps through the tuple it wants, for any number of          *)
(* processes, tuples and patterns, as long as fewer than 2^32 tickets have *)
(* been taken and no process has died.                                     *)
THEOREM BucketNoLostTuple == Spec /\ []NoWrap => []NoLostTuple
<1>1. Init => WakeInv
  BY DEF Init, MonitorInit, WakeInv, TicketInv, SleepInv, HasTicket,
         Registering, HasAsleepTicket
<1>2. LockInv /\ AccountInv /\ BucketTypeInv /\ WakeInv /\ NoWrap /\ [Next]_vars
        => WakeInv'
  <2>1. CASE UNCHANGED vars
    BY <2>1 DEF vars, bvars, mvars, WakeInv, TicketInv, SleepInv, NobodyDied,
         HasTicket, Registering, HasAsleepTicket, Matching, AboutToWake
  <2>2. CASE Next
    BY <2>2, WakeStep DEF Next, Step
  <2> QED
    BY <2>1, <2>2
<1>3. WakeInv => NoLostTuple
  BY DEF WakeInv, SleepInv, NoLostTuple, Asleep, Registering, HasAsleepTicket
<1> QED
  BY <1>1, <1>2, <1>3, BucketMonitorInv, BucketTypeInvariant, PTL DEF Spec

=============================================================================
