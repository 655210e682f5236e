---------------------------- MODULE LifecycleProofs ----------------------------
(***************************************************************************)
(* Proofs about module Lifecycle, for every set of guests, whether or not  *)
(* the host may be killed.                                                 *)
(***************************************************************************)
EXTENDS Lifecycle, TLAPS

FileStates == {"absent", "old", "empty", "handle"}
HostLabels == InitLabels \cup FreeLabels \cup Gone
Semops == [sem : BucketSems, acquires : BOOLEAN]

TypeInv ==
  /\ LifecycleTypeOK
  /\ pc \in [Procs -> HostLabels \cup GuestLabels]
  /\ attached \in [Segments -> SUBSET Procs]
  /\ made \in BOOLEAN /\ pushed \in BOOLEAN
  /\ marked \subseteq Segments
  /\ start \in {"null", "space"}
  /\ handle \in [Guests -> FileStates \cup {"none"}]
  /\ todo \in [Guests -> Seq(Semops)]

(* Who is attached, by where it is: the host, and a guest to the fixed     *)
(* memory.                                                                 *)
HostAttached(seg) ==
  \/ pc[Host] \in (InitLabels \ {"new", "map"}) \cup (FreeLabels \ {"unmapFixed"})
  \/ seg = "fixed" /\ pc[Host] = "unmapFixed"

AttachedInv ==
  /\ \A seg \in Segments : Host \in attached[seg] <=> HostAttached(seg)
  /\ \A g \in Guests :
       g \in attached["fixed"] <=>
         pc[g] \in {"mapAlloc", "getStart", "unmapAlloc", "unmapFixed"} \cup PeekLabels

(* What the host has prepared, by where it is.                             *)
Published == {"serve"} \cup FreeLabels \cup Gone

HostInv ==
  /\ pc[Host] \in InitLabels \cup FreeLabels => made = (pc[Host] # "new")
  /\ pc[Host] = "markAlloc" => "fixed" \in marked
  /\ pc[Host] \in {"createSems", "setStart", "open", "write", "serve"} \cup FreeLabels
       => marked = Segments
  /\ pc[Host] \in {"open", "write", "serve"} => start = "space"
  /\ pc[Host] \in {"map", "markFixed", "markAlloc", "createSems", "clearStart", "destroyHeap"}
       => sems = {"heap"}
  /\ pc[Host] \in {"setStart", "open", "write", "serve", "cond"}
       => sems = BucketSems \cup {"heap"}
  /\ pc[Host] = "excl" => sems = {"excl", "hand", "mon", "heap"}
  /\ pc[Host] = "hand" => sems = {"hand", "mon", "heap"}
  /\ pc[Host] = "mon" => sems = {"mon", "heap"}
  /\ pc[Host] \in {"unmapAlloc", "unmapFixed", "ended"} => sems = {}

(* The handle is known only when the space is ready.                       *)
HandleInv ==
  /\ file = "handle" => pc[Host] \in Published /\ marked = Segments
  /\ \A g \in Guests : handle[g] = "handle" => pc[Host] \in Published

(* The inductive invariant.                                                *)
LifecycleInv ==
  TypeInv /\ AttachedInv /\ HostInv /\ HandleInv /\ GuestsFailOnlyWithoutHost


-----------------------------------------------------------------------------
(* A process that dies keeps the types and is attached to nothing.         *)
LEMMA DiesKeeps ==
  ASSUME TypeInv, NEW p \in Procs, NEW how \in {"failed", "crashed", "killed"},
         dies(p, how), UNCHANGED <<file, made, marked, sems, start, pushed, gvars>>
  PROVE  TypeInv' /\ (AttachedInv => AttachedInv')
<1> USE LifecycleAssumption DEF TypeInv, LifecycleTypeOK, Procs, Segments, gvars,
      Gone, InitLabels,
      FreeLabels, BucketSems, GuestLabels, PeekLabels, HostLabels, FileStates
<1>1. /\ pc' = [pc EXCEPT ![p] = how]
      /\ attached' = [seg \in Segments |-> attached[seg] \ {p}]
  BY DEF dies, detaches
<1>2. TypeInv'
  BY <1>1
<1>3. AttachedInv => AttachedInv'
  BY <1>1 DEF AttachedInv, HostAttached
<1> QED
  BY <1>2, <1>3

(* A peek goes from one label to the next, with semops to make.            *)
PeekStep(g) ==
  \/ peek_enter(g) \/ peek_found(g) \/ peek_waits(g)
  \/ wait_round(g) \/ wait_over(g) \/ free_guest(g)

PeekGoes(g, to) ==
  /\ pc[g] \in PeekLabels
  /\ pc' = [pc EXCEPT ![g] = to]
  /\ todo' \in [Guests -> Seq(Semops)]
  /\ UNCHANGED <<file, made, marked, attached, sems, start, pushed, handle>>

LEMMA GoesOn ==
  ASSUME TypeInv, NEW g \in Guests, NEW from \in PeekLabels, NEW to,
         NEW ops \in Seq(Semops), goesOn(g, from, to, ops)
  PROVE  PeekGoes(g, to)
BY DEF goesOn, move, PeekGoes, TypeInv, shm

LEMMA PeekMoves ==
  ASSUME TypeInv, NEW g \in Guests, PeekStep(g)
  PROVE  \E to \in PeekLabels \cup {"unmapAlloc"} : PeekGoes(g, to)
<1>1. /\ Enter \in Seq(Semops) /\ Register \in Seq(Semops) /\ Round \in Seq(Semops)
      /\ \A signal \in Signals : signal \o <<Release("mon")>> \in Seq(Semops)
      /\ <<>> \in Seq(Semops)
  <2>1. \A x \in BucketSems : Acquire(x) \in Semops /\ Release(x) \in Semops
    BY DEF Acquire, Release, Semops
  <2>2. /\ Acquire("mon") \in Semops /\ Acquire("excl") \in Semops
        /\ Acquire("cond") \in Semops /\ Acquire("hand") \in Semops
        /\ Release("mon") \in Semops /\ Release("excl") \in Semops
        /\ Release("cond") \in Semops /\ Release("hand") \in Semops
    BY <2>1 DEF BucketSems
  <2>3. \A signal \in Signals : signal \in Seq(Semops)
    <3>1. <<Acquire("excl"), Release("excl")>> \in Seq(Semops)
      BY <2>2
    <3>2. <<Acquire("excl"), Release("cond"), Acquire("hand"), Release("excl")>>
            \in Seq(Semops)
      BY <2>2
    <3> QED
      BY <3>1, <3>2 DEF Signals
  <2>4. <<Release("mon")>> \in Seq(Semops)
    BY <2>2
  <2>5. /\ Enter \in Seq(Semops) /\ Register \in Seq(Semops) /\ Round \in Seq(Semops)
        /\ <<>> \in Seq(Semops)
    BY <2>2 DEF Enter, Register, Round
  <2> QED
    BY <2>3, <2>4, <2>5
<1>2. {"peek", "scan", "loop", "found"} = PeekLabels
  BY DEF PeekLabels
<1>3. CASE peek_enter(g)
  BY <1>1, <1>2, <1>3, GoesOn DEF peek_enter
<1>4. CASE peek_found(g)
  <2>1. PICK signal \in Signals :
          goesOn(g, "scan", "found", signal \o <<Release("mon")>>)
    BY <1>4 DEF peek_found
  <2>2. PeekGoes(g, "found")
    BY <1>1, <1>2, <2>1, GoesOn
  <2> QED
    BY <1>2, <2>2
<1>5. CASE peek_waits(g)
  BY <1>1, <1>2, <1>5, GoesOn DEF peek_waits
<1>6. CASE wait_round(g)
  BY <1>1, <1>2, <1>6, GoesOn DEF wait_round
<1>7. CASE wait_over(g)
  BY <1>1, <1>2, <1>7, GoesOn DEF wait_over
<1>8. CASE free_guest(g)
  BY <1>1, <1>2, <1>8, GoesOn DEF free_guest
<1> QED
  BY <1>3, <1>4, <1>5, <1>6, <1>7, <1>8 DEF PeekStep

(* Types are kept.                                                         *)
LEMMA TypeStep ==
  ASSUME TypeInv, Next
  PROVE  TypeInv'
<1> USE LifecycleAssumption DEF Procs, Segments, shm, gvars, TypeInv,
      LifecycleTypeOK, InitLabels, FreeLabels, GuestLabels, PeekLabels, Gone, BucketSems,
      FileStates, HostLabels
<1>1. CASE create_fixed_shared_memory
  BY <1>1 DEF create_fixed_shared_memory, move
<1>2. CASE map_fixed_shared_memory
  BY <1>2 DEF map_fixed_shared_memory, move, attaches
<1>3. CASE mark_fixed_memory_for_deletion
  BY <1>3 DEF mark_fixed_memory_for_deletion, move
<1>4. CASE mark_allocation_segment_for_deletion
  BY <1>4 DEF mark_allocation_segment_for_deletion, move
<1>5. CASE initialize_tuple_space
  BY <1>5 DEF initialize_tuple_space, move
<1>6. CASE set_start_pointer
  BY <1>6 DEF set_start_pointer, move
<1>7. CASE open_handle_file
  BY <1>7 DEF open_handle_file, move
<1>8. CASE write_handle
  BY <1>8 DEF write_handle, move
<1>9. CASE push_tuple
  BY <1>9 DEF push_tuple, move
<1>10. CASE free_host_begins
  BY <1>10 DEF free_host_begins, move
<1>11. CASE destroy_bucket_semaphore
  <2>1. \A l \in BucketSems : NextToDestroy[l] \in FreeLabels
    BY DEF NextToDestroy
  <2>2. /\ pc[Host] \in BucketSems
        /\ pc' = [pc EXCEPT ![Host] = NextToDestroy[pc[Host]]]
        /\ sems' = sems \ {pc[Host]}
        /\ UNCHANGED <<file, shm, start, pushed, gvars>>
    BY <1>11 DEF destroy_bucket_semaphore, move
  <2> HIDE DEF BucketSems, FreeLabels
  <2> QED
    BY <2>1, <2>2
<1>12. CASE clear_start_pointer
  BY <1>12 DEF clear_start_pointer, move
<1>13. CASE destroy_heap_semaphore
  BY <1>13 DEF destroy_heap_semaphore, move
<1>14. CASE unmap_allocation_segment(Host)
  BY <1>14 DEF unmap_allocation_segment, move, detaches
<1>15. CASE unmap_fixed_shared_memory(Host)
  BY <1>15 DEF unmap_fixed_shared_memory, move, detaches
<1>16. CASE kill_host
  BY <1>16 DEF kill_host, dies, detaches
<1>17. ASSUME NEW g \in Guests, read_handle_from_file(g)
      PROVE  TypeInv'
  BY <1>17 DEF read_handle_from_file, move
<1>18. ASSUME NEW g \in Guests, guest_maps_fixed(g)
      PROVE  TypeInv'
  <2>1. CASE handle[g] = "handle" /\ Exists("fixed")
    <3>1. /\ pc[g] = "mapFixed" /\ pc' = [pc EXCEPT ![g] = "mapAlloc"]
          /\ attached' = [seg \in Segments |->
               IF seg = "fixed" THEN attached[seg] \cup {g} ELSE attached[seg]]
          /\ UNCHANGED <<file, made, marked, sems, start, pushed, gvars>>
      BY <1>18, <2>1 DEF guest_maps_fixed, move, attaches
    <3> QED
      BY <3>1
  <2>2. CASE ~ (handle[g] = "handle" /\ Exists("fixed"))
    BY <1>18, <2>2, DiesKeeps DEF guest_maps_fixed
  <2> QED
    BY <2>1, <2>2
<1>19. ASSUME NEW g \in Guests, guest_maps_segment(g)
      PROVE  TypeInv'
  <2>1. CASE Exists("alloc")
    <3>1. /\ pc[g] = "mapAlloc" /\ pc' = [pc EXCEPT ![g] = "getStart"]
          /\ attached' = [seg \in Segments |->
               IF seg = "alloc" THEN attached[seg] \cup {g} ELSE attached[seg]]
          /\ UNCHANGED <<file, made, marked, sems, start, pushed, gvars>>
      BY <1>19, <2>1 DEF guest_maps_segment, move, attaches
    <3> QED
      BY <3>1
  <2>2. CASE ~ Exists("alloc")
    BY <1>19, <2>2, DiesKeeps DEF guest_maps_segment
  <2> QED
    BY <2>1, <2>2
<1>20. ASSUME NEW g \in Guests, get_start_pointer(g)
      PROVE  TypeInv'
  <2>1. CASE start = "null"
    BY <1>20, <2>1, DiesKeeps DEF get_start_pointer
  <2>2. CASE start # "null"
    <3>1. /\ pc[g] = "getStart" /\ pc' = [pc EXCEPT ![g] = "peek"]
          /\ UNCHANGED <<file, shm, sems, start, pushed, gvars>>
      BY <1>20, <2>2 DEF get_start_pointer, move
    <3> QED
      BY <3>1
  <2> QED
    BY <2>1, <2>2
<1>21. ASSUME NEW g \in Guests, PeekStep(g)
      PROVE  TypeInv'
  <2>1. PICK to \in PeekLabels \cup {"unmapAlloc"} : PeekGoes(g, to)
    BY <1>21, PeekMoves
  <2> QED
    BY <2>1 DEF PeekGoes, PeekLabels
<1>22. ASSUME NEW g \in Guests, semop_returns(g)
      PROVE  TypeInv'
  <2>1. /\ todo' = [todo EXCEPT ![g] = Tail(todo[g])] /\ todo[g] # <<>>
        /\ UNCHANGED <<file, shm, sems, start, pushed, pc, handle>>
    BY <1>22 DEF semop_returns
  <2>2. Tail(todo[g]) \in Seq(Semops)
    BY <2>1
  <2> QED
    BY <2>1, <2>2
<1>23. ASSUME NEW g \in Guests, semop_fails(g)
      PROVE  TypeInv'
  BY <1>23, DiesKeeps DEF semop_fails
<1>26. ASSUME NEW g \in Guests, guest_maps_old(g)
      PROVE  TypeInv'
  BY <1>26 DEF guest_maps_old, move
<1>24. ASSUME NEW g \in Guests, unmap_allocation_segment(g)
      PROVE  TypeInv'
  BY <1>24 DEF unmap_allocation_segment, move, detaches
<1>25. ASSUME NEW g \in Guests, unmap_fixed_shared_memory(g)
      PROVE  TypeInv'
  BY <1>25 DEF unmap_fixed_shared_memory, move, detaches
<1> QED
  BY <1>1, <1>2, <1>3, <1>4, <1>5, <1>6, <1>7, <1>8, <1>9, <1>10, <1>11, <1>12,
     <1>13, <1>14, <1>15, <1>16, <1>17, <1>18, <1>19, <1>20, <1>21, <1>22, <1>23,
     <1>24, <1>25, <1>26 DEF Next, HostStep, GuestStep, PeekStep

(* A process is attached exactly where its label says.                     *)
LEMMA AttachedStep ==
  ASSUME TypeInv, AttachedInv, Next
  PROVE  AttachedInv'
<1> USE LifecycleAssumption DEF Procs, Segments, shm, gvars, AttachedInv,
      HostAttached, TypeInv, InitLabels, FreeLabels, PeekLabels, Gone, BucketSems
<1>1. CASE create_fixed_shared_memory
  BY <1>1 DEF create_fixed_shared_memory, move
<1>2. CASE map_fixed_shared_memory
  BY <1>2 DEF map_fixed_shared_memory, move, attaches
<1>3. CASE mark_fixed_memory_for_deletion
  BY <1>3 DEF mark_fixed_memory_for_deletion, move
<1>4. CASE mark_allocation_segment_for_deletion
  BY <1>4 DEF mark_allocation_segment_for_deletion, move
<1>5. CASE initialize_tuple_space
  BY <1>5 DEF initialize_tuple_space, move
<1>6. CASE set_start_pointer
  BY <1>6 DEF set_start_pointer, move
<1>7. CASE open_handle_file
  BY <1>7 DEF open_handle_file, move
<1>8. CASE write_handle
  BY <1>8 DEF write_handle, move
<1>9. CASE push_tuple
  BY <1>9 DEF push_tuple, move
<1>10. CASE free_host_begins
  BY <1>10 DEF free_host_begins, move
<1>11. CASE destroy_bucket_semaphore
  BY <1>11 DEF destroy_bucket_semaphore, move, NextToDestroy, BucketSems
<1>12. CASE clear_start_pointer
  BY <1>12 DEF clear_start_pointer, move
<1>13. CASE destroy_heap_semaphore
  BY <1>13 DEF destroy_heap_semaphore, move
<1>14. CASE unmap_allocation_segment(Host)
  BY <1>14 DEF unmap_allocation_segment, move, detaches
<1>15. CASE unmap_fixed_shared_memory(Host)
  BY <1>15 DEF unmap_fixed_shared_memory, move, detaches
<1>16. CASE kill_host
  BY <1>16 DEF kill_host, dies, detaches
<1>17. ASSUME NEW g \in Guests, read_handle_from_file(g)
      PROVE  AttachedInv'
  BY <1>17 DEF read_handle_from_file, move
<1>18. ASSUME NEW g \in Guests, guest_maps_fixed(g)
      PROVE  AttachedInv'
  <2>1. CASE handle[g] = "handle" /\ Exists("fixed")
    <3>1. /\ pc[g] = "mapFixed" /\ pc' = [pc EXCEPT ![g] = "mapAlloc"]
          /\ attached' = [seg \in Segments |->
               IF seg = "fixed" THEN attached[seg] \cup {g} ELSE attached[seg]]
      BY <1>18, <2>1 DEF guest_maps_fixed, move, attaches
    <3> QED
      BY <3>1
  <2>2. CASE ~ (handle[g] = "handle" /\ Exists("fixed"))
    BY <1>18, <2>2, DiesKeeps DEF guest_maps_fixed
  <2> QED
    BY <2>1, <2>2
<1>19. ASSUME NEW g \in Guests, guest_maps_segment(g)
      PROVE  AttachedInv'
  <2>1. CASE Exists("alloc")
    <3>1. /\ pc[g] = "mapAlloc" /\ pc' = [pc EXCEPT ![g] = "getStart"]
          /\ attached' = [seg \in Segments |->
               IF seg = "alloc" THEN attached[seg] \cup {g} ELSE attached[seg]]
      BY <1>19, <2>1 DEF guest_maps_segment, move, attaches
    <3> QED
      BY <3>1
  <2>2. CASE ~ Exists("alloc")
    BY <1>19, <2>2, DiesKeeps DEF guest_maps_segment
  <2> QED
    BY <2>1, <2>2
<1>20. ASSUME NEW g \in Guests, get_start_pointer(g)
      PROVE  AttachedInv'
  <2>1. CASE start = "null"
    BY <1>20, <2>1, DiesKeeps DEF get_start_pointer
  <2>2. CASE start # "null"
    BY <1>20, <2>2 DEF get_start_pointer, move
  <2> QED
    BY <2>1, <2>2
<1>21. ASSUME NEW g \in Guests, PeekStep(g)
      PROVE  AttachedInv'
  <2>1. PICK to \in PeekLabels \cup {"unmapAlloc"} : PeekGoes(g, to)
    BY <1>21, PeekMoves
  <2> QED
    BY <2>1 DEF PeekGoes, PeekLabels
<1>22. ASSUME NEW g \in Guests, semop_returns(g)
      PROVE  AttachedInv'
  BY <1>22 DEF semop_returns
<1>23. ASSUME NEW g \in Guests, semop_fails(g)
      PROVE  AttachedInv'
  BY <1>23, DiesKeeps DEF semop_fails
<1>26. ASSUME NEW g \in Guests, guest_maps_old(g)
      PROVE  AttachedInv'
  BY <1>26 DEF guest_maps_old, move
<1>24. ASSUME NEW g \in Guests, unmap_allocation_segment(g)
      PROVE  AttachedInv'
  BY <1>24 DEF unmap_allocation_segment, move, detaches
<1>25. ASSUME NEW g \in Guests, unmap_fixed_shared_memory(g)
      PROVE  AttachedInv'
  BY <1>25 DEF unmap_fixed_shared_memory, move, detaches
<1> QED
  BY <1>1, <1>2, <1>3, <1>4, <1>5, <1>6, <1>7, <1>8, <1>9, <1>10, <1>11, <1>12,
     <1>13, <1>14, <1>15, <1>16, <1>17, <1>18, <1>19, <1>20, <1>21, <1>22, <1>23,
     <1>24, <1>25, <1>26 DEF Next, HostStep, GuestStep, PeekStep

(* The host builds up and takes down in order.                             *)
LEMMA HostStepKeeps ==
  ASSUME TypeInv, HostInv, Next
  PROVE  HostInv'
<1> USE LifecycleAssumption DEF Procs, Segments, shm, gvars, HostInv, InitLabels,
      FreeLabels, Gone, BucketSems, TypeInv
<1>1. CASE create_fixed_shared_memory
  BY <1>1 DEF create_fixed_shared_memory, move
<1>2. CASE map_fixed_shared_memory
  BY <1>2 DEF map_fixed_shared_memory, move, attaches
<1>3. CASE mark_fixed_memory_for_deletion
  BY <1>3 DEF mark_fixed_memory_for_deletion, move
<1>4. CASE mark_allocation_segment_for_deletion
  <2>1. /\ pc[Host] = "markAlloc" /\ pc' = [pc EXCEPT ![Host] = "createSems"]
        /\ marked' = marked \cup {"alloc"} /\ UNCHANGED <<made, sems, start>>
    BY <1>4 DEF mark_allocation_segment_for_deletion, move
  <2>2. marked' = Segments
    BY <2>1
  <2> QED
    BY <2>1, <2>2
<1>5. CASE initialize_tuple_space
  BY <1>5 DEF initialize_tuple_space, move
<1>6. CASE set_start_pointer
  BY <1>6 DEF set_start_pointer, move
<1>7. CASE open_handle_file
  BY <1>7 DEF open_handle_file, move
<1>8. CASE write_handle
  BY <1>8 DEF write_handle, move
<1>9. CASE push_tuple
  BY <1>9 DEF push_tuple, move
<1>10. CASE free_host_begins
  BY <1>10 DEF free_host_begins, move
<1>11. CASE destroy_bucket_semaphore
  BY <1>11 DEF destroy_bucket_semaphore, move, NextToDestroy, BucketSems
<1>12. CASE clear_start_pointer
  BY <1>12 DEF clear_start_pointer, move
<1>13. CASE destroy_heap_semaphore
  BY <1>13 DEF destroy_heap_semaphore, move
<1>14. CASE unmap_allocation_segment(Host)
  BY <1>14 DEF unmap_allocation_segment, move, detaches
<1>15. CASE unmap_fixed_shared_memory(Host)
  BY <1>15 DEF unmap_fixed_shared_memory, move, detaches
<1>16. CASE kill_host
  BY <1>16 DEF kill_host, dies, detaches
<1>17. ASSUME NEW g \in Guests, read_handle_from_file(g)
      PROVE  HostInv'
  BY <1>17 DEF read_handle_from_file, move
<1>18. ASSUME NEW g \in Guests, guest_maps_fixed(g)
      PROVE  HostInv'
  BY <1>18 DEF guest_maps_fixed, move, attaches, dies, detaches
<1>19. ASSUME NEW g \in Guests, guest_maps_segment(g)
      PROVE  HostInv'
  BY <1>19 DEF guest_maps_segment, move, attaches, dies, detaches
<1>20. ASSUME NEW g \in Guests, get_start_pointer(g)
      PROVE  HostInv'
  BY <1>20 DEF get_start_pointer, move, dies, detaches
<1>21. ASSUME NEW g \in Guests, PeekStep(g)
      PROVE  HostInv'
  <2>1. PICK to \in PeekLabels \cup {"unmapAlloc"} : PeekGoes(g, to)
    BY <1>21, PeekMoves
  <2> QED
    BY <2>1 DEF PeekGoes, PeekLabels
<1>22. ASSUME NEW g \in Guests, semop_returns(g)
      PROVE  HostInv'
  BY <1>22 DEF semop_returns
<1>23. ASSUME NEW g \in Guests, semop_fails(g)
      PROVE  HostInv'
  BY <1>23 DEF semop_fails, dies, detaches
<1>26. ASSUME NEW g \in Guests, guest_maps_old(g)
      PROVE  HostInv'
  BY <1>26 DEF guest_maps_old, move
<1>24. ASSUME NEW g \in Guests, unmap_allocation_segment(g)
      PROVE  HostInv'
  BY <1>24 DEF unmap_allocation_segment, move, detaches
<1>25. ASSUME NEW g \in Guests, unmap_fixed_shared_memory(g)
      PROVE  HostInv'
  BY <1>25 DEF unmap_fixed_shared_memory, move, detaches
<1> QED
  BY <1>1, <1>2, <1>3, <1>4, <1>5, <1>6, <1>7, <1>8, <1>9, <1>10, <1>11, <1>12,
     <1>13, <1>14, <1>15, <1>16, <1>17, <1>18, <1>19, <1>20, <1>21, <1>22, <1>23,
     <1>24, <1>25, <1>26 DEF Next, HostStep, GuestStep, PeekStep

(* The handle is known only when the space is ready.                       *)
LEMMA HandleStep ==
  ASSUME TypeInv, HostInv, HandleInv, Next
  PROVE  HandleInv'
<1> USE LifecycleAssumption DEF Procs, Segments, shm, gvars, HandleInv,
      Published, HostInv, InitLabels, FreeLabels, Gone, BucketSems, TypeInv
<1>1. CASE create_fixed_shared_memory
  BY <1>1 DEF create_fixed_shared_memory, move
<1>2. CASE map_fixed_shared_memory
  BY <1>2 DEF map_fixed_shared_memory, move, attaches
<1>3. CASE mark_fixed_memory_for_deletion
  BY <1>3 DEF mark_fixed_memory_for_deletion, move
<1>4. CASE mark_allocation_segment_for_deletion
  BY <1>4 DEF mark_allocation_segment_for_deletion, move
<1>5. CASE initialize_tuple_space
  BY <1>5 DEF initialize_tuple_space, move
<1>6. CASE set_start_pointer
  BY <1>6 DEF set_start_pointer, move
<1>7. CASE open_handle_file
  BY <1>7 DEF open_handle_file, move
<1>8. CASE write_handle
  BY <1>8 DEF write_handle, move
<1>9. CASE push_tuple
  BY <1>9 DEF push_tuple, move
<1>10. CASE free_host_begins
  BY <1>10 DEF free_host_begins, move
<1>11. CASE destroy_bucket_semaphore
  BY <1>11 DEF destroy_bucket_semaphore, move, NextToDestroy, BucketSems
<1>12. CASE clear_start_pointer
  BY <1>12 DEF clear_start_pointer, move
<1>13. CASE destroy_heap_semaphore
  BY <1>13 DEF destroy_heap_semaphore, move
<1>14. CASE unmap_allocation_segment(Host)
  BY <1>14 DEF unmap_allocation_segment, move, detaches
<1>15. CASE unmap_fixed_shared_memory(Host)
  BY <1>15 DEF unmap_fixed_shared_memory, move, detaches
<1>16. CASE kill_host
  BY <1>16 DEF kill_host, dies, detaches
<1>17. ASSUME NEW g \in Guests, read_handle_from_file(g)
      PROVE  HandleInv'
  BY <1>17 DEF read_handle_from_file, move
<1>18. ASSUME NEW g \in Guests, guest_maps_fixed(g)
      PROVE  HandleInv'
  BY <1>18 DEF guest_maps_fixed, move, attaches, dies, detaches
<1>19. ASSUME NEW g \in Guests, guest_maps_segment(g)
      PROVE  HandleInv'
  BY <1>19 DEF guest_maps_segment, move, attaches, dies, detaches
<1>20. ASSUME NEW g \in Guests, get_start_pointer(g)
      PROVE  HandleInv'
  BY <1>20 DEF get_start_pointer, move, dies, detaches
<1>21. ASSUME NEW g \in Guests, PeekStep(g)
      PROVE  HandleInv'
  <2>1. PICK to \in PeekLabels \cup {"unmapAlloc"} : PeekGoes(g, to)
    BY <1>21, PeekMoves
  <2> QED
    BY <2>1 DEF PeekGoes, PeekLabels
<1>22. ASSUME NEW g \in Guests, semop_returns(g)
      PROVE  HandleInv'
  BY <1>22 DEF semop_returns
<1>23. ASSUME NEW g \in Guests, semop_fails(g)
      PROVE  HandleInv'
  BY <1>23 DEF semop_fails, dies, detaches
<1>26. ASSUME NEW g \in Guests, guest_maps_old(g)
      PROVE  HandleInv'
  BY <1>26 DEF guest_maps_old, move
<1>24. ASSUME NEW g \in Guests, unmap_allocation_segment(g)
      PROVE  HandleInv'
  BY <1>24 DEF unmap_allocation_segment, move, detaches
<1>25. ASSUME NEW g \in Guests, unmap_fixed_shared_memory(g)
      PROVE  HandleInv'
  BY <1>25 DEF unmap_fixed_shared_memory, move, detaches
<1> QED
  BY <1>1, <1>2, <1>3, <1>4, <1>5, <1>6, <1>7, <1>8, <1>9, <1>10, <1>11, <1>12,
     <1>13, <1>14, <1>15, <1>16, <1>17, <1>18, <1>19, <1>20, <1>21, <1>22, <1>23,
     <1>24, <1>25, <1>26 DEF Next, HostStep, GuestStep, PeekStep

-----------------------------------------------------------------------------
(* While the host serves, everything that a guest needs is there.          *)
LEMMA SpaceIsReady ==
  ASSUME TypeInv, AttachedInv, HostInv, pc[Host] = "serve"
  PROVE  /\ Exists("fixed") /\ Exists("alloc")
         /\ start = "space" /\ BucketSems \subseteq sems
<1>1. Host \in attached["fixed"] /\ Host \in attached["alloc"]
  BY DEF AttachedInv, HostAttached, Segments, InitLabels
<1>2. made /\ start = "space" /\ sems = BucketSems \cup {"heap"}
  BY DEF HostInv, InitLabels
<1> QED
  BY <1>1, <1>2 DEF Exists

(* A guest that dies knew no handle, or the host is taking the space down. *)
LEMMA GuestDeath ==
  ASSUME TypeInv, AttachedInv, HostInv, HandleInv, NEW g \in Guests,
         GuestStep(g), pc'[g] \in {"failed", "crashed"}, handle'[g] = "handle"
  PROVE  pc[Host] \notin InitLabels
<1> SUFFICES ASSUME pc[Host] = "serve"
             PROVE  FALSE
  <2>1. handle[g] = "handle" \/ file = "handle"
    BY DEF GuestStep, read_handle_from_file, guest_maps_fixed, guest_maps_old,
       guest_maps_segment, get_start_pointer, peek_enter, peek_found, peek_waits,
       wait_round, wait_over, goesOn, semop_returns, semop_fails, free_guest,
       unmap_allocation_segment, unmap_fixed_shared_memory, gvars, TypeInv
  <2>2. pc[Host] \in Published
    BY <2>1 DEF HandleInv
  <2> QED
    BY <2>2 DEF Published, InitLabels, FreeLabels, BucketSems, Gone
<1>1. /\ Exists("fixed") /\ Exists("alloc")
      /\ start = "space" /\ BucketSems \subseteq sems
  BY SpaceIsReady
<1> USE LifecycleAssumption DEF TypeInv, Procs
<1>2. CASE read_handle_from_file(g)
  BY <1>2 DEF read_handle_from_file, move
<1>3. CASE guest_maps_fixed(g)
  BY <1>1, <1>3 DEF guest_maps_fixed, move, gvars
<1>4. CASE guest_maps_segment(g)
  BY <1>1, <1>4 DEF guest_maps_segment, move
<1>5. CASE get_start_pointer(g)
  BY <1>1, <1>5 DEF get_start_pointer, move
<1>6. CASE PeekStep(g)
  <2>1. PICK to \in PeekLabels \cup {"unmapAlloc"} : PeekGoes(g, to)
    BY <1>6, PeekMoves
  <2> QED
    BY <2>1 DEF PeekGoes, PeekLabels
<1>7. CASE semop_returns(g)
  BY <1>7 DEF semop_returns, Gone
<1>8. CASE semop_fails(g)
  <2>1. todo[g] \in Seq(Semops) /\ todo[g] # <<>> /\ Head(todo[g]).sem \notin sems
    BY <1>8 DEF semop_fails
  <2>2. Head(todo[g]) \in Semops
    BY <2>1
  <2> QED
    BY <1>1, <2>1, <2>2 DEF Semops
<1>10. CASE guest_maps_old(g)
  BY <1>10 DEF guest_maps_old, move
<1>9. CASE unmap_allocation_segment(g) \/ unmap_fixed_shared_memory(g)
  BY <1>9 DEF unmap_allocation_segment, unmap_fixed_shared_memory, move
<1> QED
  BY <1>2, <1>3, <1>4, <1>5, <1>6, <1>7, <1>8, <1>9, <1>10 DEF GuestStep, PeekStep

(* The host never goes back to its preparations, and leaves guests alone;  *)
(* a guest leaves the host and the other guests alone.                     *)
LEMMA HostMoves ==
  ASSUME TypeInv, HostStep \/ kill_host
  PROVE  /\ \A g \in Guests : pc'[g] = pc[g] /\ handle'[g] = handle[g]
         /\ pc'[Host] \in InitLabels => pc[Host] \in InitLabels
<1> USE LifecycleAssumption DEF TypeInv, Procs, InitLabels, Gone, gvars
<1>1. CASE create_fixed_shared_memory
  BY <1>1 DEF create_fixed_shared_memory, move
<1>2. CASE map_fixed_shared_memory
  BY <1>2 DEF map_fixed_shared_memory, move, attaches
<1>3. CASE mark_fixed_memory_for_deletion
  BY <1>3 DEF mark_fixed_memory_for_deletion, move
<1>4. CASE mark_allocation_segment_for_deletion
  BY <1>4 DEF mark_allocation_segment_for_deletion, move
<1>5. CASE initialize_tuple_space
  BY <1>5 DEF initialize_tuple_space, move
<1>6. CASE set_start_pointer
  BY <1>6 DEF set_start_pointer, move
<1>7. CASE open_handle_file
  BY <1>7 DEF open_handle_file, move
<1>8. CASE write_handle
  BY <1>8 DEF write_handle, move
<1>9. CASE push_tuple
  BY <1>9 DEF push_tuple, move
<1>10. CASE free_host_begins
  BY <1>10 DEF free_host_begins, move
<1>11. CASE destroy_bucket_semaphore
  BY <1>11 DEF destroy_bucket_semaphore, move, NextToDestroy, BucketSems
<1>12. CASE clear_start_pointer
  BY <1>12 DEF clear_start_pointer, move
<1>13. CASE destroy_heap_semaphore
  BY <1>13 DEF destroy_heap_semaphore, move
<1>14. CASE unmap_allocation_segment(Host)
  BY <1>14 DEF unmap_allocation_segment, move, detaches
<1>15. CASE unmap_fixed_shared_memory(Host)
  BY <1>15 DEF unmap_fixed_shared_memory, move, detaches
<1>16. CASE kill_host
  BY <1>16 DEF kill_host, dies, detaches
<1> QED
  BY <1>1, <1>2, <1>3, <1>4, <1>5, <1>6, <1>7, <1>8, <1>9, <1>10, <1>11, <1>12,
     <1>13, <1>14, <1>15, <1>16 DEF HostStep

LEMMA GuestMoves ==
  ASSUME TypeInv, NEW g \in Guests, GuestStep(g)
  PROVE  /\ pc'[Host] = pc[Host] /\ pc[g] \notin Gone
         /\ \A h \in Guests \ {g} : pc'[h] = pc[h] /\ handle'[h] = handle[h]
<1> USE LifecycleAssumption DEF TypeInv, Procs, Gone, gvars
<1>1. CASE read_handle_from_file(g)
  BY <1>1 DEF read_handle_from_file, move
<1>2. CASE guest_maps_fixed(g)
  BY <1>2 DEF guest_maps_fixed, move, attaches, dies, detaches
<1>3. CASE guest_maps_segment(g)
  BY <1>3 DEF guest_maps_segment, move, attaches, dies, detaches
<1>4. CASE get_start_pointer(g)
  BY <1>4 DEF get_start_pointer, move, dies, detaches
<1>5. CASE PeekStep(g)
  <2>1. PICK to \in PeekLabels \cup {"unmapAlloc"} : PeekGoes(g, to)
    BY <1>5, PeekMoves
  <2> QED
    BY <2>1 DEF PeekGoes, PeekLabels
<1>6. CASE semop_returns(g)
  BY <1>6 DEF semop_returns
<1>7. CASE semop_fails(g)
  BY <1>7 DEF semop_fails, dies, detaches
<1>10. CASE guest_maps_old(g)
  BY <1>10 DEF guest_maps_old, move
<1>8. CASE unmap_allocation_segment(g)
  BY <1>8 DEF unmap_allocation_segment, move, detaches
<1>9. CASE unmap_fixed_shared_memory(g)
  BY <1>9 DEF unmap_fixed_shared_memory, move, detaches
<1> QED
  BY <1>1, <1>2, <1>3, <1>4, <1>5, <1>6, <1>7, <1>8, <1>9, <1>10 DEF GuestStep, PeekStep

LEMMA GuestsFailStep ==
  ASSUME TypeInv, AttachedInv, HostInv, HandleInv, GuestsFailOnlyWithoutHost, Next
  PROVE  GuestsFailOnlyWithoutHost'
<1>1. CASE HostStep \/ kill_host
  BY <1>1, HostMoves DEF GuestsFailOnlyWithoutHost
<1>2. ASSUME NEW g \in Guests, GuestStep(g)
      PROVE  GuestsFailOnlyWithoutHost'
  BY <1>2, GuestMoves, GuestDeath DEF GuestsFailOnlyWithoutHost
<1> QED
  BY <1>1, <1>2 DEF Next

-----------------------------------------------------------------------------
LEMMA InitLifecycleInv ==
  ASSUME Init
  PROVE  LifecycleInv
<1> USE LifecycleAssumption DEF Init, Procs
<1>1. TypeInv
  <2>1. LifecycleTypeOK
    BY DEF LifecycleTypeOK, Segments, InitLabels, GuestLabels, PeekLabels
  <2>2. /\ pc \in [Procs -> HostLabels \cup GuestLabels]
        /\ attached \in [Segments -> SUBSET Procs]
        /\ handle \in [Guests -> FileStates \cup {"none"}]
    BY DEF GuestLabels
  <2>3. todo \in [Guests -> Seq(Semops)]
    OBVIOUS
  <2> QED
    BY <2>1, <2>2, <2>3 DEF TypeInv
<1>2. AttachedInv
  BY DEF AttachedInv, HostAttached, Segments, InitLabels, FreeLabels, BucketSems,
     PeekLabels
<1>3. HostInv /\ HandleInv
  BY DEF HostInv, HandleInv, Published, InitLabels, FreeLabels, BucketSems
<1>4. GuestsFailOnlyWithoutHost
  BY DEF GuestsFailOnlyWithoutHost
<1> QED
  BY <1>1, <1>2, <1>3, <1>4 DEF LifecycleInv

(* The inductive invariant holds in every state of every execution.        *)
LEMMA LifecycleInvariant == Spec => []LifecycleInv
<1>1. Init => LifecycleInv
  BY InitLifecycleInv
<1>2. LifecycleInv /\ [Next]_vars => LifecycleInv'
  <2> SUFFICES ASSUME LifecycleInv, [Next]_vars
               PROVE  LifecycleInv'
    OBVIOUS
  <2>1. CASE Next
    BY <2>1, TypeStep, AttachedStep, HostStepKeeps, HandleStep, GuestsFailStep
    DEF LifecycleInv
  <2>2. CASE UNCHANGED vars
    <3> USE <2>2 DEF vars, shm, gvars, LifecycleInv
    <3>1. TypeInv'
      BY DEF TypeInv, LifecycleTypeOK
    <3>2. AttachedInv' /\ HostInv'
      BY DEF AttachedInv, HostAttached, HostInv
    <3>3. HandleInv' /\ GuestsFailOnlyWithoutHost'
      BY DEF HandleInv, GuestsFailOnlyWithoutHost
    <3> QED
      BY <3>1, <3>2, <3>3
  <2> QED
    BY <2>1, <2>2
<1> QED
  BY <1>1, <1>2, PTL DEF Spec

(* Every variable has its type, and a guest is attached to the segment of  *)
(* the heap exactly from init_guest to free_guest, unless it dies between. *)
THEOREM LifecycleTypes == Spec => []LifecycleTypeOK
<1>1. LifecycleInv => LifecycleTypeOK
  BY DEF LifecycleInv, TypeInv
<1> QED
  BY <1>1, LifecycleInvariant, PTL

(* When all processes are gone, neither segment is left in the kernel once *)
(* the handle was written, and a host that ended left no semaphore         *)
(* (init_host, free_host).                                                 *)
THEOREM KernelIsLeftClean == Spec => []NothingLeftBehind
<1>1. LifecycleInv => NothingLeftBehind
  <2> SUFFICES ASSUME LifecycleInv
               PROVE  NothingLeftBehind
    OBVIOUS
  <2>1. ASSUME AllGone, file = "handle", NEW seg \in Segments
        PROVE  ~ Exists(seg)
    <3>1. seg \in marked
      BY <2>1 DEF LifecycleInv, HandleInv
    <3>2. \A p \in Procs : p \notin attached[seg]
      BY <2>1 DEF LifecycleInv, TypeInv, LifecycleTypeOK, AttachedInv, HostAttached,
         AllGone, Away, PeekLabels, Procs, Gone, Segments, InitLabels, FreeLabels, BucketSems
    <3>3. attached[seg] = {}
      BY <2>1, <3>2 DEF LifecycleInv, TypeInv
    <3> QED
      BY <3>1, <3>3 DEF Exists
  <2>2. pc[Host] = "ended" => sems = {}
    BY DEF LifecycleInv, HostInv
  <2> QED
    BY <2>1, <2>2 DEF NothingLeftBehind
<1> QED
  BY <1>1, LifecycleInvariant, PTL

(* A guest that knows this host's handle fails only after the host began   *)
(* to free the space or was killed (init_guest, peek_tuple).               *)
THEOREM GuestsFindTheSpace == Spec => []GuestsFailOnlyWithoutHost
<1>1. LifecycleInv => GuestsFailOnlyWithoutHost
  BY DEF LifecycleInv
<1> QED
  BY <1>1, LifecycleInvariant, PTL

=============================================================================
