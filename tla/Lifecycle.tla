------------------------------- MODULE Lifecycle -------------------------------
(***************************************************************************)
(* How the host sets the tuple space up and takes it down, and how guests  *)
(* join it, in any order (init_host, free_host, init_guest and free_guest  *)
(* in shared_allocator.c, the handle file in utils.c, the main functions   *)
(* of host.c and guest.c).                                                 *)
(*                                                                         *)
(* Kernel objects: the fixed memory, the segment of the heap, the heap's   *)
(* semaphore and the semaphores of one bucket.  Who gets which of these    *)
(* when is module Bucket's; here a peek makes the semops that it makes,    *)
(* each of which ends the guest when its semaphore has been removed, and   *)
(* an acquire of a semaphore that is still there may block for any time.   *)
(***************************************************************************)
EXTENDS Sequences

CONSTANTS
  Host, Guests,
  HostKillable  (* whether the host may be killed                           *)

ASSUME LifecycleAssumption == Host \notin Guests /\ HostKillable \in BOOLEAN

VARIABLES
  file,      (* what the handle file says                                   *)
  made,      (* whether the segments have been created                      *)
  marked,    (* those that are marked for deletion                          *)
  attached,  (* attached[seg]: the processes attached to it                 *)
  sems,      (* the semaphores there are                                    *)
  start,     (* the start pointer in the segment's header                   *)
  pushed,    (* whether the tuple that the guests want is in the space      *)
  pc,        (* where a process is                                          *)
  handle,    (* the handle a guest has read                                 *)
  todo       (* the semops a guest has still to make                        *)

shm == <<made, marked, attached>>
gvars == <<handle, todo>>
vars == <<file, shm, sems, start, pushed, pc, gvars>>

Procs == Guests \cup {Host}
Segments == {"fixed", "alloc"}
BucketSems == {"cond", "excl", "hand", "mon"}

(* The kernel removes a marked segment when nobody is attached to it.      *)
Exists(seg) == made /\ (seg \in marked => attached[seg] # {})

(* The file may be left over from an earlier run.                          *)
Init ==
  /\ file \in {"absent", "old"}
  /\ made = FALSE /\ marked = {} /\ attached = [seg \in Segments |-> {}]
  /\ sems = {}
  /\ start = "null"
  /\ pushed = FALSE
  /\ pc = [p \in Procs |-> "new"]
  /\ handle = [g \in Guests |-> "none"]
  /\ todo = [g \in Guests |-> <<>>]

move(p, from, to) == pc[p] = from /\ pc' = [pc EXCEPT ![p] = to]

attaches(p, segs) ==
  attached' = [seg \in Segments |-> IF seg \in segs THEN attached[seg] \cup {p}
                                    ELSE attached[seg]]
detaches(p, segs) ==
  attached' = [seg \in Segments |-> IF seg \in segs THEN attached[seg] \ {p}
                                    ELSE attached[seg]]

-----------------------------------------------------------------------------
(***************************************************************************)
(* The host: init_host ...                                                 *)
(***************************************************************************)
create_fixed_shared_memory ==
  /\ move(Host, "new", "map")
  /\ made' = TRUE
  /\ sems' = {"heap"}
  /\ UNCHANGED <<file, marked, attached, start, pushed, gvars>>

map_fixed_shared_memory ==
  /\ move(Host, "map", "markFixed")
  /\ attaches(Host, Segments)
  /\ UNCHANGED <<file, made, marked, sems, start, pushed, gvars>>

mark_fixed_memory_for_deletion ==
  /\ move(Host, "markFixed", "markAlloc")
  /\ marked' = marked \cup {"fixed"}
  /\ UNCHANGED <<file, made, attached, sems, start, pushed, gvars>>

(* Variant with a defect: the segment of the heap is not marked.           *)
mark_nothing ==
  /\ move(Host, "markAlloc", "createSems")
  /\ UNCHANGED <<file, shm, sems, start, pushed, gvars>>

mark_allocation_segment_for_deletion ==
  /\ move(Host, "markAlloc", "createSems")
  /\ marked' = marked \cup {"alloc"}
  /\ UNCHANGED <<file, made, attached, sems, start, pushed, gvars>>

(* Variant with a defect: the handle is written before the space is ready. *)
initialize_after_handle ==
  /\ move(Host, "createSems", "setStart")
  /\ sems' = sems \cup BucketSems
  /\ file' = "handle"
  /\ UNCHANGED <<shm, start, pushed, gvars>>

initialize_tuple_space ==
  /\ move(Host, "createSems", "setStart")
  /\ sems' = sems \cup BucketSems
  /\ UNCHANGED <<file, shm, start, pushed, gvars>>

set_start_pointer ==
  /\ move(Host, "setStart", "open")
  /\ start' = "space"
  /\ UNCHANGED <<file, shm, sems, pushed, gvars>>

(***************************************************************************)
(* ... main of host.c: write_handle_to_file truncates the file, then       *)
(* writes it; the pushes ...                                               *)
(***************************************************************************)
open_handle_file ==
  /\ move(Host, "open", "write")
  /\ file' = "empty"
  /\ UNCHANGED <<shm, sems, start, pushed, gvars>>

write_handle ==
  /\ move(Host, "write", "serve")
  /\ file' = "handle"
  /\ UNCHANGED <<shm, sems, start, pushed, gvars>>

push_tuple ==
  /\ pc[Host] = "serve"
  /\ pushed' = TRUE
  /\ UNCHANGED <<file, shm, sems, start, pc, gvars>>

(***************************************************************************)
(* ... and free_host: destroy_list removes the semaphores of each bucket   *)
(* one by one, the start pointer is cleared, the heap's semaphore removed, *)
(* and the segments are detached.                                          *)
(***************************************************************************)
free_host_begins ==
  /\ move(Host, "serve", "cond")
  /\ UNCHANGED <<file, shm, sems, start, pushed, gvars>>

NextToDestroy ==
  [cond |-> "excl", excl |-> "hand", hand |-> "mon", mon |-> "clearStart"]

(* Variant with a defect: the token semaphore is left.                     *)
destroy_all_but_cond ==
  /\ pc[Host] \in BucketSems
  /\ move(Host, pc[Host], NextToDestroy[pc[Host]])
  /\ sems' = sems \ ({pc[Host]} \ {"cond"})
  /\ UNCHANGED <<file, shm, start, pushed, gvars>>

destroy_bucket_semaphore ==
  /\ pc[Host] \in BucketSems
  /\ move(Host, pc[Host], NextToDestroy[pc[Host]])
  /\ sems' = sems \ {pc[Host]}
  /\ UNCHANGED <<file, shm, start, pushed, gvars>>

clear_start_pointer ==
  /\ move(Host, "clearStart", "destroyHeap")
  /\ start' = "null"
  /\ UNCHANGED <<file, shm, sems, pushed, gvars>>

destroy_heap_semaphore ==
  /\ move(Host, "destroyHeap", "unmapAlloc")
  /\ sems' = sems \ {"heap"}
  /\ UNCHANGED <<file, shm, start, pushed, gvars>>

(* Variant with a defect: the mapping is forgotten but not undone.         *)
unmap_nothing(p) ==
  /\ move(p, "unmapAlloc", "unmapFixed")
  /\ UNCHANGED <<file, shm, sems, start, pushed, gvars>>

unmap_allocation_segment(p) ==
  /\ move(p, "unmapAlloc", "unmapFixed")
  /\ detaches(p, {"alloc"})
  /\ UNCHANGED <<file, made, marked, sems, start, pushed, gvars>>

unmap_fixed_shared_memory(p) ==
  /\ move(p, "unmapFixed", "ended")
  /\ detaches(p, {"fixed"})
  /\ UNCHANGED <<file, made, marked, sems, start, pushed, gvars>>

HostStep ==
  \/ create_fixed_shared_memory \/ map_fixed_shared_memory
  \/ mark_fixed_memory_for_deletion \/ mark_allocation_segment_for_deletion
  \/ initialize_tuple_space \/ set_start_pointer
  \/ open_handle_file \/ write_handle \/ push_tuple
  \/ free_host_begins \/ destroy_bucket_semaphore
  \/ clear_start_pointer \/ destroy_heap_semaphore
  \/ unmap_allocation_segment(Host) \/ unmap_fixed_shared_memory(Host)

-----------------------------------------------------------------------------
(***************************************************************************)
(* A guest: init_guest.                                                    *)
(***************************************************************************)
Gone == {"ended", "failed", "crashed", "killed"}

(* exit(1) or SIGSEGV: the kernel detaches the process.                    *)
dies(p, how) ==
  /\ pc' = [pc EXCEPT ![p] = how]
  /\ detaches(p, Segments)

read_handle_from_file(g) ==
  /\ move(g, "new", "mapFixed")
  /\ handle' = [handle EXCEPT ![g] = file]
  /\ UNCHANGED <<file, shm, sems, start, pushed, todo>>

guest_maps_fixed(g) ==
  /\ pc[g] = "mapFixed"
  /\ IF handle[g] = "handle" /\ Exists("fixed")
       THEN move(g, "mapFixed", "mapAlloc") /\ attaches(g, {"fixed"})
       ELSE dies(g, "failed")
  /\ UNCHANGED <<file, made, marked, sems, start, pushed, gvars>>

(* The fixed memory of an earlier host that was killed is there as long as *)
(* its guests are: an old handle may lead into that space.  What the guest *)
(* does there is not followed.                                             *)
guest_maps_old(g) ==
  /\ handle[g] = "old"
  /\ move(g, "mapFixed", "elsewhere")
  /\ UNCHANGED <<file, shm, sems, start, pushed, gvars>>

guest_maps_segment(g) ==
  /\ pc[g] = "mapAlloc"
  /\ IF Exists("alloc")
       THEN move(g, "mapAlloc", "getStart") /\ attaches(g, {"alloc"})
       ELSE dies(g, "failed")
  /\ UNCHANGED <<file, made, marked, sems, start, pushed, gvars>>

(* get_tuplespace; peek_tuple dereferences the pointer.                    *)
get_start_pointer(g) ==
  /\ pc[g] = "getStart"
  /\ IF start = "null"
       THEN dies(g, "crashed")
       ELSE move(g, "getStart", "peek") /\ UNCHANGED attached
  /\ UNCHANGED <<file, made, marked, sems, start, pushed, gvars>>

(***************************************************************************)
(* peek_tuple: enter; then either signal and leave, or register, leave,    *)
(* wait for as many rounds as it takes, enter and look again.              *)
(***************************************************************************)
Acquire(s) == [sem |-> s, acquires |-> TRUE]
Release(s) == [sem |-> s, acquires |-> FALSE]

Enter == <<Acquire("mon")>>
Register == <<Acquire("excl"), Release("excl"), Release("mon")>>
Round == <<Acquire("cond"), Release("hand")>>

(* signal_monitor_condition, when nobody waits and when somebody does.     *)
Signals ==
  {<<Acquire("excl"), Release("excl")>>,
   <<Acquire("excl"), Release("cond"), Acquire("hand"), Release("excl")>>}

goesOn(g, from, to, semops) ==
  /\ todo[g] = <<>>
  /\ move(g, from, to)
  /\ todo' = [todo EXCEPT ![g] = semops]
  /\ UNCHANGED <<file, shm, sems, start, pushed, handle>>

peek_enter(g) == goesOn(g, "peek", "scan", Enter)

peek_found(g) ==
  /\ pushed
  /\ \E signal \in Signals :
       goesOn(g, "scan", "found", signal \o <<Release("mon")>>)

peek_waits(g) == ~ pushed /\ goesOn(g, "scan", "loop", Register)

(* The test of the loop, wakeIndex < index.                                *)
wait_round(g) == goesOn(g, "loop", "loop", Round)
wait_over(g) == goesOn(g, "loop", "scan", Enter)

semop_returns(g) ==
  /\ todo[g] # <<>> /\ pc[g] \notin Gone
  /\ Head(todo[g]).sem \in sems
  /\ todo' = [todo EXCEPT ![g] = Tail(@)]
  /\ UNCHANGED <<file, shm, sems, start, pushed, pc, handle>>

semop_fails(g) ==
  /\ todo[g] # <<>> /\ pc[g] \notin Gone
  /\ Head(todo[g]).sem \notin sems
  /\ dies(g, "failed")
  /\ UNCHANGED <<file, made, marked, sems, start, pushed, gvars>>

free_guest(g) == goesOn(g, "found", "unmapAlloc", <<>>)

GuestStep(g) ==
  \/ read_handle_from_file(g) \/ guest_maps_fixed(g) \/ guest_maps_old(g)
  \/ guest_maps_segment(g) \/ get_start_pointer(g)
  \/ peek_enter(g) \/ peek_found(g) \/ peek_waits(g) \/ wait_round(g) \/ wait_over(g)
  \/ semop_returns(g) \/ semop_fails(g) \/ free_guest(g)
  \/ unmap_allocation_segment(g) \/ unmap_fixed_shared_memory(g)

(* The next thing g does is an acquire that may block.                     *)
MayBlock(g) == todo[g] # <<>> /\ Head(todo[g]).acquires /\ Head(todo[g]).sem \in sems

kill_host ==
  /\ HostKillable /\ pc[Host] \notin Gone
  /\ dies(Host, "killed")
  /\ UNCHANGED <<file, made, marked, sems, start, pushed, gvars>>

Next == HostStep \/ kill_host \/ \E g \in Guests : GuestStep(g)

Spec == Init /\ [][Next]_vars

(* Guests run, except that an acquire may block for ever as long as its    *)
(* semaphore is there; the host's user may press no key for ever.          *)
FairSpec == Spec /\ \A g \in Guests : WF_vars(~ MayBlock(g) /\ GuestStep(g))

-----------------------------------------------------------------------------
(***************************************************************************)
(* Properties.                                                             *)
(***************************************************************************)
InitLabels ==
  {"new", "map", "markFixed", "markAlloc", "createSems", "setStart", "open",
   "write", "serve"}
FreeLabels == BucketSems \cup {"clearStart", "destroyHeap", "unmapAlloc", "unmapFixed"}
GuestLabels ==
  {"new", "mapFixed", "mapAlloc", "getStart", "peek", "scan", "loop", "found",
   "unmapAlloc", "unmapFixed", "elsewhere"}
PeekLabels == {"peek", "scan", "loop", "found"}

(* Types; and who is attached to the segment of the heap.                  *)
LifecycleTypeOK ==
  /\ file \in {"absent", "old", "empty", "handle"}
  /\ sems \subseteq BucketSems \cup {"heap"}
  /\ pc[Host] \in InitLabels \cup FreeLabels \cup Gone
  /\ \A g \in Guests :
       /\ pc[g] \in GuestLabels \cup Gone
       /\ g \in attached["alloc"] <=> pc[g] \in {"getStart", "unmapAlloc"} \cup PeekLabels

Away == Gone \cup {"elsewhere"}

AllGone == \A p \in Procs : pc[p] \in Away

(* Nothing is left in the kernel.  The segments go with the last process,  *)
(* even if the host is killed: by the time a guest can know the handle,    *)
(* they are marked for deletion.  free_host removes every semaphore that   *)
(* init_host has created.                                                  *)
NothingLeftBehind ==
  /\ AllGone /\ file = "handle" => \A seg \in Segments : ~ Exists(seg)
  /\ pc[Host] = "ended" => sems = {}

(* A guest that has read this host's handle does not fail before the host  *)
(* begins to free the tuple space: all it needs is there before the file   *)
(* is written, and stays there though the segments are marked.             *)
GuestsFailOnlyWithoutHost ==
  \A g \in Guests :
    pc[g] \in {"failed", "crashed"} /\ handle[g] = "handle"
      => pc[Host] \notin InitLabels

(* When the host has freed the space, the guests end too, those included   *)
(* that wait for a tuple nobody will push or are blocked in the handshake: *)
(* their semop fails.                                                      *)
GuestsEndWithHost ==
  pc[Host] = "ended" ~> \A g \in Guests : pc[g] \in Away

=============================================================================
