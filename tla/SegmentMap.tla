------------------------------ MODULE SegmentMap ------------------------------
(***************************************************************************)
(* How processes follow the heap from one shared memory segment to the     *)
(* next (shared_allocator.c, shared_memory.c).  The fixed memory holds the *)
(* id of the current segment; each process maps a segment and looks, at    *)
(* the start of balloc, bfree and is_ptr_null, whether it is still the     *)
(* current one; balloc replaces it by a larger one when nothing fits.      *)
(*                                                                         *)
(* A process frees a block or runs insert_into_list_after as far as it     *)
(* concerns the mapping: take a raw pointer to the list, balloc, use the   *)
(* pointer, take a new one and write through it.  Whether a request fits   *)
(* is left open: module Allocator has the blocks.                          *)
(*                                                                         *)
(* The kernel removes a segment that is marked for deletion (IPC_RMID)     *)
(* when nobody is attached to it any more; until then it can be attached.  *)
(***************************************************************************)
EXTENDS Integers

CONSTANTS
  Procs,
  Nobody,       (* the owner of a free semaphore                            *)
  Killable,     (* the processes that may be killed                         *)
  Late,         (* the processes that have yet to join                      *)
  MaxSegments,  (* bound of the instance: segments ever created             *)
  Budget        (* bound of the instance: calls per process                 *)

ASSUME SegmentMapAssumption ==
  /\ Nobody \notin Procs
  /\ Killable \subseteq Procs
  /\ Late \subseteq Procs
  /\ MaxSegments \in Nat \ {0}
  /\ Budget \in [Procs -> Nat]

VARIABLES
  current,  (* fixedSharedMemory->allocShmId                                *)
  created,  (* the segments created so far are 1..created                   *)
  marked,   (* those marked for deletion                                    *)
  mapped,   (* mapped[p]: the segment mappedAllocationSegment points to     *)
  old,      (* old[p]: the segment that p is replacing (oldMemPtr)          *)
  heap,     (* who holds the heap's semaphore semId                         *)
  pc,       (* where p is                                                   *)
  then,     (* where p goes on after the check of its mapping               *)
  op,       (* the call p is making                                         *)
  base,     (* the segment p's raw pointer leads into, or whose id p read   *)
  left,     (* how many calls p has still to make                           *)
  torn,     (* the segments whose block list is half updated                *)
  content,  (* content[s]: the writes that segment s has seen               *)
  late      (* the writes into a segment that had been copied already       *)

segments == <<current, created, marked>>
attachments == <<mapped, old>>
history == <<content, late>>
vars == <<segments, attachments, heap, pc, then, op, base, left, torn, history>>

NoSegment == 0

Segments == 1..MaxSegments

Attached(s) ==
  \E p \in Procs : mapped[p] = s \/ (old[p] = s /\ pc[p] # "remove")

Exists(s) == s <= created /\ (s \in marked => Attached(s))

(* init_host has marked the first segment; all but the late have mapped it.*)
Init ==
  /\ current = 1 /\ created = 1 /\ marked = {1}
  /\ mapped = [p \in Procs |-> IF p \in Late THEN NoSegment ELSE 1]
  /\ old = [p \in Procs |-> NoSegment]
  /\ heap = Nobody
  /\ pc = [p \in Procs |-> IF p \in Late THEN "outside" ELSE "idle"]
  /\ then = [p \in Procs |-> "idle"]
  /\ op = [p \in Procs |-> "none"]
  /\ base = [p \in Procs |-> NoSegment]
  /\ left = Budget
  /\ torn = {}
  /\ content = [s \in Segments |-> {}]
  /\ late = {}

move(p, from, to) == pc[p] = from /\ pc' = [pc EXCEPT ![p] = to]

maps(p, s) == mapped' = [mapped EXCEPT ![p] = s]

(* A process ends: the kernel detaches it and undoes its semop on semId.   *)
ends(p, how) ==
  /\ pc' = [pc EXCEPT ![p] = how]
  /\ maps(p, NoSegment)
  /\ old' = [old EXCEPT ![p] = NoSegment]
  /\ heap' = IF heap = p THEN Nobody ELSE heap

acquire_semaphore(p) == heap = Nobody /\ heap' = p

-----------------------------------------------------------------------------
(***************************************************************************)
(* map_fixed_shared_memory: a guest reads the id of the current segment    *)
(* and attaches it, without semId.  The fixed memory is there as long as   *)
(* a process uses it.                                                      *)
(***************************************************************************)
Gone == {"ended", "killed", "killedInside", "crashed", "cannotMap", "cannotRemove",
         "cannotJoin"}

Outsider(p) == pc[p] \in Gone \cup {"outside"}

join_read(p) ==
  /\ \E q \in Procs : ~ Outsider(q)
  /\ move(p, "outside", "join")
  /\ base' = [base EXCEPT ![p] = current]
  /\ UNCHANGED <<segments, attachments, heap, then, op, left, torn, history>>

join_attach(p) ==
  /\ pc[p] = "join"
  /\ IF Exists(base[p])
       THEN move(p, "join", "idle") /\ maps(p, base[p]) /\ UNCHANGED <<old, heap>>
       ELSE ends(p, "cannotJoin")
  /\ UNCHANGED <<segments, then, op, base, left, torn, history>>

Join(p) == join_read(p) \/ join_attach(p)

(***************************************************************************)
(* The calls.                                                              *)
(***************************************************************************)
call(p) ==
  /\ pc[p] = "idle" /\ left[p] > 0
  /\ \E o \in {"insert", "free"} :
       /\ op' = [op EXCEPT ![p] = o]
       /\ then' = [then EXCEPT ![p] = IF o = "insert" THEN "list" ELSE "acquire"]
  /\ pc' = [pc EXCEPT ![p] = "check"]
  /\ left' = [left EXCEPT ![p] = @ - 1]
  /\ UNCHANGED <<segments, attachments, heap, base, torn, history>>

(***************************************************************************)
(* remap_allocation_segment_if_necessary.                                  *)
(***************************************************************************)
remap_not_needed(p) ==
  /\ mapped[p] = current
  /\ move(p, "check", then[p])
  /\ UNCHANGED <<segments, attachments, heap, then, op, base, left, torn, history>>

(* Variant with a defect: the process stays attached to the old segment.   *)
remap_stays(p) ==
  /\ mapped[p] # current
  /\ move(p, "check", "acquireToMap")
  /\ UNCHANGED <<segments, attachments, heap, then, op, base, left, torn, history>>

remap_unmap(p) ==
  /\ mapped[p] # current
  /\ move(p, "check", "acquireToMap")
  /\ maps(p, NoSegment)
  /\ UNCHANGED <<segments, old, heap, then, op, base, left, torn, history>>

remap_acquire(p) ==
  /\ move(p, "acquireToMap", "map")
  /\ acquire_semaphore(p)
  /\ UNCHANGED <<segments, attachments, then, op, base, left, torn, history>>

remap_map(p) ==
  /\ pc[p] = "map"
  /\ IF Exists(current)
       THEN move(p, "map", "mapped") /\ maps(p, current) /\ UNCHANGED <<old, heap>>
       ELSE ends(p, "cannotMap")
  /\ UNCHANGED <<segments, then, op, base, left, torn, history>>

(* Variant with a defect: the semaphore is kept.                           *)
remap_keeps_semaphore(p) ==
  /\ move(p, "mapped", then[p])
  /\ UNCHANGED <<segments, attachments, heap, then, op, base, left, torn, history>>

remap_release(p) ==
  /\ move(p, "mapped", then[p])
  /\ heap' = Nobody
  /\ UNCHANGED <<segments, attachments, then, op, base, left, torn, history>>

Remap(p) ==
  \/ remap_not_needed(p) \/ remap_unmap(p) \/ remap_acquire(p)
  \/ remap_map(p) \/ remap_release(p)

(***************************************************************************)
(* balloc and bfree between acquire_semaphore and release_semaphore: every *)
(* use of is_ptr_null checks the mapping again.                            *)
(***************************************************************************)
(* Variant with a defect: the mapping is not checked again.                *)
heap_acquire_unchecked(p) ==
  /\ move(p, "acquire", "scan")
  /\ acquire_semaphore(p)
  /\ UNCHANGED <<segments, attachments, then, op, base, left, torn, history>>

heap_acquire(p) ==
  /\ move(p, "acquire", "check")
  /\ acquire_semaphore(p)
  /\ then' = [then EXCEPT ![p] = "scan"]
  /\ UNCHANGED <<segments, attachments, op, base, left, torn, history>>

(* A block is found, or freed: the block list is being changed ...         *)
heap_update(p) ==
  /\ move(p, "scan", "release")
  /\ torn' = torn \cup {mapped[p]}
  /\ UNCHANGED <<segments, attachments, heap, then, op, base, left, history>>

(* ... and is whole again.                                                 *)
heap_release(p) ==
  /\ move(p, "release", IF op[p] = "insert" THEN "useList" ELSE "idle")
  /\ torn' = torn \ {mapped[p]}
  /\ heap' = Nobody
  /\ UNCHANGED <<segments, attachments, then, op, base, left, history>>

(***************************************************************************)
(* resize_allocation_segment, when nothing fits.                           *)
(***************************************************************************)
resize_create(p) ==
  /\ op[p] = "insert" /\ created < MaxSegments
  /\ move(p, "scan", "mark")
  /\ created' = created + 1
  /\ old' = [old EXCEPT ![p] = mapped[p]]
  /\ maps(p, created')
  /\ UNCHANGED <<current, marked, heap, then, op, base, left, torn, history>>

(* Variant with a defect: the new segment is marked, not the old one.      *)
mark_new_segment(p) ==
  /\ move(p, "mark", "copy")
  /\ marked' = marked \cup {mapped[p]}
  /\ UNCHANGED <<current, created, attachments, heap, then, op, base, left, torn, history>>

mark_allocation_segment_for_deletion(p) ==
  /\ move(p, "mark", "copy")
  /\ marked' = marked \cup {current}
  /\ UNCHANGED <<current, created, attachments, heap, then, op, base, left, torn, history>>

Copied(p) ==
  /\ torn' = IF old[p] \in torn THEN torn \cup {mapped[p]} ELSE torn
  /\ UNCHANGED <<segments, attachments, heap, then, op, base, left, late>>

(* Variant with a defect: only the header is copied.                       *)
copy_header(p) ==
  /\ move(p, "copy", "publish")
  /\ Copied(p) /\ UNCHANGED content

copy_blocks(p) ==
  /\ move(p, "copy", "publish")
  /\ content' = [content EXCEPT ![mapped[p]] = content[old[p]]]
  /\ Copied(p)

(* Variant with a defect: the id of the current segment is not updated.    *)
publish_nothing(p) ==
  /\ move(p, "publish", "detach")
  /\ UNCHANGED <<segments, attachments, heap, then, op, base, left, torn, history>>

resize_publish(p) ==
  /\ move(p, "publish", "detach")
  /\ current' = mapped[p]
  /\ UNCHANGED <<created, marked, attachments, heap, then, op, base, left, torn, history>>

resize_detach(p) ==
  /\ move(p, "detach", "remove")
  /\ UNCHANGED <<segments, attachments, heap, then, op, base, left, torn, history>>

(* destroy_allocation_segment: it fails if the segment is gone already.    *)
resize_remove(p) ==
  /\ pc[p] = "remove"
  /\ IF Exists(old[p])
       THEN /\ move(p, "remove", "check")
            /\ marked' = marked \cup {old[p]}
            /\ old' = [old EXCEPT ![p] = NoSegment]
            /\ UNCHANGED <<mapped, heap>>
       ELSE ends(p, "cannotRemove") /\ UNCHANGED marked
  /\ UNCHANGED <<current, created, then, op, base, left, torn, history>>

Resize(p) ==
  \/ resize_create(p) \/ mark_allocation_segment_for_deletion(p) \/ copy_blocks(p)
  \/ resize_publish(p) \/ resize_detach(p) \/ resize_remove(p)

(***************************************************************************)
(* insert_into_list_after: list is dereferenced once, before balloc, and   *)
(* list->monitor read after it.                                            *)
(***************************************************************************)
takes_pointer(p) ==
  /\ base' = [base EXCEPT ![p] = mapped[p]]
  /\ UNCHANGED <<segments, attachments, heap, op, left, torn, history>>

deref_list(p) ==
  /\ move(p, "list", "check")
  /\ then' = [then EXCEPT ![p] = "acquire"]
  /\ takes_pointer(p)

(* The raw pointer leads into a segment that is no longer mapped: SIGSEGV. *)
use_list(p) ==
  /\ pc[p] = "useList"
  /\ IF base[p] = mapped[p]
       THEN move(p, "useList", "check") /\ UNCHANGED <<attachments, heap>>
       ELSE ends(p, "crashed")
  /\ then' = [then EXCEPT ![p] = "element"]
  /\ UNCHANGED <<segments, op, base, left, torn, history>>

deref_element(p) ==
  /\ move(p, "element", "write")
  /\ takes_pointer(p) /\ UNCHANGED then

(* The write comes too late to be copied along: the segment has been       *)
(* replaced, or its copy is made and not yet published.                    *)
AfterCopy(s) == s # current \/ \E q \in Procs : pc[q] = "publish"

write_element(p) ==
  /\ move(p, "write", "idle")
  /\ content' = [content EXCEPT ![base[p]] = @ \cup {<<p, left[p]>>}]
  /\ late' = IF AfterCopy(base[p]) THEN late \cup {<<p, left[p]>>} ELSE late
  /\ UNCHANGED <<segments, attachments, heap, then, op, base, left, torn>>

Insert(p) == deref_list(p) \/ use_list(p) \/ deref_element(p) \/ write_element(p)

(* free_guest at the end of a program; and a kill anywhere.                *)
free_guest(p) ==
  /\ pc[p] = "idle" /\ left[p] = 0
  /\ ends(p, "ended")
  /\ UNCHANGED <<segments, then, op, base, left, torn, history>>

kill(p) ==
  /\ p \in Killable /\ ~ Outsider(p)
  /\ ends(p, IF heap = p THEN "killedInside" ELSE "killed")
  /\ UNCHANGED <<segments, then, op, base, left, torn, history>>

Run(p) ==
  \/ Join(p) \/ Remap(p) \/ heap_acquire(p) \/ heap_update(p) \/ heap_release(p)
  \/ Resize(p) \/ Insert(p)

Next == \E p \in Procs : call(p) \/ Run(p) \/ free_guest(p) \/ kill(p)

Spec == Init /\ [][Next]_vars

(* The scheduler runs every process that can run.                          *)
FairSpec == Spec /\ \A p \in Procs : WF_vars(Run(p))

-----------------------------------------------------------------------------
(***************************************************************************)
(* Properties.                                                             *)
(***************************************************************************)
Labels == Gone \cup
  {"outside", "join", "idle", "check", "acquireToMap", "map", "mapped", "acquire", "scan", "release",
   "mark", "copy", "publish", "detach", "remove", "list", "useList", "element",
   "write"}

(* Types; a process that uses the heap is attached to a segment, and to a  *)
(* second one only while it replaces the first.                            *)
SegmentTypeOK ==
  /\ current \in 1..created /\ created \in Segments
  /\ marked \subseteq 1..created
  /\ heap \in Procs \cup {Nobody}
  /\ pc \in [Procs -> Labels]
  /\ \A p \in Procs :
       /\ mapped[p] = NoSegment <=>
            Outsider(p) \/ pc[p] \in {"join", "acquireToMap", "map"}
       /\ old[p] # NoSegment <=> pc[p] \in {"mark", "copy", "publish", "detach", "remove"}

NobodyKilledInside == \A p \in Procs : pc[p] # "killedInside"

(* A process that has to follow the heap finds the segment that the fixed  *)
(* memory names, however many times it was replaced: a segment is only     *)
(* removed after another has taken its place (mark, copy, publish in       *)
(* resize_allocation_segment), unless the process that does it is killed.  *)
(* A guest that joins fails only if the segment whose id it read has been  *)
(* replaced since, or if the others have all ended.                        *)
CurrentSegmentExists ==
  NobodyKilledInside =>
    \A p \in Procs :
      /\ pc[p] # "cannotMap"
      /\ pc[p] = "cannotJoin" =>
           base[p] # current \/ \A q \in Procs : Outsider(q) \/ pc[q] = "join"

(* The block list that balloc and bfree read and change is the one of the  *)
(* current segment, though the first check of the mapping is made before   *)
(* the semaphore is held; and nobody meets it half updated, unless a       *)
(* process was killed inside balloc or bfree.                              *)
WorksOnCurrent ==
  \A p \in Procs :
    /\ pc[p] \in {"scan", "release"} => mapped[p] = current
    /\ pc[p] = "scan" /\ NobodyKilledInside => mapped[p] \notin torn

(* Every segment but the current one is marked for deletion, or is just    *)
(* being prepared by resize_allocation_segment: nothing is left in the     *)
(* kernel when all processes have ended but the last segment.              *)
ReplacedSegmentsGo ==
  NobodyKilledInside =>
    \A s \in 1..created :
      s \in marked \/ s = current
        \/ \E p \in Procs : mapped[p] = s /\ pc[p] \in {"mark", "copy", "publish"}

(* A write is lost only if its segment had been copied before it was made  *)
(* (copy_blocks_and_append_new_from_free_space_left copies while others    *)
(* write without semId): whatever was written before, by whoever, is in    *)
(* the current segment, through any number of replacements, though some    *)
(* are left unfinished by a kill.                                          *)
WritesSurvive == \A s \in Segments : content[s] \subseteq content[current] \cup late

(* p's mapping was checked before another process replaced the segment.    *)
Overtaken(p) == pc[p] = "acquire" /\ mapped[p] # current

(* Every call returns, or ends its process, if nobody is overtaken: the    *)
(* remap inside the critical section (is_ptr_null at shared_allocator.c:   *)
(* 180, 215 and 266) is the only place where a process waits for itself.   *)
CallsReturnUnlessOvertaken ==
  [](\A p \in Procs : ~ Overtaken(p))
    => \A p \in Procs : []<>(Outsider(p) \/ pc[p] = "idle")

=============================================================================
