--------------------------- MODULE SegmentMapProofs ---------------------------
(***************************************************************************)
(* Proofs about module SegmentMap, for every set of processes, whoever of  *)
(* them may be killed or joins late, and any number of segments and calls. *)
(***************************************************************************)
EXTENDS SegmentMap, TLAPS

(* Where remap_allocation_segment_if_necessary returns to.                 *)
Returns == {"idle", "list", "acquire", "scan", "element"}

(* The types of all variables; each is attached to segments that exist.    *)
TypeInv ==
  /\ SegmentTypeOK
  /\ then \in [Procs -> Returns]
  /\ op \in [Procs -> {"none", "insert", "free"}]
  /\ mapped \in [Procs -> Nat] /\ old \in [Procs -> Nat] /\ base \in [Procs -> Nat]
  /\ left \in [Procs -> Nat]
  /\ content = [s \in Segments |-> content[s]]

ReplaceLabels == {"mark", "copy", "publish", "detach", "remove"}

(* Those in the critical section of balloc, bfree or of the remap.  A      *)
(* process whose check inside the section fails waits for itself.          *)
InSection(p) ==
  \/ pc[p] \in ReplaceLabels \cup {"map", "mapped", "scan", "release"}
  \/ pc[p] \in {"check", "acquireToMap"} /\ then[p] = "scan"

(* The semaphore of the heap is a lock, and the remap outside the section  *)
(* does not lead into it.                                                  *)
SectionInv ==
  \A p \in Procs :
    /\ heap = p <=> InSection(p)
    /\ pc[p] \in ReplaceLabels \cup {"scan", "release"} => then[p] = "scan"
    /\ pc[p] \in {"map", "mapped"} => then[p] # "scan"
    /\ pc[p] \in {"check", "acquireToMap", "map", "mapped"} => then[p] # "idle"

(* Which segment a process is attached to: one that is or was current, or  *)
(* the newest, which it prepares.                                          *)
Preparing(p) == pc[p] \in {"mark", "copy", "publish"}

MappingInv ==
  /\ \A s \in marked : s <= current
  /\ \A p \in Procs :
       /\ IF Preparing(p)
            THEN mapped[p] = created /\ old[p] = current /\ current < created
            ELSE mapped[p] <= current
       /\ pc[p] \in {"mapped", "scan", "release", "detach", "remove"}
            => mapped[p] = current
       /\ pc[p] \in {"detach", "remove"} => old[p] < current
       /\ pc[p] \in {"acquireToMap", "map"} => 1 < current
       /\ pc[p] \in {"join", "cannotJoin"} => base[p] \in 1..current

(* The current segment is marked only if it is the first or is replaced.   *)
MarkedIsReplaced ==
  current \in marked =>
    current = 1 \/ \E r \in Procs : pc[r] \in {"copy", "publish"}

ReplacedIsMarked ==
  \A p \in Procs : pc[p] \in {"copy", "publish"} => current \in marked

AllCouldMap == \A p \in Procs : pc[p] # "cannotMap"

(* A guest that could not join had read an older id, or all had ended.     *)
JoinsFailLate ==
  \A p \in Procs :
    pc[p] = "cannotJoin" =>
      \/ base[p] < current
      \/ current \in marked /\ \A q \in Procs : Outsider(q) \/ pc[q] = "join"

ExistenceInv ==
  NobodyKilledInside =>
    MarkedIsReplaced /\ ReplacedIsMarked /\ AllCouldMap /\ JoinsFailLate
      /\ ReplacedSegmentsGo

(* If nobody was killed inside, a half updated list is being updated.      *)
TornInv ==
  NobodyKilledInside =>
    \A s \in torn : \E p \in Procs : pc[p] = "release" /\ mapped[p] = s

(* A copy has every write that its publication may not lose.               *)
WritesInv ==
  /\ WritesSurvive
  /\ \A p \in Procs : pc[p] = "publish" =>
       \A s \in Segments : content[s] \subseteq content[mapped[p]] \cup late

(* The inductive invariant.                                                *)
SegmentInv ==
  TypeInv /\ SectionInv /\ MappingInv /\ ExistenceInv /\ TornInv /\ WritesInv

(* A process of SegmentMap makes a step.                                   *)
Step(p) == call(p) \/ Run(p) \/ free_guest(p) \/ kill(p)

(* A process that ends, or moves, keeps the types.                         *)
LEMMA EndsType ==
  ASSUME TypeInv, NEW p \in Procs, NEW how \in Gone, ends(p, how),
         then' \in [Procs -> Returns],
         UNCHANGED <<segments, op, base, left, torn, history>>
  PROVE  TypeInv'
BY DEF TypeInv, SegmentTypeOK, ends, maps, Labels, Gone, Outsider, NoSegment,
   segments, history

LEMMA NextSegment ==
  ASSUME created \in Segments, created < MaxSegments
  PROVE  /\ created + 1 \in Segments /\ created + 1 # NoSegment /\ created + 1 \in Nat
         /\ created \in Nat /\ 1..created \subseteq 1..(created + 1)
BY SegmentMapAssumption DEF Segments, NoSegment

LEMMA TypeStep ==
  ASSUME TypeInv, MappingInv, NEW p \in Procs, Step(p)
  PROVE  TypeInv'
<1> USE SegmentMapAssumption DEF TypeInv, SegmentTypeOK, Labels, Gone, Outsider,
      Returns, segments, attachments, history, Segments, NoSegment
<1>1. CASE join_read(p)
  <2>1. current \in Nat
    OBVIOUS
  <2> QED
    BY <1>1, <2>1 DEF join_read, move
<1>2. CASE join_attach(p)
  <2>1. CASE Exists(base[p])
    <3>1. base[p] \in 1..created
      BY <1>2 DEF join_attach, MappingInv, move
    <3>2. /\ pc[p] = "join" /\ pc' = [pc EXCEPT ![p] = "idle"]
          /\ mapped' = [mapped EXCEPT ![p] = base[p]]
          /\ UNCHANGED <<segments, old, heap, then, op, base, left, torn, history>>
      BY <1>2, <2>1 DEF join_attach, move, maps
    <3>3. base[p] \in Nat /\ base[p] # NoSegment
      BY <3>1
    <3> QED
      BY <3>2, <3>3
  <2>2. CASE ~ Exists(base[p])
    BY <1>2, <2>2, EndsType DEF join_attach
  <2> QED
    BY <2>1, <2>2
<1>3. CASE call(p)
  <2>1. PICK o \in {"insert", "free"} :
          /\ op' = [op EXCEPT ![p] = o]
          /\ then' = [then EXCEPT ![p] = IF o = "insert" THEN "list" ELSE "acquire"]
    BY <1>3 DEF call
  <2>2. /\ pc[p] = "idle" /\ left[p] - 1 \in Nat
        /\ pc' = [pc EXCEPT ![p] = "check"] /\ left' = [left EXCEPT ![p] = left[p] - 1]
        /\ UNCHANGED <<segments, attachments, heap, base, torn, history>>
    BY <1>3 DEF call
  <2> QED
    BY <2>1, <2>2
<1>4. CASE remap_not_needed(p)
  BY <1>4 DEF remap_not_needed, move
<1>5. CASE remap_unmap(p)
  BY <1>5 DEF remap_unmap, move, maps
<1>6. CASE remap_acquire(p)
  BY <1>6 DEF remap_acquire, move, acquire_semaphore
<1>7. CASE remap_map(p)
  <2>1. CASE Exists(current)
    <3>1. /\ pc[p] = "map" /\ pc' = [pc EXCEPT ![p] = "mapped"]
          /\ mapped' = [mapped EXCEPT ![p] = current]
          /\ UNCHANGED <<segments, old, heap, then, op, base, left, torn, history>>
      BY <1>7, <2>1 DEF remap_map, move, maps
    <3>2. current \in Nat /\ current # NoSegment
      OBVIOUS
    <3> QED
      BY <3>1, <3>2
  <2>2. CASE ~ Exists(current)
    BY <1>7, <2>2, EndsType DEF remap_map
  <2> QED
    BY <2>1, <2>2
<1>8. CASE remap_release(p)
  BY <1>8 DEF remap_release, move
<1>9. CASE heap_acquire(p)
  BY <1>9 DEF heap_acquire, move, acquire_semaphore
<1>10. CASE heap_update(p)
  BY <1>10 DEF heap_update, move
<1>11. CASE heap_release(p)
  BY <1>11 DEF heap_release, move
<1>12. CASE resize_create(p)
  <2>0. created \in Segments /\ created < MaxSegments
    BY <1>12 DEF resize_create
  <2>1. /\ created + 1 \in Segments /\ created + 1 # NoSegment /\ created + 1 \in Nat
        /\ 1..created \subseteq 1..(created + 1)
    BY <2>0, NextSegment
  <2>2. pc[p] = "scan" /\ mapped[p] # NoSegment
    BY <1>12 DEF resize_create, move
  <2>3. /\ pc' = [pc EXCEPT ![p] = "mark"] /\ old' = [old EXCEPT ![p] = mapped[p]]
        /\ mapped' = [mapped EXCEPT ![p] = created + 1] /\ created' = created + 1
        /\ UNCHANGED <<current, marked, heap, then, op, base, left, torn, history>>
    BY <1>12 DEF resize_create, move, maps
  <2>4. /\ current' \in 1..created' /\ created' \in Segments
        /\ marked' \subseteq 1..created' /\ heap' \in Procs \cup {Nobody}
        /\ pc' \in [Procs -> Labels] /\ then' \in [Procs -> Returns]
    BY <2>1, <2>3
  <2>5. /\ mapped' \in [Procs -> Nat] /\ old' \in [Procs -> Nat]
        /\ op' = op /\ base' = base /\ left' = left /\ content' = content
    BY <2>1, <2>3
  <2>6. \A q \in Procs :
          /\ mapped'[q] = NoSegment <=>
               pc'[q] \in Gone \cup {"outside", "join", "acquireToMap", "map"}
          /\ old'[q] # NoSegment <=>
               pc'[q] \in {"mark", "copy", "publish", "detach", "remove"}
    BY <2>1, <2>2, <2>3
  <2> QED
    BY <2>4, <2>5, <2>6
<1>13. CASE mark_allocation_segment_for_deletion(p)
  BY <1>13 DEF mark_allocation_segment_for_deletion, move
<1>14. CASE copy_blocks(p)
  BY <1>14 DEF copy_blocks, move, Copied
<1>15. CASE resize_publish(p)
  <2>1. mapped[p] \in 1..created
    BY <1>15 DEF resize_publish, move, MappingInv, Preparing
  <2> QED
    BY <1>15, <2>1 DEF resize_publish, move
<1>16. CASE resize_detach(p)
  BY <1>16 DEF resize_detach, move
<1>17. CASE resize_remove(p)
  <2>1. CASE Exists(old[p])
    <3>1. old[p] \in 1..created
      BY <1>17, <2>1 DEF resize_remove, Exists
    <3>2. /\ pc[p] = "remove" /\ pc' = [pc EXCEPT ![p] = "check"]
          /\ marked' = marked \cup {old[p]} /\ old' = [old EXCEPT ![p] = NoSegment]
          /\ UNCHANGED <<current, created, mapped, heap, then, op, base, left, torn,
                         history>>
      BY <1>17, <2>1 DEF resize_remove, move
    <3> QED
      BY <3>1, <3>2
  <2>2. CASE ~ Exists(old[p])
    BY <1>17, <2>2, EndsType DEF resize_remove
  <2> QED
    BY <2>1, <2>2
<1>18. CASE deref_list(p)
  BY <1>18 DEF deref_list, move, takes_pointer
<1>19. CASE use_list(p)
  <2>1. CASE base[p] = mapped[p]
    <3>1. /\ pc[p] = "useList" /\ pc' = [pc EXCEPT ![p] = "check"]
          /\ then' = [then EXCEPT ![p] = "element"]
          /\ UNCHANGED <<segments, attachments, heap, op, base, left, torn, history>>
      BY <1>19, <2>1 DEF use_list, move
    <3> QED
      BY <3>1
  <2>2. CASE base[p] # mapped[p]
    BY <1>19, <2>2, EndsType DEF use_list
  <2> QED
    BY <2>1, <2>2
<1>20. CASE deref_element(p)
  BY <1>20 DEF deref_element, move, takes_pointer
<1>21. CASE write_element(p)
  BY <1>21 DEF write_element, move
<1>22. CASE free_guest(p)
  BY <1>22, EndsType DEF free_guest
<1>23. CASE kill(p)
  BY <1>23, EndsType DEF kill
<1> QED
  BY <1>1, <1>2, <1>3, <1>4, <1>5, <1>6, <1>7, <1>8, <1>9, <1>10, <1>11, <1>12,
     <1>13,
         <1>14, <1>15, <1>16, <1>17, <1>18, <1>19, <1>20, <1>21, <1>22, <1>23 DEF Step,
       Run, Join, Remap, Resize, Insert
(* The semaphore of the heap stays a lock.                                 *)
LEMMA SectionStep ==
  ASSUME TypeInv, SectionInv, NEW p \in Procs, Step(p)
  PROVE  SectionInv'
<1> USE SegmentMapAssumption DEF SectionInv, InSection, ReplaceLabels, TypeInv,
       SegmentTypeOK, Returns, segments, attachments, history
<1>1. CASE join_read(p)
  BY <1>1 DEF join_read, move
<1>2. CASE join_attach(p)
  BY <1>2 DEF join_attach, move, maps, ends
<1>3. CASE call(p)
  BY <1>3 DEF call, move
<1>4. CASE remap_not_needed(p)
  BY <1>4 DEF remap_not_needed, move
<1>5. CASE remap_unmap(p)
  BY <1>5 DEF remap_unmap, move, maps
<1>6. CASE remap_acquire(p)
  BY <1>6 DEF remap_acquire, move, acquire_semaphore
<1>7. CASE remap_map(p)
  BY <1>7 DEF remap_map, move, maps, ends
<1>8. CASE remap_release(p)
  BY <1>8 DEF remap_release, move
<1>9. CASE heap_acquire(p)
  BY <1>9 DEF heap_acquire, move, acquire_semaphore
<1>10. CASE heap_update(p)
  BY <1>10 DEF heap_update, move
<1>11. CASE heap_release(p)
  BY <1>11 DEF heap_release, move
<1>12. CASE resize_create(p)
  BY <1>12 DEF resize_create, move, maps
<1>13. CASE mark_allocation_segment_for_deletion(p)
  BY <1>13 DEF mark_allocation_segment_for_deletion, move
<1>14. CASE copy_blocks(p)
  BY <1>14 DEF copy_blocks, move, Copied
<1>15. CASE resize_publish(p)
  BY <1>15 DEF resize_publish, move
<1>16. CASE resize_detach(p)
  BY <1>16 DEF resize_detach, move
<1>17. CASE resize_remove(p)
  BY <1>17 DEF resize_remove, move, ends, maps
<1>18. CASE deref_list(p)
  BY <1>18 DEF deref_list, move, takes_pointer
<1>19. CASE use_list(p)
  BY <1>19 DEF use_list, move, ends, maps
<1>20. CASE deref_element(p)
  BY <1>20 DEF deref_element, move, takes_pointer
<1>21. CASE write_element(p)
  BY <1>21 DEF write_element, move
<1>22. CASE free_guest(p)
  BY <1>22 DEF free_guest, move, ends, maps
<1>23. CASE kill(p)
  BY <1>23 DEF kill, move, ends, maps
<1> QED
  BY <1>1, <1>2, <1>3, <1>4, <1>5, <1>6, <1>7, <1>8, <1>9, <1>10, <1>11, <1>12,
     <1>13,
         <1>14, <1>15, <1>16, <1>17, <1>18, <1>19, <1>20, <1>21, <1>22, <1>23 DEF Step,
       Run, Join, Remap, Resize, Insert
(* The types that arithmetic about segments needs.                         *)
LEMMA PlainTypes ==
  ASSUME TypeInv
  PROVE  /\ pc \in [Procs -> Labels] /\ then \in [Procs -> Returns]
         /\ mapped \in [Procs -> Nat] /\ old \in [Procs -> Nat] /\ base \in [Procs -> Nat]
         /\ current \in Nat /\ created \in Nat /\ 1 <= current /\ current <= created
         /\ marked \subseteq Nat
BY SegmentMapAssumption DEF TypeInv, SegmentTypeOK, Segments

(* Nobody is left on a segment where it must not be.                       *)
LEMMA MappingStep ==
  ASSUME TypeInv, SectionInv, MappingInv, NEW p \in Procs, Step(p)
  PROVE  MappingInv'
<1>0. /\ pc \in [Procs -> Labels] /\ then \in [Procs -> Returns]
      /\ mapped \in [Procs -> Nat] /\ old \in [Procs -> Nat] /\ base \in [Procs -> Nat]
      /\ current \in Nat /\ created \in Nat /\ 1 <= current /\ current <= created
      /\ marked \subseteq Nat
  BY PlainTypes
<1> USE <1>0 DEF MappingInv, Preparing, SectionInv, InSection, ReplaceLabels,
      NoSegment,
      segments, attachments, history
<1>1. CASE join_read(p)
  <2>1. current \in 1..current /\ mapped[p] <= current
    BY <1>1 DEF join_read, move
  <2> QED
    BY <1>1, <2>1 DEF join_read, move
<1>2. CASE join_attach(p)
  BY <1>2 DEF join_attach, move, maps, ends
<1>3. CASE call(p)
  BY <1>3 DEF call, move
<1>4. CASE remap_not_needed(p)
  <2>1. then[p] \in {"list", "acquire", "scan", "element"} /\ mapped[p] = current
    BY <1>4 DEF remap_not_needed, move, Returns
  <2> QED
    BY <1>4, <2>1 DEF remap_not_needed, move
<1>5. CASE remap_unmap(p)
  <2>1. mapped[p] \in Nat /\ mapped[p] # 0 /\ mapped[p] < current
    <3>1. mapped[p] \in Nat /\ mapped[p] # current /\ pc[p] = "check"
      BY <1>5 DEF remap_unmap, move
    <3>2. mapped[p] # 0
      BY <3>1 DEF TypeInv, SegmentTypeOK, Outsider, Gone
    <3>3. mapped[p] <= current
      BY <3>1
    <3> QED
      BY <3>1, <3>2, <3>3
  <2> QED
    BY <1>5, <2>1 DEF remap_unmap, move, maps
<1>6. CASE remap_acquire(p)
  BY <1>6 DEF remap_acquire, move, acquire_semaphore
<1>7. CASE remap_map(p)
  BY <1>7 DEF remap_map, move, maps, ends
<1>8. CASE remap_release(p)
  <2>1. then[p] \in {"list", "acquire", "element"}
    BY <1>8 DEF remap_release, move, Returns
  <2> QED
    BY <1>8, <2>1 DEF remap_release, move
<1>9. CASE heap_acquire(p)
  BY <1>9 DEF heap_acquire, move, acquire_semaphore
<1>10. CASE heap_update(p)
  BY <1>10 DEF heap_update, move
<1>11. CASE heap_release(p)
  BY <1>11 DEF heap_release, move
<1>12. CASE resize_create(p)
  BY <1>12 DEF resize_create, move, maps
<1>13. CASE mark_allocation_segment_for_deletion(p)
  BY <1>13 DEF mark_allocation_segment_for_deletion, move
<1>14. CASE copy_blocks(p)
  BY <1>14 DEF copy_blocks, move, Copied
<1>15. CASE resize_publish(p)
  BY <1>15 DEF resize_publish, move
<1>16. CASE resize_detach(p)
  BY <1>16 DEF resize_detach, move
<1>17. CASE resize_remove(p)
  <2>1. mapped[p] = current /\ old[p] \in Nat /\ old[p] <= current
    BY <1>17 DEF resize_remove
  <2>2. CASE Exists(old[p])
    <3>1. marked' = marked \cup {old[p]} /\ current' = current
      BY <1>17, <2>2 DEF resize_remove
    <3>2. \A s \in marked' : s <= current'
      BY <2>1, <3>1
    <3> QED
      BY <1>17, <2>1, <2>2, <3>2 DEF resize_remove, move
  <2>3. CASE ~ Exists(old[p])
    <3>1. /\ ends(p, "cannotRemove")
          /\ UNCHANGED <<current, created, marked, base>>
      BY <1>17, <2>3 DEF resize_remove
    <3> QED
      BY <3>1 DEF ends, maps
  <2> QED
    BY <2>2, <2>3
<1>18. CASE deref_list(p)
  BY <1>18 DEF deref_list, move, takes_pointer
<1>19. CASE use_list(p)
  <2>1. CASE base[p] = mapped[p]
    BY <1>19, <2>1 DEF use_list, move
  <2>2. CASE base[p] # mapped[p]
    BY <1>19, <2>2 DEF use_list, ends, maps
  <2> QED
    BY <2>1, <2>2
<1>20. CASE deref_element(p)
  BY <1>20 DEF deref_element, move, takes_pointer
<1>21. CASE write_element(p)
  BY <1>21 DEF write_element, move
<1>22. CASE free_guest(p)
  BY <1>22 DEF free_guest, move, ends, maps
<1>23. CASE kill(p)
  BY <1>23 DEF kill, move, ends, maps
<1> QED
  BY <1>1, <1>2, <1>3, <1>4, <1>5, <1>6, <1>7, <1>8, <1>9, <1>10, <1>11, <1>12,
     <1>13,
         <1>14, <1>15, <1>16, <1>17, <1>18, <1>19, <1>20, <1>21, <1>22, <1>23 DEF Step,
       Run, Join, Remap, Resize, Insert

(* A step is one process's, which has not ended.                           *)
LEMMA OneMoves ==
  ASSUME TypeInv, NEW p \in Procs, Step(p)
  PROVE  /\ pc[p] \notin Gone
         /\ \A q \in Procs \ {p} :
              /\ pc'[q] = pc[q] /\ mapped'[q] = mapped[q]
              /\ old'[q] = old[q] /\ base'[q] = base[q]
<1>0. /\ pc \in [Procs -> Labels] /\ mapped \in [Procs -> Nat]
      /\ old \in [Procs -> Nat] /\ base \in [Procs -> Nat]
  BY PlainTypes
<1> USE <1>0 DEF Gone, attachments
<1>1. CASE join_read(p)
  BY <1>1 DEF join_read, move
<1>2. CASE join_attach(p)
  BY <1>2 DEF join_attach, move, maps, ends
<1>3. CASE call(p)
  BY <1>3 DEF call, move
<1>4. CASE remap_not_needed(p)
  BY <1>4 DEF remap_not_needed, move
<1>5. CASE remap_unmap(p)
  BY <1>5 DEF remap_unmap, move, maps
<1>6. CASE remap_acquire(p)
  BY <1>6 DEF remap_acquire, move, acquire_semaphore
<1>7. CASE remap_map(p)
  BY <1>7 DEF remap_map, move, maps, ends
<1>8. CASE remap_release(p)
  BY <1>8 DEF remap_release, move
<1>9. CASE heap_acquire(p)
  BY <1>9 DEF heap_acquire, move, acquire_semaphore
<1>10. CASE heap_update(p)
  BY <1>10 DEF heap_update, move
<1>11. CASE heap_release(p)
  BY <1>11 DEF heap_release, move
<1>12. CASE resize_create(p)
  BY <1>12 DEF resize_create, move, maps
<1>13. CASE mark_allocation_segment_for_deletion(p)
  BY <1>13 DEF mark_allocation_segment_for_deletion, move
<1>14. CASE copy_blocks(p)
  BY <1>14 DEF copy_blocks, move, Copied
<1>15. CASE resize_publish(p)
  BY <1>15 DEF resize_publish, move
<1>16. CASE resize_detach(p)
  BY <1>16 DEF resize_detach, move
<1>17. CASE resize_remove(p)
  BY <1>17 DEF resize_remove, move, ends, maps
<1>18. CASE deref_list(p)
  BY <1>18 DEF deref_list, move, takes_pointer
<1>19. CASE use_list(p)
  BY <1>19 DEF use_list, move, ends, maps
<1>20. CASE deref_element(p)
  BY <1>20 DEF deref_element, move, takes_pointer
<1>21. CASE write_element(p)
  BY <1>21 DEF write_element, move
<1>22. CASE free_guest(p)
  BY <1>22 DEF free_guest, move, ends, maps
<1>23. CASE kill(p)
  BY <1>23 DEF kill, ends, maps, Outsider
<1> QED
  BY <1>1, <1>2, <1>3, <1>4, <1>5, <1>6, <1>7, <1>8, <1>9, <1>10, <1>11, <1>12,
     <1>13,
         <1>14, <1>15, <1>16, <1>17, <1>18, <1>19, <1>20, <1>21, <1>22, <1>23 DEF Step,
       Run, Join, Remap, Resize, Insert

(* Whoever has to follow the heap finds the current segment.               *)
LEMMA CanMap ==
  ASSUME TypeInv, SectionInv, MappingInv, ExistenceInv, NobodyKilledInside,
         NEW p \in Procs, pc[p] = "map"
  PROVE  Exists(current)
<1>1. current \in Nat /\ created \in Nat /\ current <= created /\ 1 < current
  BY PlainTypes DEF MappingInv
<1>2. \A r \in Procs : pc[r] \notin {"copy", "publish"}
  BY DEF SectionInv, InSection, ReplaceLabels
<1> QED
  BY <1>1, <1>2 DEF ExistenceInv, MarkedIsReplaced, Exists

(* The current segment is gone only if everybody who used it has ended.    *)
LEMMA LonelySegment ==
  ASSUME TypeInv, MappingInv, MarkedIsReplaced, ~ Exists(current)
  PROVE  current \in marked /\ \A r \in Procs : Outsider(r) \/ pc[r] = "join"
<1>0. /\ mapped \in [Procs -> Nat] /\ current \in Nat /\ created \in Nat
      /\ current <= created
  BY PlainTypes
<1>1. current \in marked /\ ~ Attached(current)
  BY <1>0 DEF Exists
<1>2. \A r \in Procs : ~ Preparing(r)
  BY <1>1 DEF Preparing, MappingInv, Attached
<1>3. current = 1
  BY <1>1, <1>2 DEF MarkedIsReplaced, Preparing
<1>4. ASSUME NEW r \in Procs, ~ Outsider(r), pc[r] # "join"
      PROVE  FALSE
  <2>1. pc[r] \notin {"acquireToMap", "map"}
    BY <1>3 DEF MappingInv
  <2>2. mapped[r] # 0
    BY <1>4, <2>1 DEF TypeInv, SegmentTypeOK, NoSegment
  <2>3. mapped[r] <= 1
    BY <1>2, <1>3 DEF MappingInv
  <2> QED
    BY <1>0, <1>1, <1>3, <2>2, <2>3 DEF Attached
<1> QED
  BY <1>1, <1>4

(* When everybody has ended, no segment that was current is left but an    *)
(* unmarked one.                                                           *)
LEMMA DesertedSpace ==
  ASSUME TypeInv, MappingInv, NobodyKilledInside, ReplacedSegmentsGo,
         current \in marked, \A r \in Procs : Outsider(r) \/ pc[r] = "join",
         NEW s \in 1..current
  PROVE  ~ Exists(s)
<1>0. current \in Nat /\ created \in Nat /\ current <= created
  BY PlainTypes
<1>1. \A r \in Procs : mapped[r] = 0 /\ old[r] = 0 /\ ~ Preparing(r)
  BY DEF TypeInv, SegmentTypeOK, NoSegment, Outsider, Gone, Preparing
<1>2. s \in marked
  BY <1>0, <1>1 DEF ReplacedSegmentsGo, Preparing
<1>3. ~ Attached(s)
  BY <1>0, <1>1 DEF Attached
<1> QED
  BY <1>2, <1>3 DEF Exists

(* Whether the segments are left alone, and nobody prepares one.           *)
Quiet(p) ==
  /\ UNCHANGED segments
  /\ ~ Preparing(p) /\ ~ Preparing(p)'
  /\ pc[p] = "outside" => pc'[p] = "join"
  /\ pc[p] = "join" => pc'[p] \in Gone
  /\ pc'[p] \notin {"cannotMap", "cannotJoin"}

(* The steps that matter to the existence of segments.                     *)
LEMMA StepKinds ==
  ASSUME TypeInv, SectionInv, MappingInv, ExistenceInv, NobodyKilledInside,
         NobodyKilledInside', NEW p \in Procs, Step(p)
  PROVE  \/ Quiet(p) \/ join_attach(p) \/ resize_create(p)
         \/ mark_allocation_segment_for_deletion(p) \/ copy_blocks(p)
         \/ resize_publish(p) \/ resize_remove(p)
<1>0. /\ pc \in [Procs -> Labels] /\ then \in [Procs -> Returns]
      /\ then[p] \in Returns
  BY PlainTypes
<1> USE <1>0 DEF Quiet, Preparing
<1>1. CASE join_read(p)
  BY <1>1 DEF join_read, move
<1>2. CASE join_attach(p)
  BY <1>2
<1>3. CASE call(p)
  BY <1>3 DEF call, move
<1>4. CASE remap_not_needed(p)
  BY <1>4 DEF remap_not_needed, move, Returns
<1>5. CASE remap_unmap(p)
  BY <1>5 DEF remap_unmap, move, maps
<1>6. CASE remap_acquire(p)
  BY <1>6 DEF remap_acquire, move, acquire_semaphore
<1>7. CASE remap_map(p)
  BY <1>7, CanMap DEF remap_map, move
<1>8. CASE remap_release(p)
  BY <1>8 DEF remap_release, move, Returns
<1>9. CASE heap_acquire(p)
  BY <1>9 DEF heap_acquire, move, acquire_semaphore
<1>10. CASE heap_update(p)
  BY <1>10 DEF heap_update, move
<1>11. CASE heap_release(p)
  BY <1>11 DEF heap_release, move
<1>12. CASE resize_create(p)
  BY <1>12
<1>13. CASE mark_allocation_segment_for_deletion(p)
  BY <1>13
<1>14. CASE copy_blocks(p)
  BY <1>14
<1>15. CASE resize_publish(p)
  BY <1>15
<1>16. CASE resize_detach(p)
  BY <1>16 DEF resize_detach, move
<1>17. CASE resize_remove(p)
  BY <1>17
<1>18. CASE deref_list(p)
  BY <1>18 DEF deref_list, move, takes_pointer
<1>19. CASE use_list(p)
  BY <1>19 DEF use_list, move, ends, maps
<1>20. CASE deref_element(p)
  BY <1>20 DEF deref_element, move, takes_pointer
<1>21. CASE write_element(p)
  BY <1>21 DEF write_element, move
<1>22. CASE free_guest(p)
  BY <1>22 DEF free_guest, move, ends, maps
<1>23. CASE kill(p)
  <2>1. pc' = [pc EXCEPT ![p] = IF heap = p THEN "killedInside" ELSE "killed"]
    BY <1>23 DEF kill, ends
  <2>2. heap # p
    BY <2>1 DEF NobodyKilledInside
  <2>3. ~ Preparing(p)
    BY <2>2 DEF SectionInv, InSection, ReplaceLabels
  <2>4. pc[p] # "outside"
    BY <1>23 DEF kill, Outsider
  <2> QED
    BY <1>23, <2>1, <2>2, <2>3, <2>4 DEF kill, Gone
<1> QED
  BY <1>1, <1>2, <1>3, <1>4, <1>5, <1>6, <1>7, <1>8, <1>9, <1>10, <1>11, <1>12,
     <1>13,
         <1>14, <1>15, <1>16, <1>17, <1>18, <1>19, <1>20, <1>21, <1>22, <1>23 DEF Step,
       Run, Join, Remap, Resize, Insert

-----------------------------------------------------------------------------
(* The existence of the current segment is kept by a step in the course of *)
(* which nobody is killed inside.                                          *)
LEMMA ExistenceStep ==
  ASSUME TypeInv, SectionInv, MappingInv, ExistenceInv,
         TypeInv', MappingInv', NEW p \in Procs, Step(p)
  PROVE  ExistenceInv'
<1> SUFFICES ASSUME NobodyKilledInside'
             PROVE  /\ MarkedIsReplaced' /\ ReplacedIsMarked' /\ AllCouldMap'
                    /\ JoinsFailLate' /\ ReplacedSegmentsGo'
  BY DEF ExistenceInv
<1>1. /\ pc[p] \notin Gone
      /\ \A q \in Procs \ {p} :
           /\ pc'[q] = pc[q] /\ mapped'[q] = mapped[q]
           /\ old'[q] = old[q] /\ base'[q] = base[q]
  BY OneMoves
<1>2. NobodyKilledInside
  BY <1>1 DEF NobodyKilledInside, Gone
<1>3. MarkedIsReplaced /\ ReplacedIsMarked /\ AllCouldMap /\ JoinsFailLate /\ ReplacedSegmentsGo
  BY <1>2 DEF ExistenceInv
<1>4. /\ pc \in [Procs -> Labels] /\ mapped \in [Procs -> Nat]
      /\ old \in [Procs -> Nat] /\ base \in [Procs -> Nat]
      /\ current \in Nat /\ created \in Nat /\ 1 <= current /\ current <= created
      /\ marked \subseteq Nat
  BY PlainTypes
<1> USE <1>1, <1>2, <1>3, <1>4 DEF Preparing
<1>5. CASE Quiet(p)
  <2>1. MarkedIsReplaced'
    BY <1>5 DEF Quiet, segments, MarkedIsReplaced
  <2>2. ReplacedIsMarked'
    BY <1>5 DEF Quiet, segments, ReplacedIsMarked
  <2>3. AllCouldMap'
    BY <1>5 DEF Quiet, segments, AllCouldMap
  <2>4. JoinsFailLate'
    BY <1>5 DEF Quiet, segments, JoinsFailLate, Outsider, Gone
  <2>5. ReplacedSegmentsGo'
    BY <1>5 DEF Quiet, segments, ReplacedSegmentsGo
  <2> QED
    BY <2>1, <2>2, <2>3, <2>4, <2>5
<1>6. CASE join_attach(p)
  <2>1. MarkedIsReplaced'
    BY <1>6 DEF join_attach, move, maps, ends, segments, attachments,
       MarkedIsReplaced
  <2>2. ReplacedIsMarked'
    BY <1>6 DEF join_attach, move, maps, ends, segments, attachments,
       ReplacedIsMarked
  <2>3. AllCouldMap'
    BY <1>6 DEF join_attach, move, maps, ends, segments, attachments, AllCouldMap
  <2>4. JoinsFailLate'
    <3>1. /\ pc[p] = "join" /\ base[p] \in 1..current /\ UNCHANGED <<segments, base>>
      BY <1>6 DEF join_attach, move, MappingInv
    <3>2. CASE ~ Exists(base[p])
      <4>1. Outsider(p)' /\ pc'[p] = "cannotJoin"
        BY <1>6, <3>2 DEF join_attach, ends, Outsider, Gone
      <4>2. base[p] = current =>
              current \in marked /\ \A r \in Procs : Outsider(r) \/ pc[r] = "join"
        BY <3>1, <3>2, LonelySegment
      <4> QED
        BY <3>1, <4>1, <4>2 DEF JoinsFailLate, Outsider, segments
    <3>3. CASE Exists(base[p])
      <4>1. pc' = [pc EXCEPT ![p] = "idle"]
        BY <1>6, <3>3 DEF join_attach, move
      <4>2. ~ (current \in marked /\ \A r \in Procs : Outsider(r) \/ pc[r] = "join")
        BY <3>1, <3>3, DesertedSpace
      <4> QED
        BY <3>1, <4>1, <4>2 DEF JoinsFailLate, segments
    <3> QED
      BY <3>2, <3>3
  <2>5. ReplacedSegmentsGo'
    BY <1>6 DEF join_attach, move, maps, ends, segments, attachments,
       ReplacedSegmentsGo
  <2> QED
    BY <2>1, <2>2, <2>3, <2>4, <2>5
<1>7. CASE resize_create(p)
  <2>1. MarkedIsReplaced'
    BY <1>7 DEF resize_create, move, maps, attachments, history, MarkedIsReplaced
  <2>2. ReplacedIsMarked'
    BY <1>7 DEF resize_create, move, maps, attachments, history, ReplacedIsMarked
  <2>3. AllCouldMap'
    BY <1>7 DEF resize_create, move, maps, attachments, history, AllCouldMap
  <2>4. JoinsFailLate'
    BY <1>7 DEF resize_create, move, maps, attachments, history, JoinsFailLate,
           Outsider, Gone
  <2>5. ReplacedSegmentsGo'
    BY <1>7 DEF resize_create, move, maps, attachments, history, ReplacedSegmentsGo
  <2> QED
    BY <2>1, <2>2, <2>3, <2>4, <2>5
<1>8. CASE mark_allocation_segment_for_deletion(p)
  <2>1. MarkedIsReplaced'
    BY <1>8 DEF mark_allocation_segment_for_deletion, move, attachments,
       MarkedIsReplaced
  <2>2. ReplacedIsMarked'
    BY <1>8 DEF mark_allocation_segment_for_deletion, move, attachments,
       ReplacedIsMarked
  <2>3. AllCouldMap'
    BY <1>8 DEF mark_allocation_segment_for_deletion, move, attachments, AllCouldMap
  <2>4. JoinsFailLate'
    BY <1>8 DEF mark_allocation_segment_for_deletion, move, attachments,
       JoinsFailLate,
           Outsider, Gone
  <2>5. ReplacedSegmentsGo'
    BY <1>8 DEF mark_allocation_segment_for_deletion, move, attachments,
       ReplacedSegmentsGo
  <2> QED
    BY <2>1, <2>2, <2>3, <2>4, <2>5
<1>9. CASE copy_blocks(p)
  <2>1. MarkedIsReplaced'
    BY <1>9 DEF copy_blocks, Copied, move, segments, attachments, MarkedIsReplaced
  <2>2. ReplacedIsMarked'
    BY <1>9 DEF copy_blocks, Copied, move, segments, attachments, ReplacedIsMarked
  <2>3. AllCouldMap'
    BY <1>9 DEF copy_blocks, Copied, move, segments, attachments, AllCouldMap
  <2>4. JoinsFailLate'
    BY <1>9 DEF copy_blocks, Copied, move, segments, attachments, JoinsFailLate,
           Outsider, Gone
  <2>5. ReplacedSegmentsGo'
    BY <1>9 DEF copy_blocks, Copied, move, segments, attachments, ReplacedSegmentsGo
  <2> QED
    BY <2>1, <2>2, <2>3, <2>4, <2>5
<1>10. CASE resize_publish(p)
  <2>1. MarkedIsReplaced'
    BY <1>10 DEF resize_publish, move, MappingInv, attachments, MarkedIsReplaced
  <2>2. ReplacedIsMarked'
    BY <1>10 DEF resize_publish, move, MappingInv, attachments, ReplacedIsMarked
  <2>3. AllCouldMap'
    BY <1>10 DEF resize_publish, move, MappingInv, attachments, AllCouldMap
  <2>4. JoinsFailLate'
    BY <1>10 DEF resize_publish, move, MappingInv, attachments, JoinsFailLate,
           Outsider, Gone
  <2>5. ReplacedSegmentsGo'
    <3>1. /\ pc[p] = "publish" /\ current' = mapped[p] /\ current \in marked
          /\ created' = created /\ marked' = marked /\ mapped' = mapped
      BY <1>10 DEF resize_publish, move, attachments, ReplacedIsMarked
    <3>2. \A r \in Procs \ {p} : ~ Preparing(r)
      BY <3>1 DEF SectionInv, InSection, ReplaceLabels
    <3> QED
      BY <3>1, <3>2 DEF ReplacedSegmentsGo
  <2> QED
    BY <2>1, <2>2, <2>3, <2>4, <2>5
<1>11. CASE resize_remove(p)
  <2>1. MarkedIsReplaced'
    BY <1>11 DEF resize_remove, move, ends, maps, attachments, MappingInv,
       MarkedIsReplaced
  <2>2. ReplacedIsMarked'
    BY <1>11 DEF resize_remove, move, ends, maps, attachments, MappingInv,
       ReplacedIsMarked
  <2>3. AllCouldMap'
    BY <1>11 DEF resize_remove, move, ends, maps, attachments, MappingInv,
       AllCouldMap
  <2>4. JoinsFailLate'
    BY <1>11 DEF resize_remove, move, ends, maps, attachments, MappingInv,
           JoinsFailLate, Outsider, Gone
  <2>5. ReplacedSegmentsGo'
    BY <1>11 DEF resize_remove, move, ends, maps, attachments, MappingInv,
           ReplacedSegmentsGo
  <2> QED
    BY <2>1, <2>2, <2>3, <2>4, <2>5
<1> QED
  BY <1>5, <1>6, <1>7, <1>8, <1>9, <1>10, <1>11, StepKinds

(* Nobody but the process in the section has a half updated list.          *)
LEMMA TornStep ==
  ASSUME TypeInv, SectionInv, TornInv, NEW p \in Procs, Step(p)
  PROVE  TornInv'
<1> SUFFICES ASSUME NobodyKilledInside'
             PROVE  \A s \in torn' : \E r \in Procs : pc'[r] = "release" /\ mapped'[r] = s
  BY DEF TornInv
<1>a. /\ pc[p] \notin Gone
      /\ \A q \in Procs \ {p} : pc'[q] = pc[q] /\ mapped'[q] = mapped[q]
  BY OneMoves
<1>b. NobodyKilledInside
  BY <1>a DEF NobodyKilledInside, Gone
<1>c. \A s \in torn : \E r \in Procs : pc[r] = "release" /\ mapped[r] = s
  BY <1>b DEF TornInv
<1>d. \A r \in Procs : pc[r] = "release" => heap = r
  BY DEF SectionInv, InSection
<1>e. pc \in [Procs -> Labels] /\ mapped \in [Procs -> Nat]
  BY PlainTypes
<1>f. ASSUME torn' = torn, pc[p] # "release"
      PROVE  \A s \in torn' : \E r \in Procs : pc'[r] = "release" /\ mapped'[r] = s
  BY <1>a, <1>c, <1>f
<1>1. CASE join_read(p)
  BY <1>1, <1>f DEF join_read, move
<1>2. CASE join_attach(p)
  BY <1>2, <1>f DEF join_attach, move, maps, ends
<1>3. CASE call(p)
  BY <1>3, <1>f DEF call, move
<1>4. CASE remap_not_needed(p)
  BY <1>4, <1>f DEF remap_not_needed, move
<1>5. CASE remap_unmap(p)
  BY <1>5, <1>f DEF remap_unmap, move, maps
<1>6. CASE remap_acquire(p)
  BY <1>6, <1>f DEF remap_acquire, move, acquire_semaphore
<1>7. CASE remap_map(p)
  BY <1>7, <1>f DEF remap_map, move, maps, ends
<1>8. CASE remap_release(p)
  BY <1>8, <1>f DEF remap_release, move
<1>9. CASE heap_acquire(p)
  BY <1>9, <1>f DEF heap_acquire, move, acquire_semaphore
<1>10. CASE heap_update(p)
  BY <1>10, <1>a, <1>c, <1>e DEF heap_update, move, attachments
<1>11. CASE heap_release(p)
  BY <1>11, <1>a, <1>c, <1>d DEF heap_release, move
<1>12. CASE resize_create(p)
  BY <1>12, <1>f DEF resize_create, move, maps
<1>13. CASE mark_allocation_segment_for_deletion(p)
  BY <1>13, <1>f DEF mark_allocation_segment_for_deletion, move
<1>14. CASE copy_blocks(p)
  <2>1. heap = p /\ pc[p] # "release"
    BY <1>14 DEF copy_blocks, move, Copied, SectionInv, InSection, ReplaceLabels
  <2>2. torn = {}
    BY <1>c, <1>d, <2>1
  <2> QED
    BY <1>14, <2>2 DEF copy_blocks, Copied
<1>15. CASE resize_publish(p)
  BY <1>15, <1>f DEF resize_publish, move
<1>16. CASE resize_detach(p)
  BY <1>16, <1>f DEF resize_detach, move
<1>17. CASE resize_remove(p)
  BY <1>17, <1>f DEF resize_remove, move, ends, maps
<1>18. CASE deref_list(p)
  BY <1>18, <1>f DEF deref_list, move, takes_pointer
<1>19. CASE use_list(p)
  BY <1>19, <1>f DEF use_list, move, ends, maps
<1>20. CASE deref_element(p)
  BY <1>20, <1>f DEF deref_element, move, takes_pointer
<1>21. CASE write_element(p)
  BY <1>21, <1>f DEF write_element, move
<1>22. CASE free_guest(p)
  BY <1>22, <1>f DEF free_guest, move, ends, maps
<1>23. CASE kill(p)
  <2>1. heap # p
    BY <1>23, <1>e DEF kill, ends, NobodyKilledInside
  <2> QED
    BY <1>23, <1>d, <1>f, <2>1 DEF kill
<1> QED
  BY <1>1, <1>2, <1>3, <1>4, <1>5, <1>6, <1>7, <1>8, <1>9, <1>10, <1>11, <1>12,
     <1>13,
         <1>14, <1>15, <1>16, <1>17, <1>18, <1>19, <1>20, <1>21, <1>22, <1>23 DEF Step,
       Run, Join, Remap, Resize, Insert

(* What must survive does.                                                 *)
LEMMA WritesStep ==
  ASSUME TypeInv, SectionInv, MappingInv, WritesInv, NEW p \in Procs, Step(p)
  PROVE  WritesInv'
<1>a. \A q \in Procs \ {p} : pc'[q] = pc[q] /\ mapped'[q] = mapped[q] /\ base'[q] = base[q]
  BY OneMoves
<1>b. /\ pc \in [Procs -> Labels] /\ mapped \in [Procs -> Nat] /\ base \in [Procs -> Nat]
      /\ current \in Nat /\ created \in Nat /\ 1 <= current /\ current <= created
  BY PlainTypes
<1>c. /\ content = [s \in Segments |-> content[s]]
      /\ MaxSegments \in Nat /\ created <= MaxSegments
  BY SegmentMapAssumption DEF TypeInv, SegmentTypeOK, Segments
<1>d. ASSUME UNCHANGED <<content, late, current>>, base'[p] = base[p],
             pc'[p] # "publish"
      PROVE  WritesInv'
  BY <1>a, <1>d DEF WritesInv, WritesSurvive
<1>1. CASE join_read(p)
  BY <1>1, <1>a, <1>b, <1>c DEF join_read, move, WritesInv, WritesSurvive,
     MappingInv,
         Preparing, history, segments, attachments
<1>2. CASE join_attach(p)
  BY <1>2, <1>b, <1>d DEF join_attach, move, maps, ends, history, segments
<1>3. CASE call(p)
  BY <1>3, <1>b, <1>d DEF call, move, history, segments
<1>4. CASE remap_not_needed(p)
  BY <1>4, <1>b, <1>d DEF remap_not_needed, move, history, segments, Returns,
     TypeInv
<1>5. CASE remap_unmap(p)
  BY <1>5, <1>b, <1>d DEF remap_unmap, move, maps, history, segments
<1>6. CASE remap_acquire(p)
  BY <1>6, <1>b, <1>d DEF remap_acquire, move, acquire_semaphore, history, segments
<1>7. CASE remap_map(p)
  BY <1>7, <1>b, <1>d DEF remap_map, move, maps, ends, history, segments
<1>8. CASE remap_release(p)
  BY <1>8, <1>b, <1>d DEF remap_release, move, history, segments, Returns, TypeInv
<1>9. CASE heap_acquire(p)
  BY <1>9, <1>b, <1>d DEF heap_acquire, move, acquire_semaphore, history, segments
<1>10. CASE heap_update(p)
  BY <1>10, <1>b, <1>d DEF heap_update, move, history, segments
<1>11. CASE heap_release(p)
  BY <1>11, <1>b, <1>d DEF heap_release, move, history, segments
<1>12. CASE resize_create(p)
  BY <1>12, <1>b, <1>d DEF resize_create, move, maps, history, segments
<1>13. CASE mark_allocation_segment_for_deletion(p)
  BY <1>13, <1>b, <1>d DEF mark_allocation_segment_for_deletion, move, history,
     segments
<1>14. CASE copy_blocks(p)
  <2>1. /\ pc[p] = "copy" /\ pc' = [pc EXCEPT ![p] = "publish"]
        /\ content' = [content EXCEPT ![mapped[p]] = content[old[p]]]
        /\ UNCHANGED <<current, mapped, late>>
    BY <1>14 DEF copy_blocks, Copied, move, segments, attachments
  <2>2. mapped[p] \in Segments /\ mapped[p] # current /\ old[p] = current
    BY <1>b, <1>c, <2>1 DEF MappingInv, Preparing, Segments
  <2>3. content'[current] = content[current] /\ content'[mapped[p]] = content[current]
    BY <1>b, <1>c, <2>1, <2>2 DEF Segments
  <2>4. \A r \in Procs \ {p} : pc'[r] # "publish"
    BY <1>b, <2>1 DEF SectionInv, InSection, ReplaceLabels
  <2>5. \A s \in Segments : content'[s] \subseteq content[current] \cup late
    BY <1>c, <2>1, <2>2, <2>3 DEF WritesInv, WritesSurvive
  <2> QED
    BY <1>b, <2>1, <2>3, <2>4, <2>5 DEF WritesInv, WritesSurvive
<1>15. CASE resize_publish(p)
  BY <1>15, <1>a, <1>b, <1>c DEF resize_publish, move, WritesInv, WritesSurvive,
         MappingInv, Preparing, history, segments, attachments
<1>16. CASE resize_detach(p)
  BY <1>16, <1>b, <1>d DEF resize_detach, move, history, segments
<1>17. CASE resize_remove(p)
  BY <1>17, <1>b, <1>d DEF resize_remove, move, ends, maps, history, segments
<1>18. CASE deref_list(p)
  BY <1>18, <1>a, <1>b, <1>c DEF deref_list, move, takes_pointer, WritesInv,
         WritesSurvive, MappingInv, Preparing, history, segments, attachments
<1>19. CASE use_list(p)
  BY <1>19, <1>b, <1>d DEF use_list, move, ends, maps, history, segments
<1>20. CASE deref_element(p)
  BY <1>20, <1>a, <1>b, <1>c DEF deref_element, move, takes_pointer, WritesInv,
         WritesSurvive, MappingInv, Preparing, history, segments, attachments
<1>21. CASE write_element(p)
  <2> DEFINE w == <<p, left[p]>>
  <2>1. /\ pc[p] = "write" /\ pc' = [pc EXCEPT ![p] = "idle"]
        /\ content' = [content EXCEPT ![base[p]] = content[base[p]] \cup {w}]
        /\ late' = IF AfterCopy(base[p]) THEN late \cup {w} ELSE late
        /\ UNCHANGED <<current, mapped, base>>
    BY <1>21 DEF write_element, move, segments, attachments
  <2> HIDE DEF w
  <2>2. current \in Segments
    BY <1>b, <1>c DEF Segments
  <2>3. \A s \in Segments : content[s] \subseteq content'[s]
    BY <1>c, <2>1
  <2>4. \A s \in Segments : content'[s] \subseteq content[s] \cup {w}
    BY <1>c, <2>1
  <2>5. WritesSurvive'
    <3>1. \A s \in Segments : content[s] \subseteq content[current] \cup late
      BY DEF WritesInv, WritesSurvive
    <3>2. CASE AfterCopy(base[p])
      BY <2>1, <2>2, <2>3, <2>4, <3>1, <3>2 DEF WritesSurvive
    <3>3. CASE ~ AfterCopy(base[p])
      <4>1. base[p] = current /\ w \in content'[current]
        BY <1>c, <2>1, <2>2, <3>3 DEF AfterCopy
      <4> QED
        BY <2>1, <2>2, <2>3, <2>4, <3>1, <3>3, <4>1 DEF WritesSurvive
    <3> QED
      BY <3>2, <3>3
  <2>6. ASSUME NEW q \in Procs, pc'[q] = "publish"
        PROVE  \A s \in Segments : content'[s] \subseteq content'[mapped'[q]] \cup late'
    <3>1. pc[q] = "publish" /\ AfterCopy(base[p])
      BY <1>b, <2>1, <2>6 DEF AfterCopy
    <3>2. mapped[q] = created
      BY <3>1 DEF MappingInv, Preparing
    <3>3. mapped[q] \in Segments
      BY <1>b, <1>c, <3>2 DEF Segments
    <3>4. \A s \in Segments : content[s] \subseteq content[mapped[q]] \cup late
      BY <3>1 DEF WritesInv
    <3> QED
      BY <2>1, <2>3, <2>4, <3>1, <3>3, <3>4
  <2> QED
    BY <2>5, <2>6 DEF WritesInv
<1>22. CASE free_guest(p)
  BY <1>22, <1>b, <1>d DEF free_guest, move, ends, maps, history, segments
<1>23. CASE kill(p)
  BY <1>23, <1>b, <1>d DEF kill, move, ends, maps, history, segments
<1> QED
  BY <1>1, <1>2, <1>3, <1>4, <1>5, <1>6, <1>7, <1>8, <1>9, <1>10, <1>11, <1>12,
     <1>13,
         <1>14, <1>15, <1>16, <1>17, <1>18, <1>19, <1>20, <1>21, <1>22, <1>23 DEF Step,
       Run, Join, Remap, Resize, Insert

-----------------------------------------------------------------------------
(* SegmentInv holds in every state of every execution, however many        *)
(* processes follow the heap and whoever of them is killed.                *)
LEMMA InitSegmentInv ==
  ASSUME Init
  PROVE  SegmentInv
<1> USE SegmentMapAssumption DEF Init
<1>1. TypeInv
  BY DEF TypeInv, SegmentTypeOK, Segments, Labels, Gone, Outsider, NoSegment,
     Returns
<1>2. SectionInv
  BY DEF SectionInv, InSection, ReplaceLabels
<1>3. MappingInv
  BY DEF MappingInv, Preparing, NoSegment
<1>4. ExistenceInv
  BY DEF ExistenceInv, MarkedIsReplaced, ReplacedIsMarked, AllCouldMap,
     JoinsFailLate,
         ReplacedSegmentsGo
<1>5. TornInv /\ WritesInv
  BY DEF TornInv, WritesInv, WritesSurvive
<1> QED
  BY <1>1, <1>2, <1>3, <1>4, <1>5 DEF SegmentInv

LEMMA SegmentInvariant == Spec => []SegmentInv
<1>1. Init => SegmentInv
  BY InitSegmentInv
<1>2. SegmentInv /\ [Next]_vars => SegmentInv'
  <2> SUFFICES ASSUME SegmentInv, [Next]_vars
               PROVE  SegmentInv'
    OBVIOUS
  <2>1. CASE Next
    <3>1. PICK p \in Procs : Step(p)
      BY <2>1 DEF Next, Step
    <3>2. TypeInv' /\ SectionInv' /\ MappingInv'
      BY <3>1, TypeStep, SectionStep, MappingStep DEF SegmentInv
    <3>3. ExistenceInv'
      BY <3>1, <3>2, ExistenceStep DEF SegmentInv
    <3>4. TornInv' /\ WritesInv'
      BY <3>1, TornStep, WritesStep DEF SegmentInv
    <3> QED
      BY <3>2, <3>3, <3>4 DEF SegmentInv
  <2>2. CASE UNCHANGED vars
    <3> USE <2>2 DEF vars, segments, attachments, history, SegmentInv
    <3>1. TypeInv'
      BY DEF TypeInv, SegmentTypeOK, Outsider
    <3>2. SectionInv' /\ MappingInv'
      BY DEF SectionInv, InSection, MappingInv, Preparing
    <3>3. ExistenceInv'
      BY DEF ExistenceInv, MarkedIsReplaced, ReplacedIsMarked, AllCouldMap,
             JoinsFailLate, Outsider, ReplacedSegmentsGo, NobodyKilledInside
    <3>4. TornInv' /\ WritesInv'
      BY DEF TornInv, NobodyKilledInside, WritesInv, WritesSurvive
    <3> QED
      BY <3>1, <3>2, <3>3, <3>4
  <2> QED
    BY <2>1, <2>2
<1> QED
  BY <1>1, <1>2, PTL DEF Spec

(* Every variable has its type, and a process is attached to a segment     *)
(* exactly while it uses the heap, to a second one while it replaces the   *)
(* first (resize_allocation_segment).                                      *)
THEOREM SegmentMapTypes == Spec => []SegmentTypeOK
<1>1. SegmentInv => SegmentTypeOK
  BY DEF SegmentInv, TypeInv
<1> QED
  BY <1>1, SegmentInvariant, PTL

(* A process that follows the heap finds the published segment, and a      *)
(* guest fails to join only when the segment whose id it read has been     *)
(* replaced or the others have ended (map_fixed_shared_memory,             *)
(* remap_allocation_segment_if_necessary).                                 *)
THEOREM PublishedSegmentExists == Spec => []CurrentSegmentExists
<1>1. SegmentInv => CurrentSegmentExists
  <2> SUFFICES ASSUME SegmentInv, NobodyKilledInside, NEW p \in Procs
               PROVE  /\ pc[p] # "cannotMap"
                      /\ pc[p] = "cannotJoin" =>
                           \/ base[p] # current
                           \/ \A q \in Procs : Outsider(q) \/ pc[q] = "join"
    BY DEF CurrentSegmentExists
  <2>1. current \in Nat /\ base[p] \in Nat
    BY PlainTypes DEF SegmentInv
  <2> QED
    BY <2>1 DEF SegmentInv, ExistenceInv, AllCouldMap, JoinsFailLate
<1> QED
  BY <1>1, SegmentInvariant, PTL

(* balloc and bfree read and change the block list of the current segment  *)
(* only, though the mapping is first checked without the semaphore, and    *)
(* find it whole unless a process was killed inside.                       *)
THEOREM HeapWorksOnCurrent == Spec => []WorksOnCurrent
<1>1. SegmentInv => WorksOnCurrent
  <2> SUFFICES ASSUME SegmentInv, NEW p \in Procs
               PROVE  /\ pc[p] \in {"scan", "release"} => mapped[p] = current
                      /\ pc[p] = "scan" /\ NobodyKilledInside => mapped[p] \notin torn
    BY DEF WorksOnCurrent
  <2>1. pc[p] \in {"scan", "release"} => mapped[p] = current
    BY DEF SegmentInv, MappingInv
  <2>2. ASSUME pc[p] = "scan", NobodyKilledInside, mapped[p] \in torn
        PROVE  FALSE
    <3>1. PICK q \in Procs : pc[q] = "release"
      BY <2>2 DEF SegmentInv, TornInv
    <3>2. heap = p /\ heap = q
      BY <2>2, <3>1 DEF SegmentInv, SectionInv, InSection
    <3> QED
      BY <2>2, <3>1, <3>2
  <2> QED
    BY <2>1, <2>2
<1> QED
  BY <1>1, SegmentInvariant, PTL

(* No segment that has been replaced stays unmarked in the kernel, unless  *)
(* the process that replaced it was killed inside.                         *)
THEOREM ReplacedSegmentsAreMarked == Spec => []ReplacedSegmentsGo
<1>1. SegmentInv => ReplacedSegmentsGo
  BY DEF SegmentInv, ExistenceInv, ReplacedSegmentsGo
<1> QED
  BY <1>1, SegmentInvariant, PTL

(* A write is lost only if its segment had been copied before it was made: *)
(* what any process wrote before copy_blocks_and_append_new_from_free_     *)
(* space_left copies the segment stays through every later replacement,    *)
(* however many, and kills included.                                       *)
THEOREM WritesBeforeCopySurvive == Spec => []WritesSurvive
<1>1. SegmentInv => WritesSurvive
  BY DEF SegmentInv, WritesInv
<1> QED
  BY <1>1, SegmentInvariant, PTL

=============================================================================
