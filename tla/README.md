# Verification of the tuple space

The repository implements a Linda-style tuple space for the processes of one
machine. Processes attach a System V shared memory segment; in it live a heap, a
hash table of tuples and, per bucket of the table, a monitor with a condition
variable on which readers wait for a tuple to be pushed. This directory holds
TLA+ models of that code, the TLC instances that check them, and proofs checked
by TLAPS.

## Inventory

| Part | Code | State | Operations | Correct when |
|---|---|---|---|---|
| Monitor | `monitor.c`, `monitor.h` | one lock semaphore per monitor; per condition variable three semaphores (token, exclusion, handshake) and three counters | enter, leave, wait, signal, broadcast | locks are exclusive and survive the death of a process; the counters count the waiters; every waker gets its handshakes; a woken waiter runs |
| Bucket | `hash_table_t.c`, `list_t.c`, `tuple_space.c` | per bucket a linked list with a monitor and a condition; the table's size | push, peek, pop | no reader sleeps through a tuple it wants; calls return; equal tuples are stored once; pop removes each tuple once |
| Heap | `shared_allocator.c` | the segment header and the doubly linked list of blocks | `balloc`, `bfree`, growth | allocations are disjoint, blocks tile the segment, nothing moves, nothing is lost |
| Segment mapping | `shared_allocator.c`, `shared_memory.c` | the fixed memory (id of the current segment, the heap's semaphore), each process's mapping | remap, resize, map, unmap, removal | no process works on a segment that has been replaced; nobody waits for a semaphore it holds |
| Tuples | `tuple_t.c`, `utils.c` | linked elements with counters; the `mO` switch between local and remote memory | builders, clone, destroy, match, compare, hash | a tuple that matches a pattern hashes as the pattern does; clones are equal and freed once |
| Lifecycle | `shared_allocator.c`, `utils.c` | semaphores and segments in the kernel, the handle file | `init_host`, `free_host`, `init_guest`, `free_guest` | nothing is used after its removal, nothing is left behind |
| Programs | `host.c`, `guest*.c`, `test*.c` | - | sequences of the above | give the workloads of the instances |

How they interact: `push_tuple` looks for an equal tuple without any lock, then
`balloc`s a list element, enters the bucket's monitor, clones the tuple into the
segment (more `balloc`s), links it as the head, leaves the monitor and
broadcasts. `peek_tuple` enters the monitor, scans, and either clones the match,
signals and leaves, or waits and scans again. `pop_tuple` scans, unlinks, clones
and destroys without the monitor. All heap calls are serialised by one
semaphore. All semaphore operations carry `SEM_UNDO`, so the kernel adjusts the
semaphores of every process that ends.

Hard behaviour: the interleaving of waits, signals and broadcasts at each
semaphore operation; the unlocked reads (`monitor.c:116`, `hash_table_t.c:33`);
kills and normal exits undone by the kernel; counters that wrap; growth of the
segment under other processes, which keep raw pointers into the old one; removal
of kernel objects in use. `hazards` in `PROJECT.json` lists them with their lines.

## Modules

- `Monitor` - the semaphores, the kernel's undo adjustments, the counters and
  where each process is in `monitor.c`. One action per `semop` and per access to
  the shared counters. `Library(p)` is every step of a process that touches the
  monitor; `MonitorNext` is the generic client that calls the operations in any
  legal order.
- `Bucket` extends `Monitor` with one bucket's list and the processes that push
  and peek. Its actions pair a step of `hash_table_t.c`/`list_t.c` with the
  monitor's own action, so that the composition is the code's. The heap is left
  out here: allocation inside the critical section always succeeds.
- `Allocator` - the block list of the heap with first fit, split, merge and
  growth. A call is one action because `semId` is held from its first access to
  its last, but a `balloc` that grows the segment takes one action per resize,
  because each publishes its segment: if no other process had the old one attached,
  the process exits there (`shared_allocator.c:151`) and the others go on with the
  grown segment; else its loop goes on, and may resize again. `call` is the request
  of a process in that loop. `Heap` is the abstract specification: an allocation
  gets bytes that nobody owns, a free gives them back, and the segment may grow at
  any time but never shrinks.
- `Tuple` - building tuples and patterns, the comparisons, the hash and the
  bucket it selects.
- `TupleList` - the bucket again, at the grain of its pointers: the elements and
  tuples as blocks of the heap, one action per access to `list->head`,
  `list->size` and a `next` pointer, for push, peek, pop and `destroy_list`. The
  monitor is reduced to what `Monitor` shows of it. A freed block keeps its
  contents until it is used again, as in the code. `TupleSpace` is its abstract
  specification: a set of tuples on which every call acts at once, at some moment
  of the call. The refinement mapping takes the set of linked tuples for the space
  and lets a push act when its element becomes the head, a pop when the element is
  unlinked; a peek may have acted at any moment of its call, so the history
  variable `seen` keeps what was in the list meanwhile.
- `TupleMemory` - one program's tuples as blocks of two memories: builders,
  clones, destroyers and the global switch `mO` that selects the memory.
- `SegmentMap` - several processes following the heap from segment to segment:
  a guest's first attachment, the check of the mapping, `resize_allocation_segment` statement by statement,
  the kernel's removal of marked segments, kills anywhere. What a request needs is
  left open (any `balloc` may find room or not), so that `Allocator` and
  `SegmentMap` divide the file between them.
- `GrowingBucket` - push and peek again while the segment is replaced, in two steps:
  the copy and the publication. Every `deref_ptr`, `is_ptr_null` and `balloc` of the
  two calls is a step that may remap, and every raw pointer that is used after a
  later remap is followed: `hashTable`, `list`, `element`, the part of a tuple that is
  compared, `copyTuple`, `newElement` and `condVar`. It composes the semaphores of
  `Monitor`, the calls of `Bucket` and the replacement of `SegmentMap`, each coarser
  than in its own module; the tables `Ballocs`, `Derefs`, `Acquires` and `Releases`
  list the steps that differ only in their labels.
- `Lifecycle` - host and guests from `main` to `main`'s end: kernel objects, the
  handle file, the start pointer; a guest's peek is its sequence of `semop`s, with the
  rounds of the wait loop and the handshake of a signal. A guest with a handle from
  an earlier run fails, or gets into the space of that run if other guests still have
  it attached.
- `MCMonitor`, `MCBucket`, `MCAllocator`, `MCTuple`, `MCTupleList`,
  `MCTupleMemory`, `MCSegmentMap`, `MCGrowingBucket`, `MCLifecycle` - the
  instances for TLC.
- `MonitorProofs` - the theorems about `Monitor` and `Bucket`; `AllocatorProofs`,
  `TupleProofs`, `TupleListProofs`, `TupleMemoryProofs`, `SegmentMapProofs`,
  `GrowingBucketProofs`, `LifecycleProofs` - those about the module of the same name.

Correspondence: `map` in `PROJECT.json` gives the lines of every definition.
`mpc[p]` and `pc[p]` are program counters of one process in `monitor.c` and in
the callers; `sem` has the four semaphores by role; in `Bucket`, `list` is the C
list from its tail to its head, because insertion is always at the head. In
`TupleList`, `reg[p]` has the local pointers of a call and `mem` the blocks. In
`SegmentMap`, `then[p]` is where a process returns to from
`remap_allocation_segment_if_necessary`, which is called from many places;
`content` and `late` record what was written where, and what after its segment's
copy, and steer nothing. In `GrowingBucket`, `fresh[p]` has the raw pointers of `p` that
lead into the segment it has mapped, and a step that would use another one is a
crash. `overtaken` has the pushers that wrote their tuple while somebody else copied
the segment: the copy may have any part of such a tuple, so whoever compares it
later may find a match, find none, or die on a null pointer (`Garbled`). `landed`
records only.

Operators with the comment "Variant with a defect" are not part of any
specification: each is a plausible error in the definition that follows it and
shows that a property is able to notice it.

## Runs and their bounds

| Run | Instance | Shows |
|---|---|---|
| `Monitor_crash` | 3 clients, one killable, semaphores and adjustments at most 2, 2 tickets | types, mutual exclusion, what the kernel would undo is what is held, the locks are never lost; the counters count the waiters, sleeping waiters stay counted although others were killed, a waker has paid for every handshake it still collects; all four `ERANGE` paths are taken |
| `Bucket_live` | a killable host with 2 calls, 2 guests with one peek, 2 tuples, patterns matching one or both, the same limits, weak fairness of every process | `NoLostTuple`, the discipline of the monitor calls; calls return if nobody had to wait, wherever the host was killed; a woken reader leaves the loop under the stated premises |
| `Allocator_heap` | a segment of 6 bytes that may grow twice, headers of 1 and 2 bytes, requests 1, 2 and 5 | the block list is well formed and `Allocator` implements `Heap`, also after a process exited in a resize and when one call resizes twice |
| `Tuple_match` | at most 2 elements over 3 values | a match is in the pattern's bucket, the two comparisons agree, the hash's buffer is large enough |
| `TupleList_space` | a host with 4 calls and two guests with 3 and 1; two tuples, six blocks, sizes modulo 8; one of two conventions: pushes and peeks run together and pops alone, or peeks and one pop together and pushes alone | `TupleList` implements `TupleSpace`; no block is lost or freed in use; answers match; `list->size` is right; nothing remains after `destroy_list` |
| `SegmentMap_grow` | three processes, one of them killable and with two calls, one that joins late, up to 3 segments, weak fairness | the heap is changed in the current segment only, a published segment exists, replaced segments are removed, a write is lost only if it came after the copy of its segment, every call ends unless its process is overtaken |
| `GrowingBucket_fresh` | one pusher, two readers (symmetric), an empty bucket, up to 3 segments, replaced by the pusher or by others at any time | an insertion stays unless another process copied the segment while its pusher wrote the tuple; a reader that sleeps in the current segment is woken, if no pusher died; the two locks always have one owner |
| `TupleMemory_own` | tuples of up to 2 elements, one integer and one string, one stored tuple | every block has one owner and is freed once, in its own memory; clones are equal |
| `Lifecycle_join` | a killable host and two guests, weak fairness of the guests | segments and semaphores go; a guest that knows the handle needs nothing that is not there yet; when the host has freed the space, all guests end |
| `Bucket_hang` | a factory and a consumer | `AllCallsReturn` fails (below) |
| `Bucket_exit` | two factories and two consumers | `NoReaderStranded` fails (below) |
| `Bucket_duplicate` | two pushers | `NoDuplicates` fails (below) |

Why the bounds suffice. Two tickets put two waiters in one wait loop while a
third process signals or broadcasts, which is what token stealing, skipped
handshakes and overlapping wakers need. `SEMAEM` and `SEMVMX` are 2 where their
limits matter (`Monitor_crash`, `Bucket_live`), enough for two waiters and reached
after that, and never reached elsewhere. `UIntMax` is never reached in a run: the
counts of waiters are not true past a wrap, since `wakeIndex < index` then no
longer orders the tickets; what is true there, `WaitAccounting`, is proved for
every width. `MaxWaits` only stops the generic client from waiting again; the
budgets in `MCBucket` do the same for programs. The heap needs three blocks in a row to merge on both sides and two
growths to have a seam inside; requests 1, 2 and 5 fit exactly, leave a rest too
small to split, and force growth. Two elements suffice to tell apart the order
of types in a tuple from their number. `HashModulus` may be any multiple of
`BucketsCount` instead of 2^64, since only the hash modulo `BucketsCount` is
used. Two tuples in the list put a match at the head or behind another element,
the two cases of the removal; six blocks are two elements, two tuples and two more
that a push has allocated. Three segments let a process be overtaken by two
replacements and let a segment be replaced that was itself a replacement, which
differs from the first in not being marked from the start. Two elements make a
clone link an element at the head and one behind another. In `GrowingBucket_fresh` a
reader scans the empty list, waits, and scans the list with the pushed tuple, whole
or garbled; the same properties hold with another tuple in the bucket from the start,
which takes longer than the run should. The invariant of `GrowingBucketProofs` was
checked with two pushers, too. Two guests in `Lifecycle` can
find each other attached or gone; neither affects the other in another way.

Deadlock checking is off in all runs: programs end, instances stop at their
bounds, and the code itself can hang, which the runs below are about.

Fairness. `FairSpec` has weak fairness of `Run(p)` for each process: the
scheduler runs a process that can run. It does not assume that a blocked `semop`
beats a competitor, nor that a process is killed, exits, or makes a further call.
`SegmentMap` assumes the same of `Run(p)`, which there includes that a late guest
joins, on which nothing depends. `Lifecycle` has weak fairness of the
guests only: the host waits for its user to press a key, who may never do it. There
an acquire of a semaphore that exists is not fair at all (`MayBlock`): it may block
for ever, as it does in the handshake, and only its removal is sure to end it. A
`semop` that fails is a step like any other in `Bucket`'s `FairSpec`. `GrowingBucket`
has no liveness property.

## What the code does not do

- `Bucket_hang`. The wait loop reads `wakeIndex` without the exclusion
  semaphore. A reader that has registered, and tests after the broadcaster has
  advanced `wakeIndex`, skips the loop and gives no handshake; the broadcaster
  waits for it at `monitor.c:149`, holding `exclSemId`; the reader finds its
  tuple, signals, and waits for `exclSemId` inside the monitor. Nobody can use
  the bucket any more. `CallsReturnUnlessWaiting` shows that this needs a reader
  that waited.
- `Bucket_exit`. Tokens and handshakes are posted with `SEM_UNDO`. When a
  factory has pushed its tuples and returns from `main`, the kernel takes back
  the tokens it posted and returns the handshakes it collected. If another
  factory has just posted the token of a waiting consumer, that token is gone,
  and the consumer sleeps although its tuple is in the list. This needs no crash.
- `Bucket_duplicate`. The search for an equal tuple and the insertion are not
  one critical section, so two processes can both insert it.

Seen in the models, where a property excludes it by its premise or by the
convention of its run:

- Pop beside push. `remove_from_hash_table` tells `remove_from_list_after` where
  the match is by its predecessor, and null for the head; the latter reads
  `list->head` three times more (`list_t.c:75`, `:77`, `:78`), without the
  monitor. A push in between makes the pop return the pushed tuple instead of the
  match: with a convention that does not keep them apart, `AnswersMatch` fails.
- Pop beside pop. The second of two pops of one tuple passes the test of
  `list->size` before the first has decremented it, and then follows a null head
  or frees a free block; in the latter case `bfree` returns with the heap's
  semaphore held (`shared_allocator.c:219`), and nobody can allocate any more.
- A process alone. The kernel removes a marked segment with its last attachment.
  `resize_allocation_segment` detaches first and removes then: without another
  attached process the removal fails and the process exits (`resize_remove`,
  `shared_allocator.c:151`). The new segment is published by then and the kernel
  releases the semaphore, so those that come later go on.
- Overtaken. A process whose segment is replaced between `shared_allocator.c:174`
  and `:175` waits for the heap's semaphore that it holds itself: `Overtaken`, the
  premise of `CallsReturnUnlessOvertaken`.
- A guest that joins during a replacement. `map_fixed_shared_memory` reads
  `allocShmId` and attaches without the heap's semaphore (`shared_allocator.c:38`).
  If the segment is replaced in between and its last process leaves it, the guest
  exits (`cannotJoin`); if somebody is still attached, it joins the old segment
  and follows at its first check (`WorksOnCurrent`).
- A pushed tuple that is lost. A replacement copies the segment and publishes the copy
  while it holds `semId`, which an insertion does not hold (`shared_allocator.c:147`,
  `list_t.c:53`). A pusher that links its element between the two links it in the old
  segment: `push_tuple` returns 0 and the tuple is gone. `PushesStay` without its
  premise (`landed` without the test of `overtaken`) fails on one replacement.
- A waiter in an old segment. `wait_on_monitor_condition` reads `wakeIndex` through a
  raw `condVar` as long as it waits (`monitor.c:116`). When a push to another bucket
  replaces the segment meanwhile, later broadcasts advance the `wakeIndex` of the new
  segment only; a reader that registered between the copy and the publication is not
  even counted there. It sleeps with its tuple in the list though the push has
  returned and nobody died: `FreshWaitersServed` without `mapped[p] = current` fails.
- A reader under whom the segment is replaced dies, more often than not. After a
  walk that began before the replacement, `hash_table_t.c:66` reads the raw `hashTable`
  of `:51`, which by then leads into the old segment if a test of the walk has
  remapped: a page fault inside the monitor, whose semaphore the kernel gives back.
  So no reader sleeps because it has scanned an old list; those that sleep wrongly
  have registered in an old segment (`FreshWaitersServed` is about the others).
- `list` is used at `list_t.c:43` after a `balloc` that may have changed the
  mapping: the process that replaces the segment there, or finds it replaced, dies on
  a page fault outside the monitor, before it has changed the list. A replacement in
  the clone, inside the monitor, is survived by its own process (`list_t.c:45`, `:50`),
  and by others who stand at a raw pointer mostly not.
- A tuple that is written while another process copies the segment may arrive in the
  copy without its elements or values (`Garbled`); a reader that compares it follows
  a null pointer or finds no match.
- A grown segment is never marked for deletion and stays in the kernel after
  everybody has ended (`ReplacedSegmentsGo` excepts the current segment); a host
  that is killed leaves its semaphores (`NothingLeftBehind` asks for them of a
  host that ends);
  a guest that joins while the host frees the space follows a cleared start
  pointer (`GuestsFailOnlyWithoutHost`).
- Peeks beside pops find their tuples whole only because freed blocks keep their
  contents until they are used again; hence the second convention keeps pushes
  apart.

Met while reading, outside the models: `testSynchronization.c:33` expects -1 for a
tuple that is already there where the code returns 1, as `testInt.c:53` expects;
`waitIndex` and `wakeIndex` are never initialised and rely on a zero-filled
segment (`monitor.c:61-70`); the hash of a tuple depends, modulo 32, only on how
many integers and strings it has, because 33 is 1 modulo 32, and the hash of an
empty tuple reads a buffer of size zero; `balloc(0)` returns with the heap's
semaphore held, which no caller asks for; `testInt.c:100,103` and
`testString.c:76,79` destroy their last pattern twice.

## Proofs

The theorems hold for any set of processes, any kernel limits, any counter width,
any number of segments, any memory size, any tuples, patterns and programs, under
the `ASSUME`s of the modules alone, unless a hypothesis is named below. Every
invariant used was first checked by TLC on the instance of the module's run.

`MonitorProofs`. `MonitorTypeOK` is not inductive: that `waitingCount` does not
go below zero needs a signaller to have found a waiter (`SignalFoundWaiter`), and
that to persist needs mutual exclusion of the exclusion section. `LockInv` joins
the three, with `LockOK(l)` for each lock: at most one holder, the semaphore free
exactly when there is none, and each process's adjustment equal to what it holds.
The lemmas `AcquireLock`, `ReleaseLock`, `OtherLock` and `TerminateLock` treat the
four ways in which a step can touch a lock; every action of the module is one of
them. From `LockInv` follow `MonitorTypes`, `MonitorMutualExclusion`,
`MonitorUndo` and `MonitorLocksNeverLost`, with kills and failed `semop`s
included. `AccountInv` says, per place in the exclusion section, how far
`waitingCount` is from the distance of the ticket counters; it gives
`MonitorWaitAccounting`, also across the wrap.

`MonitorWaitersCounted` has the hypothesis `Unwrapped`,
`2 * MaxWaits + Cardinality(Procs) <= UIntMax`: past a wrap the order of tickets
says nothing. The bound has room for `waitingCount` too, which exceeds the number
of tickets by one for every process that died between the two increments. Its
invariant `WaiterInv` bounds the counters, keeps `waitingCount` at or above the
number of tickets that are not woken wherever processes die, gives every ticket
one holder, and, while everyone lives, a holder to every ticket that is not woken.
The number of sleepers is then the size of an interval of tickets
(`SleepersCount`). `MonitorHandshakeFunded` needs no hypothesis: tokens, waiters
that have taken one, and handshakes are three stages of the same thing
(`Handshakes`), and only the holder of `exclSemId` adds or collects.

For `Bucket`, in the same module: every step of the bucket is a step of `Library(p)` or leaves the
monitor alone, so `LockInv` and `AccountInv` carry over (`BucketMonitorInv`,
`BucketMutualExclusion`). `BucketTypes` adds the discipline of the calls.
`BucketNoLostTuple` is proved under `[]NoWrap`, that fewer tickets than
`UIntMax` have been taken: past the wrap, `wakeIndex < index` no longer says
which ticket is older. Its invariant `WakeInv` orders the tickets (`TicketInv`)
and says that a sleeper whose tuple is in the list has a pusher between its
insertion and its broadcast (`SleepInv`); the insertion happens in the monitor,
so no reader can be between its scan and its ticket.

`AllocatorProofs`. The list is not followed from its head: `Whole` says of the
set of header addresses that each block ends where another one starts or where
the segment ends, that its links say so, and that no header lies in between
(`WholeAt`). `SameList` turns that into the walk that `BlocksWellFormed` speaks of.
`HeapInv` adds that the used blocks are the live allocations (`UsedBy`) and that
free neighbours meet only where `resize_allocation_segment` appended a block
(`Apart`). Each of merge, split and append is shown to keep a `Whole` list by
itself (`JoinedWhole`, `CutWhole`, `AppendedWhole`), then the calls are put
together from them. The scan of `balloc` is a recursive function over the block
list; `FirstFitFits` shows by a least number argument that it stops at a free
block that is large enough or at none. `AllocatorIsHeap` maps the owned bytes and
the size to `Heap`, step by step: a block that is cut or taken has bytes that nobody
owned, and a resize is `Grow`, whoever goes on after it.

`TupleProofs`. `TupleMatchInSameBucket` (equal lengths and pairwise equal types
make the joined names equal), `TupleEqualPatternIsEquality`, and `TupleTypes`.
`TupleSignatureFits` says how long the joined names are: `FlattenSeq` is recursive,
so its value is given in closed form (`JoinExists`) and shown to be the only one
(`JoinsAgree`, by the least position at which two solutions differ). From that,
`SignedInv` counts 7 characters per integer and 6 per string.

`TupleListProofs`. `ListTypes` holds for any programs. The others have two
hypotheses: `ConventionsKept`, that the programs keep one of the two conventions
under which the code works (see above what happens otherwise), and `RoomToCount`,
that `list->size` can count all the blocks there are. `ListInv` says which calls may
be at work together (`BesideInv`), and that there is a chain `s` of `n` distinct
elements from the head, each with a tuple of its own (`ChainInv`); a set `G` of
elements that were removed while peeks may still stand on them, which are as they
were and lead back into the list (`WalkInv`); that the allocated blocks are those of
the chain and those that a call holds between two steps (`HeldInv`); how
`list->size` lags behind (`SizeInv`); and where the local pointers of each call
lead (`RegInv`). Chain and `G` change only at the link and the unlink. Of every
label it is shown once what its step does to labels, monitor and conventions
(the lemmas `...Base`) and once what it does to the chain (`...Shape`). From `ListInv` follow
`PointersLeadToElements`, `AnswersMatchPatterns`, `TeardownFreesEverything` and
`NothingIsLost`; the last follows the list from its head by a recursive function,
which has a closed form on a chain (`StepsReach`) and no other value
(`ReachedOnce`).

`ListIsTupleSpace` has a third hypothesis, `NoSharedPushes`: where pushes run
together, no two programs push the same tuple. The search for an equal tuple and the
insertion are two critical sections (`hash_table_t.c:31`), so without it a tuple is
stored twice, as `Bucket_duplicate` shows. `SpaceInv` adds to `ListInv` what the
pointers stand for:

- the tuples of the chain differ (`Distinct`), and a push that is about to insert,
  or a search on its way, has seen no equal tuple in the part that it has passed
  (`Searched`);
- the tuples in the list are among those that a running peek has seen
  (`Witnessed`), and a peek beside a pop can reach, through removed elements or
  not, only tuples that it has seen (`Met`, `Reach`);
- a call has an answer exactly after the step at which it acts (`Answered`).

That there is only one chain (`OneChain`) makes `Stored`, a set of values, a function of
it (`StoredHolds`). One lemma per label (`...Space`) keeps `SpaceInv` and gives the
abstract step. `start` is `Invoke`; `insert_head`, or the comparison that finds
an equal tuple, is `Push`; the copy that `get_tuple_clone` makes is `Peek`;
`remove_unlink` is `Pop`, or `Discard` for `destroy_list`; a search that ends at the
null pointer is `PopNothing`; the last test of `destroy_list` is `Destroyed`;
the last step of a call is `Return`; every other step leaves the abstract space as it is.

`TupleMemoryProofs`. That blocks have one owner is not inductive: what a loop reads
must be known to be the list that it is meant to be. `MemoryInv` says that there is an
`own`, which gives every allocated block the tuple that it is part of, and a
`chain`, which gives every tuple its elements in order, such that from the head of
each tuple, or from where `destroy_tuple` has come to, the pointers lead through
its chain (`Shape`), and the blocks of tuple, elements and values are those that
it owns (`OwnInv`); each tuple lies in one memory only. `CountInv` has the
counters, `CloneInv` the progress of a clone, and `CallInv` says on which tuples
each call works and what `mO` is set to meanwhile. `OthersKeep` shows once that a step
which writes to the blocks of one tuple leaves every other as it is; then a step
creates a tuple (`Created`), appends to one (`Extended`), by a builder or by a clone,
takes its first element away (`Shortened`), removes it (`Removed`) or touches no block
(`Relabelled`). `Elements` follows the pointers by a recursive function; on a chain it
has that value and no other (`ChainFollowed`, `FollowedOnce`). `Alloc` takes the least
free address, of which all that is used is that it is free (`AllocFresh`). A step that
finds no memory is not taken (`HasRoom`): what the code does when `malloc` fails is
not modelled. `MemoryTypes`, `BlocksHaveOneOwner` and `ClonesEqualOriginals` follow.

`SegmentMapProofs`. `SegmentInv` makes the heap's semaphore a lock, in which a
process whose second check fails waits for itself (`SectionInv`), and says to which
segment each process is attached (`MappingInv`): only the holder of the lock that
prepares a segment can be ahead of the published one. `ExistenceInv` says that the current
segment is marked for removal only while it is replaced, so that its removal by
the kernel waits for its copy. `WritesInv` says that the contents of every segment
are in the current one, and in the copy that is about to be published, but for the
writes that came after a copy (`late`). `WritesBeforeCopySurvive` says no more than
that: the writes between a copy and its publication are the ones that are lost.

`GrowingBucketProofs`. `GrowingInv` has the two locks of `Monitor` by the labels at which
a process holds them, including that one that crashed or exited has given them back
(`LockInv`); that a copy that is not yet published has what landed and nothing that
the current list has not (`CopyInv`); that a pusher that writes its tuple without being
overtaken has the current segment mapped while nobody else replaces it (`WriteInv`);
that a walk which began in the current segment, as its fresh `hashTable` shows, still
has all that the reader wants before it, and that nothing it wants is in the list
between the end of its walk and its ticket (`WalkInv`); and that a reader that has
registered in the current segment, with a tuple ahead that it wants, has a pusher that
will still wake it there (`ServedInv`). Every step that neither copies nor publishes
is shown to be `Plain(p)`, which says what such a step may do to the locks, the
bucket, the pointers and the tickets; the invariant is kept by plain steps (the
lemmas `Plain...`), by a copy (`CopyStep`) and by a publication (`PublishStep`). The
labels of the tables are looked up once per table (`DerefRows`, `AcquireRows`,
`ReleaseRows`, `BallocRows`). `PushesStayInList` and `FreshWaitersAreServed` have the
premises that their properties state: no other process copied the segment while the
tuple was written; no pusher died, and the waiter has the current segment mapped.
Without these the properties are false (see above).

`LifecycleProofs`. `LifecycleInv` says for each place of the host what it has made,
marked and removed (`HostInv`), who is attached to what (`AttachedInv`), and that a
handle is known only once everything it leads to is there (`HandleInv`). The semops
that a guest has still to make play no part in it.

Only model-checked: liveness (`CallsReturnUnlessWaiting`, `WokenLeavesLoop`,
`CallsReturnUnlessOvertaken`, `GuestsEndWithHost`), which needs `ENABLED` and is out
of the prover's reach, as is induction over data. Every safety invariant of a passing
run and both refinements are theorems.

## Not modelled, and the plan

What remains is to weaken the hypotheses of the theorems about `TupleList` where the
code allows it, and to relate the modules that look at the same code at different grains
(`Bucket` and `TupleList`, `SegmentMap` and `GrowingBucket`) by refinement.

Not modelled: the removal of the semaphores while the segment is replaced, which
would compose `Lifecycle` and `SegmentMap`; pops while the segment is replaced;
`destroy_fixed_shared_memory`, which nobody calls; `hashTable->size` and
`processId`, which nobody reads.

Left out for good: printing, `CMakeLists.txt`, `docs/doc.txt` (a link).
