# Verification of DES-reversible-prints

The repository adds reversible output to USE, an optimistic parallel
discrete-event simulator: `printf`, `puts`, `fwrite` and `fclose` called by an
event are wrapped, what they would write is kept with the event, and it is
written only after the event can no longer be rolled back. This directory holds
TLA+ models of that machinery and of the parts of the simulator it depends on,
the TLC instances that check them, and TLAPS proofs. Paths below are relative to
`src/`; `core/`, `mm/` and `include/` are the directories of
`src/Simulators/USE/`.

## Inventory

| Component | State | Operations | Shared with |
|---|---|---|---|
| non-blocking list (`non_blocking_list.c`) | `head`, `tail`, `old`, epoch; cells linked by `next` | init, add, pop, peek, merge, clean, destroy | a collector (any worker that holds the LP's lock) and the main process, with no lock between the two |
| heap of forward windows (`io_heap.c`) | array of (key, payload, position), `size`, `used` | new, add, poll, update_key, delete | main process only; its payloads are the lists |
| reversible I/O layer (`reversibleio.c`) | `per_lp_horizon`, `io_h`, the LPs' windows | init, collect, rollback, execute, flush, clean, destroy | called from the fetch, from `clean_checkpoint` and from the thread loop |
| wrappers (`wrappers.c`) | the windows of `current_msg`, `errno` | fwrite, puts, printf, fclose | called by the model's code inside `ProcessEvent`, silent executions included |
| output buffers (`iobuffer.c`) | one operation: file, bytes, position, timestamp | create, destroy, write | wrappers create, the main process writes; the bytes may still be the caller's |
| fetch and commit (`core/fetch.c`) | event state bits, calendar queue, commit horizon | `fetch_internal`, `commit_event` | all threads; part of it outside the LP's lock |
| pruning (`core/fetch.c`, `mm/state.c`, `core/core.c`) | the event records on `queue_in`, `to_remove_local_evts`, `_old`, `freed_local_evts` | allocate, deallocate, drop, hand over, age, prune | one thread and its LPs; the calendar queue still reads the fathers of its events |
| thread loop (`core/core.c`) | `ready_wt`, locks, bound, `sim_ended`, `stop`, current LP | initialise, fetch, roll back, execute, checkpoint, clean, commit, stop | all threads |
| OnGVT inspection (`core/core.c`) | `sim_ended`, `last_checked_lp` | `check_OnGVT`, `round_check_OnGVT`, periodic check | all threads, each LP under its lock; the round takes it with a try-lock |
| checkpoints and rollback (`mm/state.c`) | `queue_states`, `from_last_ckpt` | `LogState`, `rollback`, `silent_execution`, `clean_checkpoint` | holder of the LP's lock |

The way of one operation: the wrapper appends it to the window of the event
being executed (`init_window` first discards a window of another epoch).
A rollback makes the LP's epoch grow, so a re-execution replaces the window; an
event that is undone for good loses its window in the fetch
(`reversibleio_rollback`). When the event is safe, executed, and older than two
checkpoints before the commit horizon, `clean_checkpoint` removes it from the
LP's queue and `reversibleio_collect` merges its window into the LP's window.
The main process then pops operations off the LP whose next one is earliest,
as the heap says, until the smallest horizon of all LPs. The event's record,
window field included, goes through two lists of the thread and is used again for
another event.

What is hard about it:

- the list is used by two threads without a lock or an atomic operation;
- the horizon that decides what may be thrown away is compared and written
  without a lock, and never initialised;
- windows outlive rollbacks, and silent re-executions write into the window of
  another event;
- events turn invalid at any moment, also while they are being fetched, rolled
  back or executed;
- a window never gives up its last operation, which decides both order and
  progress, and only the LP at the root of the heap is asked: one that has nothing
  to give holds up all the others;
- the text of an operation is read long after the call that wrote it, and the
  memory it is in may belong to anybody: `fwrite` keeps whatever pointer it is given,
  and the buffer's destruction frees it;
- an event's record may be used again only when nothing in the calendar queue
  still looks at it;
- while an event is handled a dummy stands in the place of the LP's bound;
- the flag to stop is computed from bits that change meanwhile, and the shutdown
  does not wait for the other threads.

The hazards are listed line by line in `PROJECT.json`, with the properties that
watch them.

## Modules

```
 Simulation          all threads: barrier, locks, turns, OnGVT, the end
      |  one turn of the holder of one LP's lock
 EventQueue          one LP's events: fetch, rollback, commit, collection
      |         \______________  Pruning      the records of those events
      |                              |  implements AbstractPool
      |  windows of collected events, in order
      |         \______________  Wrappers     one event's calls and its buffers
 ReversibleIO        N windows + heap + collectors + main process
      |                         |
 AbstractWindow  (INSTANCE) AbstractHeap
      ^ implemented by          ^ implemented by
 NonBlockingList             IoHeap
```

`X` is accompanied by `XProofs` where theorems are proved about it (`EventQueue`
also by `HandedProofs`), and by `MCX` with the `.cfg` files for TLC. Operators named "Mutant" in a comment are
variants of the definition after them that carry a plausible slip; they are used
by no specification, only to see that a property notices.

### AbstractWindow, NonBlockingList

`AbstractWindow` is what a forward window promises: two counters, operations
handed over and taken out, one always staying inside.

`NonBlockingList` is one LP's `io_forward_window` with its two users. The
collector fills the window `src` of an event (`InitWindow`, `AddOp`), discards
it (`Discard`) or merges it (`MergeStart`, `MergeLink`, `MergeTail`,
`MergeReset`, then `DestroySource` cell by cell). The main process runs
`io_heap_poll` (`PollStart`, `PopTest`, `PopTake`, `PeekStep`),
`nblist_clean` and at the end `reversibleio_destroy`. A step reads or writes a
shared field at most once; cells that are freed may be handed out again. Order
of memory accesses is that of the program: the code is built with `-O0` for x86,
whose stores are not reordered with each other, and the two threads
communicate in one direction through two stores (link, then tail).

An operation is a number; dummies carry 0 (NULL). `Hazards` switches on
what the environment may do beyond a well-behaved simulation: `"silent"`, collect
an event that wrote nothing; `"oom"`, fail an allocation (`nblist_init` inside the
merge, non_blocking_list.c:89); `"shutdown"`, destroy under a live collector.
Events that write nothing are ordinary, so what can be said of the list with them
is said: the history variable `silenced` records that one was collected,
`list_silent` shows what that does, and the theorem `UntilSilent` that the list keeps
its promises (`SafeUntilSilent`) until then. The run `list` and the other theorems
about the list assume no hazard (`NoHazards`). `"oom"` and
`"shutdown"` are kept for whoever changes that code, and no run uses them.

### AbstractHeap, IoHeap

`AbstractHeap` maps payloads to keys and has a best one at its root. `IoHeap` is
the array with its positions, one step per turn of a loop. It is used by one
thread, so the steps matter for the loops, not for interleavings.

### ReversibleIO

Collectors of `N` LPs (`Collect`, `Merge`, `EndCollect`), each under its LP's
lock, against the main process: `Execute` takes place while the main process
holds the lock of the LP it is about to clean (core.c:1185), `Scan` is one turn
of the search for the smallest horizon, NaN comparisons included, `Poll` one turn
of the output loop. An LP hands over operations in the order of its events, below
its horizon: that is what `EventQueue` shows of it (`HandedInOrder`,
`CommittedOnly`). A poll and a merge are one step each, because the run and the
theorem `Composition`/`UsesWindows` show that each window is used within
`AbstractWindow` and `NonBlockingList` implements that.

Every window enters the heap with key 0 (io_heap.c:75), and keys change only in a
poll. Until each LP has written one operation its key says nothing, so first
operations come out unordered among the LPs; `OrderedOutput` is stated from then on.

`io_heap_poll` asks only the LP at the root, and a call of `reversibleio_execute`
ends at the first NULL (reversibleio.c:79). An LP that holds back its only
operation, or never wrote and has key 0, therefore keeps every later operation of
the others waiting, for as long as it writes nothing more.
`OnlyStalled` says that nothing else does: when a call has ended short of its horizon, or
once every LP has written, an operation below the horizon is left only behind such an
LP. `Progress` says that a call writes something if LP 0 was collected and the LP at the
root has an operation to give, while the horizons of other LPs may still be NaN.

### EventQueue

The events of one LP; an event is its timestamp, so no two are simultaneous and
the tie breaker is left out. The holder of the LP's lock is sequential (`pc`):
`Fetch`, `FetchDrop`, `FetchChoose`/`FetchAnti`, then for stragglers and
anti-messages `Rollback`, `SilentStep`, `SilentEnd`, then `AntiDone` or
`Execute`, and after a safe event `CleanCheckpoint` and `Collect`. Around it, at
any moment, other threads send events, invalidate them, remove dead nodes and
commit (`CommitDelete`, `CommitCompare`, `CommitWrite`, three steps because no
lock covers them). `Past` is the test the other threads make: while the LP is at
work, a dummy just before the current event stands in for its bound. The build is
the default one: HANDLE_INTERRUPT, no POSTING, no IPI, no resumable rollback,
LOOKAHEAD 0 (an event is safe when it is the minimum of the calendar queue).

The locals of `thread_loop` (`cur`, `anti`, `safe`, `pos`) go back to fixed values
when they are dead, which only merges states. History variables: `output` is
what the last execution of an event wrote, `committed` the events whose node a
commit deleted, `handed` what reached the LP's window. `CLEAN_CKP_INTERVAL` is a
free choice after each safe event; the period of the checkpoints is one of
`CkpPeriods`, chosen at the start. Left out: an event taken from the local queue
that is marked between fetch and line core.c:1040 (its `current_node` is NULL and
`delete` is external code); and `list_prev(NULL)`, taken as "no event".

### Wrappers

One event's calls to write, the buffers they are kept in and the memory those
point to. A `Block` is owned by nobody, by the caller, by the caller but given to
`fwrite` or `puts` ("given"), or is a copy `printf` made; a `Static` block is a
literal or on the stack, and no allocator's. `Add` is `__wrap_fwrite`: `ftell`
(`Ftell`), the narrowing of its `long` to `int` (`ToInt`), the choice between forward and reverse window by position and
`errno` (`IsForward`), `init_window` with its comparison of epochs (`Stale`,
`Opened`), `create_iobuffer` and `nblist_add`, which refuse a buffer without
content or when there is no memory. `Fclose` always ends the run: it goes on only
when `create_iobuffer` returned NULL, which it always does for a NULL content, and
then reads the timestamp through that NULL (wrappers.c:165-169). Afterwards the
event is executed again, undone (`Discard`) or collected (`Collect`); the main
process writes, cleans and destroys.

`fwrite` and `puts` take any pointer the caller has (`known`): a literal, a block
passed before, one that was destroyed meanwhile. The caller may also overwrite, release
or pass again what it passed. The code keeps the pointer and `destroy_iobuffer` frees it
(iobuffer.c:42), so for some of these calls a block is freed twice, early, or although
no allocator gave it; the model goes there too, and stops in the status `"free"`.
`Misuse` records in `misused` the blocks for which that may happen: passed
although they were not the caller's own to give away, released after they were
passed, or written after they were destroyed. To overwrite a block that was merely passed
is no misuse. `MisuseConfined` says that only these are ever freed wrongly, and
`PrintfFaithful` that the copies other than these are written as printed.

Left out: `printf` also writes the terminating NUL, and `puts` writes the NUL and the
byte behind it but no newline. Every member of the printf family is the same action.

### Simulation

All threads, from `init_simulation` to the end of the main process. `InitLP`,
`Ready`, `Enter` are the INIT events and the barrier; `Loop`, `FetchNothing`,
`Fetch`, `GoRound`, `Execute`, `OnGVT`, `NotSafe`, `Clean`, `Collect`, `Unlock`,
`Commit` one turn; `RoundStep`, `PeriodicLock`, `PeriodicCheck` the inspection;
`Test`, `Scan` the agreement to stop, one word of `sim_ended` per step; `Flush`,
`Destroy`, `Finish` the end, and `Sleep` the thread that waits for `sec_stop`.
Which event a fetch finds, whether it is safe and what OnGVT answers is a free
choice: `EventQueue` has the rest. The conditions of the loops also name `sim_error`
(core.c:1008, 1273), which `Stopped` leaves out: only a failure to create the output
directory, before the threads start (core.c:211, 222), and an unknown mode of saving
state (state.c:174) set it. Neither depends on the threads, and no property is about
it.

`Builds` are the compile-time and command-line variants considered: with and
without HANDLE_INTERRUPT (`ORIGINAL=1` selects the second `thread_loop`), with and
without ONGVT_PERIOD, with and without a time limit. Without HANDLE_INTERRUPT the
main process flushes and destroys the windows inside its loop (core.c:1672); the
second time it reads a NULL tail, and the model stops there (`Faulted`).

### AbstractPool, Pruning

`AbstractPool` is four sequences of records: a record, or a prefix of the queue,
moves whole and in order from `queue_in` to the records to be removed, to the old
ones and to the free ones. `Pruning` is the pointers: `Unlink` and `Splice` are
the surgery done by hand in `prune_local_queue_with_ts` and `clean_checkpoint`;
`InsertTail`, `PlaceAfter` and `CleanNode` stand for the macros of `list.h`, which
is not in the repository, as the code uses them. `node`, `marked` and `father` are
the calendar queue, external too, as far as lazy invalidation reads the records;
`Age` is `nbc_prune` moving what is to be removed to the old list. A call of
`Prune` frees the first run of collectable records only, since the walk goes on
from a record that is by then on another list (fetch.c:977).

`NoStrayWindow` exempts the window left on `to_msg`, which `events_lost` shows to exist;
that a record which keeps it is written to again at the same epoch is checked by no run.

Left out: the `size` fields (`clean_checkpoint` does not maintain that of
`to_remove_local_evts`, as its comment at state.c:841 says, and nothing here reads
it); the variant `prune_local_queue_with_ts_old`, which has no caller; POSTING;
simultaneous events. A record that was never used is taken in a fixed order,
which removes symmetric states.

## Runs

Each passing run checks its properties over the complete state space of the
instance. Times are those of two workers.

| Run | Instance | Shows |
|---|---|---|
| `list` | 4 cells, 4 operations | memory safety, nothing lost, order, honest heap key, no leak, refinement; a poll that finds a successor returns (`Delivery`); every cell is reused |
| `heap` | 5 payloads, keys 0..3, MIN_HEAP, capacity 2 (about 1 min) | grows twice; tree of depth 3 with one-child nodes and equal keys; every call returns |
| `io` | 2 LPs, timestamps 0..2, 3 operations each (about 1 min) | order across LPs under all interleavings with the collectors; what may be left behind (`OnlyStalled`); `Progress` |
| `events` | events 1..4, checkpoint periods 1 and 2, 2 committers, 2 rollbacks, any uninitialised horizon (75 s) | output of committed events; silent execution between checkpoints; cleaning and collection |
| `wrappers` | 2 blocks and a literal, 2 texts, `int` of 3 bits, positions 0 and 4, 2 epochs, 3 calls and misused blocks (75 s) | what is accepted is kept, what is printed is written, only what was misused is freed wrongly, seekable output only by truncation |
| `simulation` | 2 threads, 2 LPs, 4 builds (20-40 s) | locks, bounds, barrier, sound and reached termination |
| `pruning` | 4 records, timestamps up to 3 (80 s) | lists stay lists, no record reused too early, no stray window, every record freed, refinement |
| `list_silent`, `io_flush`, `events_mute`, `events_lost`, `shutdown` | smaller instances of the same modules | violations, see below |

Why the bounds are enough. The list's actions look at head, tail and old and the
cell next to them, so two events' windows next to each other with reuse of the
cells between them show every relation of the pointers; the heap instance has
an inner node with one child, a leaf beside inner nodes, and duplicate keys. In
`EventQueue`, four events allow a straggler between two executed events, an
anti-message next to it, a re-execution in a third epoch, and a batch of three,
the last of which is not collected. The theorems remove the bounds altogether
for every safety property of the passing runs; for the liveness properties the
bounds remain. In
`Wrappers`, three calls are two in one window and one that makes it stale, or an
accepted, a refused and a diverted one; a block can be reused while the buffer
that named it before is being written; misused blocks count against the same bound
(`MaxCalls`), so there are three calls without one, or with the last one misused, and
fewer with more; position 4 is the first that does not fit an `int` of 3 bits. In `Pruning`, four records put INIT, a father, its child and one
unrelated record on the lists, so that runs are cut out at the head, in the middle
and at the tail, and a record lives twice.

Symmetry is used for committers, blocks and texts, which are only compared for
equality, and never in a run with a liveness property. `IInv` in `list`
and `io`, and `HeapInv` in `heap`, are the inductive invariants of the proofs, with
the type invariants in them.
Every run checks for deadlock; in `Wrappers`, `Simulation`, `NonBlockingList` and
`ReversibleIO` the program may end, and an end is a step of its own (`Ended`).

Fairness.

- `list`: the main process goes on inside `io_heap_poll` (weak fairness of `PopTest`,
  `PopTake`, `PeekStep`: the scheduler of the operating system). Nothing is assumed of
  the collector, nor of how often this window is polled: `reversibleio_execute` polls the
  LP at the root only, and `OnlyStalled` says what keeps the others waiting.
- `heap` and `io`: a call that has begun goes on. Nothing is assumed of
  collectors in `io`.
- `simulation`: the operating system runs every thread, and the sleep ends. Nothing
  is assumed of the order in which locks are obtained nor of what a fetch finds:
  `Terminates` starts when the time is over or every LP has ended.
- `pruning`: `nbc_prune` is called in every turn of `thread_loop`, so `Prune` is
  weakly fair; nothing is assumed of the events.

### Disagreements found

Each is a run that TLC must find violated.

1. `list_silent` (`NeverEmpty`): merging the window of an event that wrote nothing
   puts NULL into `tail`; from then on every merge returns early and destroys the
   output. non_blocking_list.h:18 says the dummies avoid an empty list.
2. `io_flush` (`AllFlushed`): the dummies of the flush are refused, so operations
   before the horizon stay unwritten; reversibleio.c:85.
3. `events_mute` (`OutputFaithful`): output of an undone execution survives when the
   new one writes nothing, since only a write compares epochs; README.md:2. With
   `MayBeMute` FALSE (every execution writes) the property holds (`events`), and is
   proved.
4. `events_lost` (`AllCollected`): the last event of each batch that is thrown away
   is never collected; reversibleio.h:14.
5. `shutdown` (`LastHorizon`): the main process flushes and destroys the windows
   while another thread is on its way to publish a horizon and collect;
   reversibleio.h:35.

More are in the models without a run of their own. The unordered first
operations (above) follow from the initial keys, and `OrderedOutput` excludes
them. An LP with nothing to give stops the output of all the others, although
reversibleio.h:26 says of `reversibleio_execute` "Executes the collected operations";
`OnlyStalled` states how far that goes. The wrappers take "all the parameters of the
fwrite" (wrappers.c:58) and behave "like the stdlib puts" (wrappers.c:120), but the
buffer of a literal, or of a pointer passed twice, ends in a wrong `free`: in `wrappers`
a `puts` of a literal and a rollback lead to the status `"free"`, and `MisuseConfined`
states how far that goes. A failed `nblist_init` in the merge leaves the source
pointing at merged cells, which are then freed (`Hazards = {"oom"}`).

That the horizon is not initialised and can go back is, by `events`, harmless for
what is thrown away: `clean_checkpoint` runs only after a safe event, when
everything before it is committed. That is also a theorem (`ThrownIsCommitted`).

## Proofs

All theorems hold for every value of the constants under the named assumptions
on them; TLC evaluates those assumptions in the runs.

**NonBlockingListProofs** (assumption `NoHazards`, that is `Hazards = {}`, except for
`UntilSilent`). The
invariant `IInv` orders the live cells by an auxiliary place `pos`: dummies take
odd places, operation `k` takes `2k`. Following `next` goes up in `pos` and skips
no operation, from `old` through `head` to `tail` and, between link and tail, into
the source. `NoFault` alone is not inductive: that `next[head]` is live depends
on everything between head and tail. From it: `MemorySafety`, `LeakFree`,
`Conservation`, `KeyHonest`, `PopOrder`, `TypeCorrect`, and `Refinement` to
`AbstractWindow`. `UntilSilent` needs only that nothing fails
(`Hazards \subseteq {"silent"}`): the invariant is kept by every step but the collection
of an event that wrote nothing, so until the first one the list is not empty, shares
no cell with the window of the event at hand, loses nothing, has the right key and
leads to no freed memory.

**IoHeapProofs**. While a loop runs, only the links at `cur` may be out of order,
and those around it are in order when `cur` is skipped. That the root is best
follows from the links by the least slot with a better key (`LeastNat`), so no
induction over an operator is needed. From it: `Entries`, `Bounds`, `RootOrder`, and
`Refinement` to `AbstractHeap`, for MIN_HEAP and MAX_HEAP.

**ReversibleIOProofs**. The invariant: windows sorted, the heap's key of an LP is
its first remaining operation once one was taken and 0 before, and the root is
best. The key step: once every LP has written one, each LP holds at least one
operation back and its key bounds all it will ever write, so a poll of the best
root cannot be behind. `Order` needs that and nothing about the horizons. That
"every LP has written" and not "the main process has written" is the condition was
found by the proof: before, an LP may still have key 0 with a late operation. From
it: `Sortedness`, `OutputBehind`, `Order`, `Composition` (each window is used as
`AbstractWindow` allows), and `Stalled`: a call that ends does so at the root's
NULL or past its horizon, the root's key is the least, and the last timestamp written is
not after the output's (`LoopBehindOutput`), so whatever is left below the horizon is
due after the key of an LP with nothing to give.

**EventQueueProofs**. The invariant has one part per piece of state: the types
(`StateOK`), what is in the calendar queue (`Calendar`), what each program point
knows of the event at hand (`Current`), the queue up to the bound (`Executed`), the
checkpoints, one of which can never be undone (`Checkpoints`, `Anchored`), what was
thrown away (`Thrown`), and the windows (`Windows`). `CommittedOnly` needs
`Executed` (what is executed before a safe event and still has a node would be the
minimum of the calendar queue) and that `clean_checkpoint` is reached only with
`bound <= gvt`; nothing about the horizon, which is why its race is harmless.
`RestoreExists` needs `Anchored`: `clean_checkpoint` keeps the checkpoint it cleans
up to, which is before the GVT, and a rollback deletes only later ones.
`OutputFaithful` needs that a window behind the bound is empty or of an older
epoch, so that the next write discards it. From it: `ThrownIsCommitted`,
`CheckpointLeft`, `NextExecuted`, `UndoneIsDiscarded`, and `FaithfulOutput`, the
last under `~MayBeMute`; the run `events_mute` shows that assumption is needed.

**SimulationProofs**, for any number of threads and LPs and every build. The
invariant counts who has reported (`Barrier`), says where an index may be other
than 0 (`Indices`), that a missing bound belongs to a thread in `held` that holds
the LP's lock (`Aside`), and that the bits a thread has passed in
`check_termination` stay set (`Scanned`). `StopSound` alone is not inductive, it
needs `Scanned`; `BoundRestored` needs `Aside` with `LockDiscipline`. From it:
`TypeCorrect`, `LocksKept`, `BoundsBack`, `InitIsFirst`, `StopIsSound`.

**HandedProofs**. What `reversibleio_collect` hands over is defined by recursion
over the events (`WindowsOf`), and the library's induction theorems cannot be used
here. Instead the recursion is shown to have a solution and that solution to be the
walk (`IsWalk`) by the earliest event at which it would fail (`EarliestOf`), and a
walk over windows of one event each is ordered (`WalkOrdered`). `HandedInOrder` then
needs that every event still queued is later than what was handed over, with the
batch being collected in between (`Separated`), and that a window holds only what
its own event wrote (`Wrote`). From it: `TypeCorrect`, unconditionally, and
`HandedOrder` under `~MayBeMute`. This is what `ReversibleIO` assumes of a
collector: its operations come in the order of its events.

**WrappersProofs**, for any streams, blocks, texts and positions and any `IntMax`.
The invariant, for all blocks but those in `misused`: the forward window, the reverse
window, the list of the LP and the buffers written share no block (`Memory`), every
buffer has a block of its own that was given away or is a copy, and a copy made by
`printf` still holds what was said (`Sound`); a fault is due to a misused block; no
window is of an epoch to come (`NotAhead`). `MisuseConfined` and `PrintfFaithful` both
need that the lists are disjoint: destroying one window must leave the text of the
others alone, also when a window of an older epoch is thrown away in the middle of a
call, and also when a list holds a misused block twice. `AcceptedKept` needs
`NotAhead`. From it: `TypeCorrect`, `PrintfFaithfully`, `MisuseStays`, `AcceptedStay`,
`OnlyWideForward`.

**PruningProofs**, for any number of records and any timestamps. `Shape(L, q, X)`
says that the pointers `L` of every list run, in both directions, through one of the
sequences `q`, that no record is in two places, and that a record in none of them
points nowhere, except those of `X`, which are being moved. Each piece of surgery is
a lemma that takes `Shape` to `Shape` with the sequence it should yield
(`InsertTailShape`, `UnlinkShape`, `PlaceAfterShape`, `SpliceShape`, ...), and
`ChainIs` says that the recursive `Chain`, with which the properties are stated,
reads that sequence back (by well-founded minimality over the places, again without
an induction theorem). `Linked` is then inductive with the other parts. `FatherKept`
is not inductive alone: `Prune` frees by timestamps and looks at no father, so it
needs that `max_outgoing_ts` covers the timestamps of the events sent and that what
is in the calendar queue is not before the GVT (`Covered`), and that a father was
executed, hence is on one of the lists `Age` and `Prune` go through (`Fathered`);
`Queued` keeps `clean_checkpoint` and the rollback inside the queue. From it:
`TypeCorrect`, `ListsLinked`, `FathersKept`, `WindowsTaken`, and `Refinement` to
`AbstractPool`: every step moves records whole and in order, or moves none.

Only model-checked: liveness (`Delivery`, `CallsReturn`, `Progress`, `Terminates`,
`Reclaimed`), which the prover does not handle. Every invariant, action property and
refinement of the passing runs is a theorem.

## Plan

1. `EventQueue` as the collector of `ReversibleIO`: an abstract specification of
   "committed output, in order" that both implement, with `HandedOrder` as the step
   that is proved already.
2. The safety part of the liveness arguments, as theorems: that a collectable record
   stays collectable until it is freed (`Reclaimed`), that what is below the smallest
   horizon stays there (`Progress`), that a flag or bit once set stays set
   (`Terminates`).
3. What survives in `NonBlockingListProofs` under the hazards `"oom"` and `"shutdown"`,
   as `UntilSilent` says it for `"silent"`.
4. Simultaneous events with tie breakers in `EventQueue`; the fetch of the loop
   without interrupts.

## Not modelled

The statistics, debug, posting and IPI code and the variants of pruning and fetch
compiled only with them; `fetch_internal` and `silent_execution` of the build
without HANDLE_INTERRUPT; the contents of simulation states and checkpoints; thread
affinity and the command line; `find_time_barrier` and the interfaces that set a
checkpoint period, which have no caller here; `io_heap_delete`, which frees the heap
as the last thing the program does; `nblist_print`. The calendar queue, the lists of
events (`list.h`), the allocator and the locks are not part of the repository and
appear as their effect on the modelled state.
