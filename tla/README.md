# Arbitrary Composer: a TLA+ verification project

TLA+ models of the core of `libarbc` (sources under `src/src/`, design documents
under `src/docs/design/`), the TLC configurations that check them on small
instances, and TLAPS proofs for every instance. Each definition names the code it
models in `PROJECT.json` ("map"); the comment above each property says which
behaviour of the code it is about.

    tlc -workers 2 -config Workspace_crash.cfg Workspace     # a run
    tlapm WorkspaceProofs.tla                                # the proofs of a module

## 1. The system and its parts

`libarbc` composes zoomable, time-based documents. A document is an immutable tree
of records that one writer thread replaces version by version; render, audio and
background threads read pinned versions. The layers, from the bottom:

| part | state it keeps | operations | hard behaviour | what makes it correct |
|---|---|---|---|---|
| slot stores, workspace file, checkpointing (`pool`) | mmapped chunks, free pools, quarantined slots, two header roots with two snapshots of the high water | allocate, release, commit, open | crash between any two stores, pages written back in any order, failed msync, reuse of slots the durable root still needs | a reopen finds the last checkpoint or the one under way, whole |
| reference counts, reclamation (`pool`) | count, generation and link columns, a lock-free list of dead slots | retain, release, enqueue, drain | releases on any thread against one drainer | no slot is reused while referenced, none is lost |
| model and journal (`model`) | current version, open transaction, undo entries, cursor, cost | transact, edit, commit, abort, undo, redo, set_byte_budget, open | long mixes of gestures, undo, trims and reopens; UI thread reading published words | navigation leads to the documents the history stands for; stamps identify records |
| worker pool (`runtime`) | two task queues, a gate per content, claims per owner, settle generation | submit, submit_work, wait_completions, poke, drain_owner, request_stop | several drivers and workers, contents settling on their own threads, shutdown | one render per content, no use after drain, no lost wake |
| housekeeping (`runtime`) | poke and stop flags, tick count, checkpoint cadence | after_commit, tick, flush, request_stop | a background thread sharing the drain seat with the writer | one drainer, flush returns, nothing is left undrained |
| tile cache (`cache`) | keyed entries with class, recency, pins; orphans; resident bytes | insert, lookup, reclassify, remove, unpin | pinned entries removed, replaced and evicted around | bytes are exact, victims are the coldest of the lowest class |
| audio: pump, ring, audio worker pool | ring slots behind sequence locks, wants, tasks | tick, prime, reprime, invalidate, drain | the device callback reads while the pump writes; late or missing settlements | the callback never sees a torn block; the pump never hangs |
| compositor and interactive renderer | refinement queue, tile plans, pulls in flight, damage | plan, pull, refine, render_frame | results that arrive for a superseded revision | a frame converges to the exact image |
| external loads, assets | pending requests, arrivals, blob files | request, complete, settle, collect | late, duplicate and reordered answers; collection against a save | every load settles once; no referenced blob is collected |
| serialisation, kinds, media, surfaces, plugins | data | formatting, pixel and sample arithmetic | | out of TLC's reach, mostly data |

How they interact: `Document` owns a `Model`; a `Model` owns the stores, the
`Journal` and, when it is backed by a file, a `Checkpointer`. A commit publishes a
version, appends to the journal and calls `HousekeepingThread::after_commit`, which
drains the reclamation queue and may checkpoint. Released slots pass through the
checkpointer's fence before they are free. Drivers (interactive renderers, offline
sequences, the tile codecs) submit tasks to a shared `WorkerPool`, park on its
completion generation and drain their tasks before they die.

`PROJECT.json` lists every part with what is modelled of it ("components") and what
is hard to test in it, at its line ("hazards").

## 2. Modules

| module | models | extends |
|---|---|---|
| `DurableDocument` | what a workspace file promises: the abstract specification | |
| `Workspace` | the slot store, the durability-epoch quarantine, the ordered A/B commit, write-back, crashes, recovery | instances `DurableDocument` |
| `WorkspaceProofs` | theorems about `Workspace` | `Workspace` |
| `Journal` | transactions, publishing, undo and redo, coalescing, trimming, checkpoint and reopen of the model | |
| `WorkerPool` | the render worker pool and its drivers | |
| `Reclamation` | reference counts, the lock-free reclaim lists, the drain and the housekeeping thread | |
| `KeyedStore` | the budgeted cache of tiles and audio blocks: pins, orphans, classes, eviction | |
| `Frames` | interactive rendering: host viewport, renderer, compositor, pull service, refinement queue, damage | |
| `AtomicRing` | what the ring of prepared audio blocks promises: the abstract specification | |
| `PreparedRing` | the ring, slot fields and sequence numbers one store and one load at a time | instances `AtomicRing` |
| `Playback` | device callback, device monitor, lookahead pump, audio worker pool | |
| `Loads` | loading a document and, late, the documents and assets it references | |
| `TileStore` | saving painted tiles: the memo of saved slots, encode jobs, failing saves, collection of blobs | |
| `Containers` | associative containers and filtered queues, as the code uses them | |
| `JournalProofs`, `PreparedRingProofs`, `TileStoreProofs`, `KeyedStoreProofs`, `WorkerPoolProofs`, `ReclamationProofs` | theorems about the module they name | that module |
| `CollectionTheorems` | lemmas about sums over finite sets, `Filter` and the ranges of queues | `Containers` |
| `MCFrames`, `MCPreparedRing`, `MCPlayback`, `MCLoads`, `MCTileStore` | the instances of the runs: scenes, file systems, index ranges, pixel values | the module they name |

`Playback` uses a ring whose slots are read and written at once; `PreparedRing`
shows by refinement that the lock-free ring looks like that to both of its users.
`Frames` uses a cache that does not evict, `KeyedStore` shows what eviction may
take, and `WorkerPool` what a dispatched render goes through.

### Workspace

The file is kept twice, in the page cache (`mem`, `roots`, `mapped`, `snaps`) and on disk
(`disk`, `droots`, `dmapped`, `dsnaps`). `mapped` is the chunk directory, as the slot
indices its live chunks hold; it shares the first header page with the two root slots, as
it does for the first 166 chunks of a file, and is written back with them. A new file has
its header in the page cache only (`create` syncs nothing), so `dmapped` starts as
`NoHeader`, a page without the magic. `WriteBackRoots` and `WriteBackSnapshot` are the
kernel's; data pages need no action of their own, because the properties and
`PowerCut` quantify over every set of slots that may have been written back. A
commit is five actions in the order of `Checkpointer::commit`: `SyncData` (skipped
on a clean scene), `PublishHighWater`, `StampSnapshot`, `FlipRoot`, `SyncHeader`
(which also runs the fence's `advance`). A failed data msync changes nothing and is
a stutter; a failed header msync is `SyncHeaderFails`. `Kill` stands for a killed
process and for a clean close, which write nothing of their own; `Reopen` is
`Checkpointer::open`, `Model::open` and `rebuild_counts`, including the chunks it
punches, of a file that `Accepts` finds in order: the magic is there (`BadMagic`
otherwise), a root is eligible and the directory covers the high water of its snapshot
(`StoreDirectoryInconsistent` otherwise). Any other open is `Refuse`, after which nothing
happens to the file any more. That the file's length reaches the disk no later than the
directory entries that need it is assumed; the refusal of a chunk past the end of the file
is therefore not modelled. A record is the number of the version that wrote it, and `tree` is what a
walk from a version's root finds; nothing else of the bytes matters to recovery.

`CrashOn` names the leftovers of an abandoned commit on which a second crash may
strike: a `torn` root slot, an `orphan` stamp whose root was never written, a `failed`
header msync, an `unsynced` root. The violation run enables the first; with
`CrashOn = {}` the remaining crashes are shown safe. Every other crash, first or later, is always allowed, up to
`MaxCrashes`.

### Journal

A document is a function from ids to records, a record a revision stamp and a serial
number in place of its fields. The mutators of `Model::Transaction` are `add`,
`set` and `remove`; `Exhaust` is the pool running out of slots in the middle of one.
`commit` publishes, appends or coalesces, drops the redo tail and trims, as one step
of the writer thread. `line` and `seen` are history variables. `Overlap` and
`TrimsUndone` allow two call sequences that the headers do not forbid and that break
the properties (section 4); the run has both off.

### WorkerPool

One action is one critical section of `d_mutex` or one atomic step outside it; a
notify is taken with the section it follows. A thread on a condition variable sleeps
until notified and tests its predicate again; spurious wakeups, which could only help
it, are left out. `inline` is chosen in `Init`: a pool without workers, where the
submitting driver runs the task itself and then those parked behind its gate, is one
of the initial states of the run. A completion is the one-shot object of
`render_completion.cpp`: pending or settled, since nothing in the pool tells a claimed
one from a pending one, or a taken one from a published one; contents in `Async` may
settle theirs on another thread and poke the pool. Of the settle generation only its
comparison with a driver's cursor matters: the model keeps whether they differ
(`behind`). A content that submits again from inside
an inline render is not modelled.

### Reclamation

One action is one atomic operation: a decrement, the load and the compare-and-exchange
of a push, the exchange that detaches a list, a destructor, the generation bump, the
release of the slot. What runs under the mutex of `HousekeepingThread` interleaves with
the pushes of the threads that do not take it. A slot belongs to one of two stores,
nodes and object records, in the order in which `wire_stores` registers them. A record
has at most one edge, which is enough for chains, for sharing and for a cascade from
one store to the other. The `shared_ptr` of a version is folded into the count of its
root, since the last of its owners releases that root. A freed slot may be allocated at
once, the worst case for the order of bump and release; the fence in between is in
`Workspace`. `flush` compares a tick counter with the one it read: the model keeps
whether it has grown since. `Doomed` is what was on the lists when a flush was called,
with everything that only those slots keep alive; like `Chain`, the slots of a list, it is
the least set closed under a rule, which asks for no recursion and serves TLC and the
proofs alike. The checkpoint cadence of
`after_commit` and `tick` and the release of a content record's state handle are not in
this module.

### KeyedStore

The map, the orphans and the recency clock of `keyed_store.hpp`, single threaded like
the class. An entry is named by the tick at which it was inserted. `Detach` is the
common end of remove, replace and invalidate; `EvictToFit` is the loop of
`evict_to_fit` as one step, which takes exactly the victims that the loop would, in the
order of class and recency. Readers hold at most one entry each.

### Frames

One frame is four steps of the render thread: `StepPin`, `StepPlan` (or `StepStill`,
or `StepIdle` when there is nothing to do), `StepSweep`, `StepPoll`. Workers settle
renders and the writer commits between them. Geometry is reduced to cells: a tile, a
damage rectangle, the area of a view are sets of cells, and a rung is a set of tiles
with a coarser tile above each. A pixel is the version of each leaf that drew it and
the time it was drawn for, so that a stale, a mixed and a blurred picture differ. The
planning walk (`PlanFrame`, `PlanTile`, `Pull`, `RenderOperator`) is a pure operator
over the state that the code threads through it: it renders operators on the spot,
sends leaves to the pool and records what it waits for. `quick` is the worker that has
settled before the caller looks.

`ConcurrentWriter` lets commits fall inside a step, `HonoursCancel` lets a cancelled
render fail; the run has both off, which is how the hosts of this repository drive the
viewport (they edit between steps) and what its contents do (none reads the cancel
flag).

### PreparedRing and AtomicRing

A publish opens the slot (odd sequence number), stores its fields in any order and
closes it; a drain loads the number, the fields in any order and the number again, up
to `k_attempts` times. The producer's operations are lists of slots to retire and
blocks to mix, under the pump's mutex. The refinement maps a slot that is being
written to an empty one and a drain to the moment of its closing load.

### Playback

The threads are the host, the owner thread of `DeviceMonitor`, the device callback, the
pump, the pool's workers and the contents' own. Seeks, rate changes, edits and listener moves are staged
and picked up where the code picks them up; the pump's tick takes what is staged,
re-primes, warms the nested content from the bottom up, waits and mixes. A render of a
content in `Faulty` has three outcomes: it is settled when `render_audio` returns, it has
failed by then (as it does in `run_task` for a content without an audio facet), or it is
`away` and the content settles or fails it later (`Settle`). The worker pokes the pool
only for a task that has settled when it looks (`HasSettled`); a content has the
completion and no pool to poke. A failed block enters the cache as silence, which is what
its buffer was filled with. `slip`, `unheard` and the failed sounds in `faults` are
history: a callback ran while the owner thread was between two stores of a rebase; a
render settled and nobody will tell the pump of it; a render of this sound failed. The
monitor, which refers to the pump, is gone before the pump is stopped.

### Loads

The reader's recursion is an explicit stack. A reference is looked up by its resolved
address, recorded before it is requested, and answered at once, later, or twice; an
answer only goes to the queue, and a settle on the writer thread installs it. The host
may edit and install in between. `HolesRedrawn` is about what a frame would have to
draw again.

### TileStore

A layer has a pool of slots of its own; a tile table names slots and painting takes a
new slot, since the old one belongs to an earlier version. A save pins each layer's
table, probes the memo, encodes what it does not know on workers and reaps the jobs.
It can fail at every stage: in a pass (`ReapFails`), which leaves the memo of the last good
one while the writer latches the error and walks on to the other layers; and when the
walk is over (`SaveFails`), by a latched error, by the codec of another content or by the
host's write of the text, when the memo is already that of the passes that have ended. Documents
live in directories (`Home`) with their own blobs, while the memo is one. `vouched` is a
history variable, the directory where a document on disk lists all that the memo knows,
and `sure` records whether a save hashed or was vouched for every name it wrote. The
collector marks from every document of a directory and removes blob by blob. `Hash` makes two pixel
values round to one blob, as a storage format of lower depth does.

## 3. Runs

| run | question | states | result |
|---|---|---|---|
| `workspace_crash` | does a kill or power cut at any step leave a file that reopens whole, is only a file without a checkpoint refused, does the file implement `DurableDocument`, is a scene called clean on disk? | 4.32 M | holds |
| `workspace_torn` | is it true after a second crash that strikes on the leftovers of a torn commit? | | violated (finding) |
| `journal_history` | does navigation lead where the history says, are stamps unique, is the cost exact? | 1.33 M | holds |
| `pool` | two drivers, two workers or none: gates, claims, drains, wakes, stops; do queued renders start and drains return? | 297 k | holds |
| `reclamation` | a writer, a reader and the background thread drop, push, drain and reallocate: are references live, counts exact, dead slots in one place, does a flush drain the cascade, is what is listed reclaimed, does every flush return? | 118 k | holds |
| `cache` | are bytes and pins exact, does every entry have its place, is the victim the right one, is only pinned data over budget? | 161 k | holds |
| `frames` | when the host has nothing left to do, does the surface show the document? is each tile rendered once, is an exact tile current, does no picture go back, do frames end? | 221 k | holds |
| `ring` | does the lock-free ring look like one that is read and written at once, on both sides of block zero? | 532 k | holds |
| `playback` | is the window ahead of the clock prepared from the current sound, does the device draw at the clock, is the gate held, is a render lost, can the pump wait for nobody, with renders that fail or settle late and a pool that stops at any time? | 1.72 M | holds |
| `loads` | is every answer applied to every content that waits for it, is nothing requested twice, are chains cut, holes redrawn, does a settle end? | 454 k | holds |
| `tiles` | does a saved document name the right blobs and are they on disk, is the memo true, with saves that fail at any stage and two directories? | 6.70 M | holds |
| `tiles_layers` | is it still so with two layers? | | violated (finding) |

Bounds. `Workspace`: in three slots, versions that share records must reuse slots some root
may need; chunks of two add a chunk that is punched; two generations
use both header slots, and a first checkpoint has a header that was never written back
before it. `Journal`: two ids, four records and four
revisions reach coalescing, a dropped tail, a trim and a reopen after each of them; a
budget of two edges holds one or two entries. `WorkerPool`: two tasks of a serialised
content put one in a worker or the ready queue and one behind its gate; two drivers let
one drain under the other, two workers let one pass the gate while the other looks for
work. One driver has a frame loop: with two of them the same properties hold in a run
without liveness, too long to keep here. `Reclamation`: two nodes make a cascade within
a list that a pass has already detached, and two creations reuse a slot; a writer, a
reader and the background thread are two racing pushes and a drain. The second store
is empty in this instance and visited by every pass; cascades from one store to the other
are left to the theorems of section 5. `KeyedStore`: four
keys, two sizes and two classes under a budget of three bytes make every insert but the
first few evict; two holders pin what should go. `Frames`: two cells under a coarse tile
and two fine ones, views of both cells and of one (so that an edit may fall out of sight), a leaf layer that is also the input of an operator layer, and two
edits, moves or ticks in any order are enough for a render to be overtaken by an edit, a
zoom and another frame. `PreparedRing`: two slots, blocks -2 to 1, two mixes: a slot is
rewritten during a drain, and a drain fails both attempts. `Playback`: a window of two
blocks in a ring of three, one seek target, forward and backward play and one callback.
Two things may upset it: calls of the host, of which the stop of the pool before the pump
is one, and renders that fail or settle late. They come in any pair, against every step of
the other threads. With two calls of the host and a fault of the leaf besides, under a pool that
outlives the pump, the same properties hold (6.1 M states). `Loads`: three file systems, one
with a cycle and a shared asset, one with a document rejected half-way, one with a chain
longer than the cap. `TileStore`: two tiles in five slots, so that slots are recycled
between saves; three strokes and two saves to two documents in two directories. With two
strokes and three saves the same properties hold.

Several invariants of a run are conjunctions of named parts, the type invariant among them:
`HistorySound`, `GatesSound`, `TasksAccounted`, `SlotsSound`, `Accounted`, `QueueSound`,
`WindowSound`, `PoolServes`, `RequestsSound` and `MemoSound`. Each is one statement about
one structure, and the parts (`GateHasHolder`, `CountsExact`, ...) keep their names and
their comments in the module. `Inv` of `Workspace` and its part `TypeOK` are proved
(section 5) and in no run.

Deadlock is checked only in `frames`, which can always step. A pump that waits for a
render its content keeps may wait for ever (section 4). Elsewhere a
document nobody edits, or a pool nobody submits to, may stop, and the bounds end every
behaviour.

Fairness is stated where liveness is checked. `WorkerPool`: the scheduler runs every
thread that is able to run and every render that has started returns (weak fairness of
`Step` and `Resume`). `Reclamation`: every thread runs, the period of the background
thread elapses (`wait_for` has a timeout), and a thread that waits for the mutex gets it
in the end (strong fairness of `run`, `lock` and `flush_wakes`: the mutex is held for
one drain at a time). `Frames`: the host keeps calling `step`, a step ends, workers
settle what they were given, a commit reaches the damage sink. `Loads`: the writer goes on
reading and settling, as the host's frame loop does. Nothing obliges a host to edit, a
driver's timeout to expire, an asset source to answer or a content of the pool to settle.
`QueuedRuns` speaks of renders only: the work lane yields to renders and may starve
behind an endless supply of them, as the code intends.

## 4. Findings and observations

Two findings have a violation run; `PROJECT.json` quotes the text they contradict.

- `workspace_torn`: after a torn commit the generation is issued again, and stamping
  the snapshot before rewriting the root can make the rejected root eligible. A failed
  header msync, whose retry reuses the generation too, leads to the same with
  `CrashOn = {"failed"}`.
- `tiles_layers`: the memo of saved tiles is keyed by the slot's index and size and not
  by its pool, although each layer has a pool of its own: the second layer of a document
  is saved under the names of the first one's tiles.

Observations: sequences outside what the runs above assume, each reproducible with a
run's cfg and the change named.

- A reopen after a kill trusts a root that no msync has covered: a power cut after it
  loses it (`Workspace`, `CrashOn = {"unsynced"}`, `NeverCorrupt`).
- `set_byte_budget` with entries undone trims entries that are not applied (`Journal`,
  `TrimsUndone = TRUE`, `NavigationReturns`), and an undo while a transaction is open
  makes the commit publish the same revision twice (`Overlap = TRUE`, `RevisionAdvances`).
- `publish` of the journal stores the rows before the depth, which orders a growing
  history and not a shrinking one (`journal.hpp:204-210`).
- `load_baseline` restarts revisions at 0 on a model that may be in use; installing a
  referenced document by itself issues a stamp twice (`Loads`, `StampsIdentify`, world
  `Nested`; `model.cpp:965-973`).
- A commit between the pin and the drain of one `step` has its damage consumed by a frame
  of the older version, and the picture stays stale (`Frames`, `ConcurrentWriter = TRUE`,
  `IdleIsCurrent`; `host_viewport.cpp:239` and `:289`).
- An input that is no layer has no object revision, so an operator over it keeps its key
  when the input is edited (`Frames` with the `Private` scene; `interactive.cpp:267-269`).
- A cancelled render that fails leaves no damage behind: a tile that has become wanted
  again in the meantime is not asked for until the next damage (`Frames`,
  `HonoursCancel = TRUE`, `IdleIsCurrent`; `interactive.cpp:511-513`).
- The closing load of a drain is an acquire, which orders what follows it and not the
  sample loads before it: on a machine that reorders loads, with
  `LoadsInOrder = FALSE`, `WholeBlock` fails (`lookahead.cpp:451-452`).
- Before the first checkpoint a power cut may leave a file that every later open refuses
  (`BadMagic`, or `StoreDirectoryInconsistent` if the directory did not reach the disk):
  `create` syncs nothing. There is no checkpoint to lose then, and `PowerCutRecovers`
  says so (`generation > 0`).
- A render that its content settles after `render_audio` has returned pokes nobody: the
  content is handed the completion and not the pool, and the worker has looked already
  (`audio_worker_pool.cpp:147-150`). The pump's wait has no timeout
  (`lookahead_pump.cpp:154`), so if that render was the last one, the pump sleeps until
  something else pokes the pool; nothing does while a single pump uses it.
  `NoDeadWait` excuses just that (`away`, `unheard`) and fails without the excuse. The
  gate of such a content is passed on when `render_audio` returns, not when it settles.
- If the pool is stopped before the pump, `wait_completions` returns at once for ever and
  the pump spins on renders that nobody will make; `submit` after a stop leaves the
  completion unsettled, as its comment says. Nothing orders the two destructors but the
  host (`PoolOutlives`).
- A block whose render failed is cached as silence like any other and stays until an
  edit, a listener move or eviction; the render is not tried again
  (`lookahead_pump.cpp:160-165`).
- `flush_master` (not modelled) returns after any owner step, also one that began before
  the call, and on backward play the device still drains at rising
  indices, so that `CursorIsClock` is stated for forward play.
- `end_pass` makes a layer's names the memo before any document lists them
  (`codec_raster.cpp:227`). If the save fails after it, a collection sweeps the new blobs
  and the memo goes on naming them; the next save hits the memo, skips the put and the
  look at the disk (`codec_raster.cpp:156`, `raster_tile_store.cpp:110`), and writes a
  document that names a missing blob. The same follows from a save into another directory,
  whose blobs the memo has never seen. `SavedTilesPresent` and `MemoOnDisk` excuse saves
  and memos of this kind, and only these (`sure`, `vouched`): without `sure`,
  `SavedTilesPresent` fails in `TileStore.cfg`. `asset_gc.hpp:26-29` and
  `08-serialization.md:85-88` expect the next save to write such a blob again.
- The host must keep a collection and a save apart (`SweepsAlone`).

## 5. Proofs

Every theorem holds for every value of the constants that satisfies the named
assumptions of the module it is about; what else it assumes stands in its `ASSUME`.
Each inductive invariant below was checked by TLC on the instance of the run before it
was proved, and each proof has the same plan: a lemma that `Init` satisfies it, a lemma
per action that keeps it, a lemma that it implies the property, and a temporal step.

| theorem | states | assumes beyond the module's own |
|---|---|---|
| `WorkspaceProofs`: `Invariance`, `TypeCorrect`, `KillSafe`, `PowerCutSafe`, `CleanSceneSafe`, `Refinement` | `Inv`, `TypeOK`, `KillRecovers`, `PowerCutRecovers`, `CleanSceneIsOnDisk`, `KeepsDocument` | `CrashOn = {}` |
| `JournalProofs`: `CostsAgree` | `HistorySound` | |
| `JournalProofs`: `StampsAreUnique`, `RevisionsAdvance` | `StampsIdentify`, `RevisionAdvances` | `~Overlap` |
| `JournalProofs`: `NavigationFindsHistory` | `NavigationReturns` | `~Overlap`, `~TrimsUndone` |
| `PreparedRingProofs`: `WindowFilled` | `WindowSound` | |
| `PreparedRingProofs`: `BlocksAreWhole`, `UnderrunsExcused`, `RingIsAtomic` | `WholeBlock`, `UnderrunExcused`, `ReadsAtOnce` | `LoadsInOrder` |
| `TileStoreProofs`: `DocumentsAreRight`, `BlobsArePresent`, `MemoIsSound` | `SavedTilesRight`, `SavedTilesPresent`, `MemoSound` | `Len(Layers) = 1`, `SweepsAlone` |
| `KeyedStoreProofs`: `BooksBalance`, `BudgetHolds`, `EvictionInOrder` | `Accounted`, `OverBudgetOnlyPinned`, `EvictsInOrder` | |
| `WorkerPoolProofs`: `GatesHold`, `DeadOwnersUntouched`, `TasksAreAccounted`, `WakesAreKept` | `GatesSound`, `DeadOwnerUntouched`, `TasksAccounted`, `NoStolenWake` | |
| `ReclamationProofs`: `SlotsAreSound`, `FlushesDrain` | `SlotsSound`, `FlushDrains` | |

The statements themselves excuse what section 4 shows the code cannot promise: a file
before its first checkpoint (`PowerCutRecovers`) and a memo nobody vouches for
(`SavedTilesPresent`, `MemoSound`).

Each hypothesis is a place where the code is known to fail without it (section 4): a
second crash on leftovers, an undo inside a transaction, a budget that trims undone
entries, a machine that reorders loads, a second layer, a collection during a save. They
are those of the runs, too.

### Workspace

What a reopen finds is a fact about two header slots and the bytes they
lead to, so no single property is inductive. `Inv` says of the *active* slot, the one
of the last durable root, that its root and snapshot agree, lead to the committed
version and that none of that version's slots is free or differs from the disk
(`ActiveOK`, `Protected`); of the *next* slot, the one a commit writes, that it is
older than the active one or belongs to the unfinished commit, whose version is then
protected too (`NextOK`); and of the disk that, when nothing abandoned is left over,
each half is the page cache's or older (`DiskOK`). `StoreOK` keeps live, free,
quarantined and written slots apart; `DirtOK` is why the three counters of `is_dirty`
cannot cancel: live plus quarantined counts the allocations since the last commit;
`DirectoryOK` is why the directory covers every snapshot an open could select, on disk as
soon as a checkpoint has completed.
`RecoveryLemma` then shows once, for the page cache and the disk alike, that selecting
a root from such a header finds the committed or the unfinished version in place; it
carries the reopen, `KillSafe` and `PowerCutSafe`.

### Journal

`HistorySound` is inductive as it stands: a sum over a list splits where the list is cut
(`CostSplit`, `CostAppend`, `CostTip`), so coalescing, the dropped tail and trimming each
change the running cost by what they change of the list.

A restored stamp is no new one because what an undo restores has been published before.
`StampInv` says so: every entry's two sides are in `seen` (`Recorded`), so a navigation
publishes nothing that is not there already; `seen` holds no stamp above the revision
(`Identifies`), so what a commit publishes, stamped with the next revision, differs from
all of it; and an open transaction works on the current document and has stamped its
writes with that revision (`TxnSound`), which an undo inside the transaction would break.
After a reopen the revision starts above the greatest stamp of the file (`FileBounds`),
which gives `Identifies` anew. `RevisionsAdvance` follows from `TxnSound`: what a commit
publishes is still the next revision.

`NavigationReturns` needs to know where an entry leads from wherever it stands.
`HistoryInv` adds that each entry leads from the document at its place of the line to the
next (`Linked`), as a statement about every object, so an undo that rebinds only the
touched ones arrives. Two entries in a row lead where the coalesced one does
(`CoalescedLinks`), which is where first-before, last-after matters; trimming shifts list
and line alike (`TrimShifts`, `TrimLinked`) and keeps the place as long as the cursor is
not among the entries trimmed.

### PreparedRing

That a finished prime has filled its window is a statement about a list of jobs half
done. `WindowInv` says what is still to come: the blocks of the window are in their
slots or among the jobs left to mix, no job left retires or overwrites a slot that has
been filled (`JobsInOrder`, `PrimedIsComing`), and the job under way has stored what it
no longer owes (`StoredSoFar`). Why no two blocks of a window share a slot is arithmetic,
proved once for indices of either sign: the window is shorter than the ring.

For the reads, the sequence number is what is left of the time at which the drain
began. `Inv` says that an odd number and an unfinished job are the same thing
(`OddIsWriting`), that a slot at rest holds one mix (`RestingIsWhole`) and, of a drain,
that for as long as the number it opened with stands every field it has loaded is the
slot's current one (`ReadIsSound`). A closing load that agrees therefore confirms a copy
of the slot as it is at that moment, which is also the moment the refinement of
`AtomicRing` takes for the read. With the loads unordered the copy may be completed
after the closing load, and `ReadIsSound` is what breaks.

### TileStore

A memoized name is right because the memo names the content of a slot, and wrong as
soon as the slot is written again. `Inv` adds to `MemoHonest` that the names of an
unfinished save are those of the tables it has pinned (`PassFaithful`, `NamesFaithful`).
Presence on disk is about who speaks for the memo: while a directory vouches for it, what
it knows is listed by a document there and on disk there (`MemoVouched`), so a name taken
from it is present if the save goes to that directory, and the collector, which has
marked what is listed, removes nothing of it (`CollectorCareful`). `EndPass` ends the
vouching, since the new memo may know names that no document lists; `WriteDocument` and
`Reopen` begin it again.

### KeyedStore

Inserting is detach, evict, put; each is a function from a store to a store. `Sound`
says of a store, as a value, that its bytes are the sum over its entries, its map and
its orphans partition them and recencies are distinct; a lemma per function shows that
it keeps `Sound`, and the actions are compositions. The eviction order is the one place
where a sum is compared and not only kept: a victim is an entry for which the bytes of
its predecessors do not suffice, so if anything unpinned stays, then what has gone was
enough (`CollectionTheorems`: a sum over a set splits, and grows with the set).

### WorkerPool

`IInv` places every task and every gate. A task is in at most one queue and at most once
(`QueuesSound`), or in the hands of one executor or of the driver that submits it
(`HandsSound`). A gate has at most one holder, which is a task of the ready queue or an
executor that has not yet passed it on, and before a stop a closed gate has one
(`HoldersSound`); the number of renders is that of executors inside one
(`RendersCounted`). `ClaimsSound` counts each owner's outstanding tasks by that placing,
which is what a drain waits to reach zero. `LedgerSound` bounds the two counters
from both sides, since an executor adds to them before it gives its claim back and the
thread a content settles on may add later: at quiescence the bounds meet.
`ReturnsSettled` and `WakesSound` carry the completions and the wakes. Without
`HoldersSound`, a purge could pass the gate to a task that is already running, and no
smaller invariant excludes it.

### Reclamation

`SlotsInv` takes `SlotsSound` apart into what a step can keep. A reference finds its
record (`RefsFound`; that the record is counted follows from `CountsExact`), and a slot
freed or destructed refers to nothing (`EdgesCut`), so that bump and release cut off
nobody. A dead slot is on one list, in one batch or in one push, and lists and batches
are disjoint (`DeadPlaced`). A list is a chain through the link column that any thread
may rewrite, so what keeps it together is who may: a push relinks only the slot in its
own hands, which is on no list (`ChainRelinked`), and what a thread has read of the
column is still there when it uses it (`ThreadSound`). `Acyclic` says that no list runs
into itself; without it, releasing the first slot of a batch might free one that the rest
of the batch still leads to.

`FlushesDrain` is about the fixpoint loop of `drain_and_quiesce`: why a round that found
both lists empty may stop although other threads go on pushing. Whatever a flush waits for
is `Stranded`: no client uses it, only what is pending with it refers to it, and following
the referrers comes to an end. A client can therefore no longer reach it, and only the
drain itself pushes it. `PassesNone` says that the drain does not go past it: what is bumped
is reclaimed, and at the second store of a round without progress the first list holds
none of it. If the second list is empty too, no pending slot is dead (`NonePassed`), and
since every set of pending slots has one that is dead or has its referrers outside the set,
none is pending. `OneDrain`
(the mutex is held exactly through a drain) and `GoesRound` (a round with a batch is not
the last) tie this to the threads: a tick is counted only behind a finished drain.

### CollectionTheorems

`Bytes` and the sums over claims are recursive functions over the subsets of a finite
set, and `Filter` is one over a length. No theorem of the library that takes a predicate
as a parameter is used: that such a function exists, and what it computes, is shown
from a least counterexample (`LeastNatural`, from the well-foundedness of `<`).
From it follow the lemmas the other modules cite: a sum loses or gains an element, splits,
moves with its indices, grows with its set (`SumRemove`, `SumAdd`, `SumSplit`, `SumShift`,
`SumGrows`, `SumOfParts`), and filtering keeps the order and exactly the elements wanted (`FilterKeeps`).

### Only model-checked

Out of the prover's reach: liveness under fairness and `ENABLED` (`QueuedRuns`,
`DrainReturns`, `ListedReclaimed`, `FlushReturns`, `Quiesces`, `SettlesQuiesce`), and
modules that reach a `RECURSIVE` operator (`Frames`, whose planning walk
follows the operator graph). `SavedTilesRight` and its companions are false for two
layers (`tiles_layers`). The safety properties of `Playback` (`WindowFresh`,
`CursorIsClock`, `PoolServes`) and `Loads` (`AnswersApplied`, `RequestsSound`) are not
proved: nothing stands against it but their size.

## 6. Plan

Proofs next: `Loads`, `RequestsSound`, then `Playback`, `WindowFresh` and `CursorIsClock`.

Models after that: the checkpoint cadence of housekeeping composed with the fence of
`Workspace`; the big-block pool; the plugin registry; pure operators against reference
definitions (the persistent map, the scale ladder, cycles of the operator graph).

## 7. Not modelled

Pixel, sample and colour arithmetic, JSON text, image decoding, the audio device, the
loading of shared objects and the development scripts: data or I/O without state the
properties above depend on. The mmap, ftruncate and file-lock system calls and their
failures before a document is open. Aprons, rung selection and the mapping of rectangles
through transforms, which `Frames` replaces by sets of cells. Offline and export rendering,
which are sequential drivers over parts modelled here. Parts that the plan still has ahead
are `not_modelled` in `PROJECT.json`.

How much of the code that is. Close to half of the lines of the repository are tests, which
are the reference and not the subject. Of the library itself the models follow the parts
with state that several threads, several calls or a crash can bring out of step (about a
fifth of its lines); the rest is declarations and their comments, arithmetic on pixels,
samples and rational time, the reading and writing of JSON, and drivers that call the
modelled parts in sequence.
