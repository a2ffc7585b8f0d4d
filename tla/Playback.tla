------------------------------ MODULE Playback ------------------------------
(***************************************************************************)
(* Audio playback: the device callback, which drains prepared blocks and   *)
(* counts the frames it delivered; the owner thread of the device monitor, *)
(* which turns that count into the transport's clock and applies the       *)
(* host's seeks; the lookahead pump, which renders and mixes ahead of that *)
(* clock; and the audio worker pool, which runs the contents' renders.     *)
(* A render may fail, and a content may settle one later, from a thread of *)
(* its own.                                                                *)
(*                                                                         *)
(* Time is counted in output blocks, and a callback asks for one block.    *)
(* A slot of the ring is read and written at once: PreparedRing shows that *)
(* it looks so.  The composition has a nested content over a leaf, so that *)
(* a block is warmed from the bottom up.                                   *)
(***************************************************************************)
EXTENDS Integers, Sequences, FiniteSets, SequencesExt

CONSTANTS
    Depth,         \* blocks of the horizon past the playhead's own
    Capacity,      \* slots of the ring
    Targets,       \* the blocks the host seeks to and edits
    Rates,         \* the rates it sets, out of -1 and 1
    Workers,       \* the pool's threads
    Serial,        \* the contents rendered one at a time (render_thread_safe is false)
    Faulty,        \* the contents whose renders may fail, or be settled after their return
    PoolOutlives,  \* is the pool stopped only after the pump?
    None,
    MaxEvents,     \* bound on the host's calls and the renders that fail or come late
    MaxFrames      \* bound on the blocks the device asks for

ASSUME PlaybackAssumption ==
    /\ Depth \in Nat /\ Capacity \in Nat /\ Depth < Capacity
    /\ Targets \subseteq Int /\ Rates \subseteq {-1, 1}
    /\ MaxEvents \in Nat /\ MaxFrames \in Nat
    /\ Serial \cup Faulty \subseteq {"leaf", "nest"} /\ PoolOutlives \in BOOLEAN

VARIABLES
    host,      \* the edits not yet announced, the calls made, the camera
    version,   \* how often the content under each block has been edited
    transport, \* position and rate
    master,    \* the owner thread and its own state
    asked,     \* d_pending_seek, d_pending_rate
    shared,    \* d_published, d_direction, d_delivered, the realign index and request
    device,    \* the callback: where it is, and d_drain_index
    pump,      \* the pump's thread: where it is and what its tick took
    staged,    \* d_transport_changed, the pending damage and listener, d_poke, d_stop
    prepared,  \* the ring's slots
    cache,     \* the block cache
    tasks,     \* the audio renders of the fill under way
    pool,      \* d_ready, d_serial, who renders what, undrained settlements, d_stop
    away,      \* the renders that returned unsettled, with the sound they will have
    faults,    \* the renders that failed or came late, and the sounds that failed
    unheard,   \* history: has a render settled that nobody will tell the pump of?
    slip       \* history: has a callback overlapped a rebase of the clock?

vars == <<host, version, transport, master, asked, shared, device, pump, staged,
          prepared, cache, tasks, pool, away, faults, unheard, slip>>
hostVars == <<host, version>>
monitorVars == <<transport, master, asked, shared, device, slip>>
pumpVars == <<pump, staged, prepared, cache>>
settling == <<away, faults, unheard>>
poolVars == <<tasks, pool, settling>>

Span    == MaxFrames + Depth
Indices == UNION {(t - Span)..(t + Span) : t \in Targets \cup {0}}
Slots   == 0..Capacity - 1
SlotAt(i) == i % Capacity

\* horizon_blocks: the playhead's block and those ahead of it in the direction of play.
Window(p, dir) == [k \in 1..Depth + 1 |-> p + dir * (k - 1)]

Contents == {"leaf", "nest"}
Silent   == -1   \* the block of a render that failed

Init ==
    /\ host = [announce |-> {}, events |-> 0, camera |-> 0]
    /\ version = [i \in Indices |-> 0]
    /\ transport = [pos |-> 0, rate |-> 1]
    /\ master = [pc |-> "park", rebased |-> FALSE, last |-> 0, camera |-> 0]
    /\ asked = [seek |-> None, rate |-> None]
    /\ shared = [published |-> 0, dir |-> 1, delivered |-> 0, index |-> 0, request |-> FALSE]
    /\ device = [pc |-> "idle", cursor |-> 0]
    /\ pump = [pc |-> "park", playhead |-> None, dir |-> 1, listener |-> 0, ticked |-> FALSE]
    /\ staged = [changed |-> FALSE, damage |-> {}, listener |-> None, poke |-> FALSE, stop |-> FALSE]
    /\ prepared = [s \in Slots |-> None]
    /\ cache = {}
    /\ tasks = {}
    /\ pool = [ready |-> <<>>, parked |-> [c \in Contents |-> <<>>], active |-> {},
               run |-> [w \in Workers |-> None], news |-> FALSE, stop |-> FALSE]
    /\ away = {} /\ faults = [count |-> 0, of |-> {}] /\ unheard = FALSE
    /\ slip = FALSE

-----------------------------------------------------------------------------
(* The host.                                                               *)

Budget == host.events + faults.count < MaxEvents
Event  == Budget /\ ~staged.stop

\* DeviceMonitor::seek and set_rate leave the change for the owner thread.
Seek(t) ==
    /\ Event
    /\ asked' = [asked EXCEPT !.seek = t]
    /\ host' = [host EXCEPT !.events = @ + 1]
    /\ UNCHANGED <<version, transport, master, shared, device, pumpVars, poolVars, slip>>

SetRate(r) ==
    /\ Event
    /\ asked' = [asked EXCEPT !.rate = r]
    /\ host' = [host EXCEPT !.events = @ + 1]
    /\ UNCHANGED <<version, transport, master, shared, device, pumpVars, poolVars, slip>>

\* An edit to the sound under a block, and then its damage to the pump.
Edit(i) ==
    /\ Event
    /\ version' = [version EXCEPT ![i] = @ + 1]
    /\ host' = [host EXCEPT !.events = @ + 1, !.announce = @ \cup {i}]
    /\ UNCHANGED <<monitorVars, pumpVars, poolVars>>

NotifyDamage(i) ==
    /\ i \in host.announce
    /\ host' = [host EXCEPT !.announce = @ \ {i}]
    /\ staged' = [staged EXCEPT !.damage = @ \cup {i}, !.poke = TRUE]
    /\ UNCHANGED <<version, monitorVars, pump, prepared, cache, poolVars>>

MoveCamera ==
    /\ Event
    /\ host' = [host EXCEPT !.events = @ + 1, !.camera = @ + 1]
    /\ UNCHANGED <<version, monitorVars, pumpVars, poolVars>>

\* LookaheadPump::request_stop, and the pool's.  The monitor refers to the pump
\* and is destroyed before it: its two threads are gone by then.
StopPump ==
    /\ ~staged.stop
    /\ master.pc = "park" /\ device.pc = "idle"
    /\ staged' = [staged EXCEPT !.stop = TRUE]
    /\ UNCHANGED <<hostVars, monitorVars, pump, prepared, cache, poolVars>>

StopPool ==
    /\ ~pool.stop
    /\ \/ pump.pc = "gone" /\ UNCHANGED host
       \/ ~PoolOutlives /\ Budget /\ host' = [host EXCEPT !.events = @ + 1]
    /\ pool' = [pool EXCEPT !.stop = TRUE]
    /\ UNCHANGED <<version, monitorVars, pumpVars, tasks, settling>>

-----------------------------------------------------------------------------
(* The owner thread: run_master and master_step.                           *)

MasterStep(from, to) == master.pc = from /\ master' = [master EXCEPT !.pc = to]

\* Woken by a poke or by the period; takes what the host has asked for and
\* applies it: the origin of the clock moves to the frames delivered so far.
MasterTake ==
    /\ master.pc = "park"
    /\ transport' = [pos  |-> IF asked.seek # None THEN asked.seek ELSE transport.pos,
                     rate |-> IF asked.rate # None THEN asked.rate ELSE transport.rate]
    /\ shared' = [shared EXCEPT !.dir = IF asked.rate # None THEN asked.rate ELSE @]
    /\ master' = [master EXCEPT !.pc = "advance", !.rebased = asked.seek # None \/ asked.rate # None,
                                !.last = IF asked.seek # None THEN shared.delivered ELSE @]
    /\ asked' = [asked EXCEPT !.seek = None, !.rate = None]
    /\ UNCHANGED <<hostVars, device, pumpVars, poolVars, slip>>

\* The clock is the delivered count; the new position is published, and the
\* camera is sampled.
AfterCamera == IF master.rebased THEN "index" ELSE "change"

MasterAdvance ==
    /\ master.pc = "advance"
    /\ LET pos == transport.pos + transport.rate * (shared.delivered - master.last)
       IN  /\ transport' = [transport EXCEPT !.pos = pos]
           /\ shared' = [shared EXCEPT !.published = pos]
    /\ master' = [master EXCEPT !.last = shared.delivered, !.camera = host.camera,
                                !.pc = IF host.camera # master.camera THEN "camera"
                                       ELSE IF master.rebased THEN "index" ELSE "poke"]
    /\ slip' = (slip \/ (master.rebased /\ device.pc # "idle"))
    /\ UNCHANGED <<hostVars, asked, device, pumpVars, poolVars>>

\* A camera that moved re-seeds the listener.
MasterCamera ==
    /\ MasterStep("camera", AfterCamera)
    /\ staged' = [staged EXCEPT !.listener = master.camera, !.poke = TRUE]
    /\ UNCHANGED <<hostVars, transport, asked, shared, device, pump, prepared, cache, poolVars, slip>>

\* The block under the new position, and then the request to draw from it.
MasterIndex ==
    /\ MasterStep("index", "request")
    /\ shared' = [shared EXCEPT !.index = transport.pos]
    /\ UNCHANGED <<hostVars, transport, asked, device, pumpVars, poolVars, slip>>

MasterRequest ==
    /\ MasterStep("request", "change")
    /\ shared' = [shared EXCEPT !.request = TRUE]
    /\ UNCHANGED <<hostVars, transport, asked, device, pumpVars, poolVars, slip>>

\* notify_transport_change after a rebase or a new listener, else a poke.
MasterNotify ==
    /\ master.pc \in {"change", "poke"}
    /\ staged' = [staged EXCEPT !.poke = TRUE, !.changed = @ \/ master.pc = "change"]
    /\ master' = [master EXCEPT !.pc = "park", !.rebased = FALSE]
    /\ UNCHANGED <<hostVars, transport, asked, shared, device, pump, prepared, cache, poolVars, slip>>

Master == /\ ~staged.stop
          /\ \/ MasterTake \/ MasterAdvance \/ MasterCamera
             \/ MasterIndex \/ MasterRequest \/ MasterNotify

-----------------------------------------------------------------------------
(* The device callback: fill_rt for one block.                             *)

\* drain_block, whatever the slot holds: silence is played where the block is missing.
DrainBlock(cursor) == device' = [pc |-> "deliver", cursor |-> cursor + 1]

\* The request is consumed once; the index is loaded after it.
Callback ==
    /\ device.pc = "idle" /\ shared.delivered < MaxFrames
    /\ \/ shared.request /\ device' = [device EXCEPT !.pc = "align"]
       \/ ~shared.request /\ DrainBlock(device.cursor)
    /\ shared' = [shared EXCEPT !.request = FALSE]
    /\ slip' = (slip \/ (master.rebased /\ master.pc \in {"camera", "index", "request"}))
    /\ UNCHANGED <<hostVars, transport, master, asked, pumpVars, poolVars>>

\* Mutant: the request is consumed and the new index is not loaded.
Align_OldCursor ==
    /\ device.pc = "align"
    /\ DrainBlock(device.cursor)
    /\ UNCHANGED <<hostVars, transport, master, asked, shared, pumpVars, poolVars, slip>>

Align ==
    /\ device.pc = "align"
    /\ DrainBlock(shared.index)
    /\ UNCHANGED <<hostVars, transport, master, asked, shared, pumpVars, poolVars, slip>>

Deliver ==
    /\ device.pc = "deliver"
    /\ device' = [device EXCEPT !.pc = "idle"]
    /\ shared' = [shared EXCEPT !.delivered = @ + 1]
    /\ UNCHANGED <<hostVars, transport, master, asked, pumpVars, poolVars, slip>>

Device == ~staged.stop /\ (Callback \/ Align \/ Deliver)

-----------------------------------------------------------------------------
(* The pump: run, tick_once and fill_and_insert.                           *)

PumpStop ==
    /\ pump.pc = "park" /\ staged.stop
    /\ pump' = [pump EXCEPT !.pc = "gone"]
    /\ UNCHANGED <<hostVars, monitorVars, staged, prepared, cache, poolVars>>

\* A key is the content, the block and the listener's digest.
Entry(c, i, l) == {e \in cache : e.content = c /\ e.index = i /\ e.listener = l}

\* collect_wants: the nested content's block is wanted only once its leaf's is there.
Wants(C, is, l) ==
    LET missing(c, i) == ~\E e \in C : e.content = c /\ e.index = i /\ e.listener = l
    IN  {[content |-> "nest", index |-> i] : i \in {j \in is : missing("nest", j) /\ ~missing("leaf", j)}}
        \cup {[content |-> "leaf", index |-> i] : i \in {j \in is : missing("nest", j) /\ missing("leaf", j)}}

\* prime mixes every block of the window that is not prepared and whose
\* contributors are resident.
Mix(ring, C, is, l) ==
    LET sound(i) == {e \in C : e.content = "nest" /\ e.index = i /\ e.listener = l}
        new      == {i \in is : sound(i) # {} /\ (ring[SlotAt(i)] = None \/ ring[SlotAt(i)].index # i)}
    IN  [s \in Slots |-> IF \E i \in new : SlotAt(i) = s
                         THEN LET i == CHOOSE j \in new : SlotAt(j) = s
                              IN  [index |-> i, of |-> (CHOOSE e \in sound(i) : TRUE).of, listener |-> l]
                         ELSE ring[s]]

\* submit: to the ready queue, or behind the render of the same content that
\* is under way; a stopped pool drops the task.
Submit(w, p) ==
    IF p.stop THEN p
    ELSE IF w.content \in p.active
    THEN [p EXCEPT !.parked[w.content] = Append(@, w)]
    ELSE [p EXCEPT !.ready = Append(@, w), !.active = @ \cup ({w.content} \cap Serial)]

\* One round of a tick: prime, and submit what is missing or end the tick.
Round(ring, C, playhead, dir, l) ==
    LET is    == Range(Window(playhead, dir))
        wants == Wants(C, is, l)
    IN  /\ prepared' = Mix(ring, C, is, l)
        /\ cache' = C
        /\ pump' = [pc |-> IF wants = {} THEN "park" ELSE "check",
                    playhead |-> IF wants = {} THEN None ELSE playhead, dir |-> dir,
                    listener |-> l, ticked |-> pump.ticked \/ wants = {}]
        /\ tasks' = {[want |-> w, of |-> None] : w \in wants}
        /\ pool' = FoldSet(Submit, pool, wants)

\* Mutant: damage retires the ring's blocks and leaves the cached ones.
PumpTick_KeepsCache ==
    /\ pump.pc = "park" /\ ~staged.stop
    /\ LET is == Range(Window(shared.published, shared.dir))
           gone(i) == \/ staged.listener # None
                      \/ i \in staged.damage
                      \/ staged.changed /\ i \notin is
       IN  Round([s \in Slots |-> IF prepared[s] # None /\ gone(prepared[s].index)
                                  THEN None ELSE prepared[s]],
                 cache, shared.published, shared.dir,
                 IF staged.listener # None THEN staged.listener ELSE pump.listener)
    /\ staged' = [staged EXCEPT !.changed = FALSE, !.damage = {}, !.listener = None, !.poke = FALSE]
    /\ UNCHANGED <<hostVars, monitorVars, settling>>

\* Woken by a poke or the period: take the clock and what is staged.  A new
\* listener retires the whole ring, damage the blocks and the cached entries it
\* reaches, and a transport change the blocks out of the new window.
PumpTick ==
    /\ pump.pc = "park" /\ ~staged.stop
    /\ LET is == Range(Window(shared.published, shared.dir))
           gone(i) == \/ staged.listener # None
                      \/ i \in staged.damage
                      \/ staged.changed /\ i \notin is
       IN  Round([s \in Slots |-> IF prepared[s] # None /\ gone(prepared[s].index)
                                  THEN None ELSE prepared[s]],
                 {e \in cache : e.index \notin staged.damage},
                 shared.published, shared.dir,
                 IF staged.listener # None THEN staged.listener ELSE pump.listener)
    /\ staged' = [staged EXCEPT !.changed = FALSE, !.damage = {}, !.listener = None, !.poke = FALSE]
    /\ UNCHANGED <<hostVars, monitorVars, settling>>

\* Everything settled, or wait for news; with a stopped pool the wait returns at once.
PumpCheck ==
    /\ pump.pc = "check"
    /\ pump' = [pump EXCEPT !.pc = IF \A t \in tasks : t.of # None THEN "insert" ELSE "wait"]
    /\ unheard' = FALSE
    /\ UNCHANGED <<hostVars, monitorVars, staged, prepared, cache, tasks, pool, away, faults>>

PumpWait ==
    /\ pump.pc = "wait" /\ (pool.news \/ pool.stop)
    /\ pump' = [pump EXCEPT !.pc = "check"]
    /\ pool' = [pool EXCEPT !.news = FALSE]
    /\ UNCHANGED <<hostVars, monitorVars, staged, prepared, cache, tasks, settling>>

\* The rendered blocks enter the cache under their keys, one that failed as the
\* silence its buffer was filled with, and the tick goes another round; eight are
\* more than two levels of contents need.
PumpInsert ==
    /\ pump.pc = "insert"
    /\ Round(prepared,
             cache \cup {[content |-> t.want.content, index |-> t.want.index,
                         listener |-> pump.listener, of |-> t.of] : t \in tasks},
             pump.playhead, pump.dir, pump.listener)
    /\ UNCHANGED <<hostVars, monitorVars, staged, settling>>

Pump == PumpTick \/ PumpStop \/ PumpCheck \/ PumpWait \/ PumpInsert

-----------------------------------------------------------------------------
(* The pool's workers, and the contents' own threads.                      *)

\* A leaf sounds as it is edited now, a nested content as its leaf's block in
\* the cache does.
Sound(want) ==
    IF want.content = "leaf" THEN version[want.index]
    ELSE (CHOOSE e \in Entry("leaf", want.index, pump.listener) : TRUE).of

Settled(want, of) == tasks' = {IF t.want = want THEN [t EXCEPT !.of = of] ELSE t : t \in tasks}

\* A render that fails leaves a trace in the history.
Failed(F, want, of) ==
    [F EXCEPT !.of = @ \cup {[index |-> want.index, of |-> of, listener |-> pump.listener]}]

\* run_task: the worker takes a task, and by its return render_audio has settled
\* it, has failed it (as run_task does for a content without the audio facet), or
\* has left it to a thread of the content.
WorkerRender(w) ==
    /\ pool.run[w] = None /\ ~pool.stop /\ pool.ready # <<>>
    /\ LET want  == Head(pool.ready)
           of    == Sound(want)
           fault == [faults EXCEPT !.count = @ + 1]
           mayFault == want.content \in Faulty /\ Budget
       IN  /\ \/ Settled(want, of) /\ UNCHANGED <<away, faults>>
              \/ /\ mayFault /\ Settled(want, Silent)
                 /\ faults' = Failed(fault, want, of) /\ UNCHANGED away
              \/ /\ mayFault /\ away' = away \cup {[want |-> want, of |-> of]}
                 /\ faults' = fault /\ UNCHANGED tasks
           /\ pool' = [pool EXCEPT !.run[w] = want, !.ready = Tail(@)]
    /\ UNCHANGED <<hostVars, monitorVars, pumpVars, unheard>>

\* Is the task in the hands of a worker settled?
HasSettled(w) == ~\E r \in away : r.want = pool.run[w]

\* A content settles a render it had kept, or fails it.  It has the completion
\* and not the pool: the pump hears of it only if the worker has yet to look.
Settle(r) ==
    /\ away' = away \ {r}
    /\ \/ Settled(r.want, r.of) /\ UNCHANGED faults
       \/ Settled(r.want, Silent) /\ faults' = Failed(faults, r.want, r.of)
    /\ unheard' = (unheard \/ r.want \notin Range(pool.run))
    /\ UNCHANGED <<hostVars, monitorVars, pumpVars, pool>>

\* The release of the gate: the next parked task is due.
Release(p, c) ==
    IF c \in Serial /\ p.parked[c] # <<>>
    THEN [p EXCEPT !.ready = Append(@, Head(p.parked[c])), !.parked[c] = Tail(@)]
    ELSE [p EXCEPT !.active = @ \ {c}]

\* Mutant: a settled render pokes nobody.
WorkerDone_Quiet(w) ==
    /\ pool.run[w] # None
    /\ pool' = Release([pool EXCEPT !.run[w] = None], pool.run[w].content)
    /\ UNCHANGED <<hostVars, monitorVars, pumpVars, tasks, settling>>

\* The poke, if the task has settled by now, and the gate.
WorkerDone(w) ==
    /\ pool.run[w] # None
    /\ pool' = Release([pool EXCEPT !.run[w] = None, !.news = @ \/ HasSettled(w)],
                       pool.run[w].content)
    /\ UNCHANGED <<hostVars, monitorVars, pumpVars, tasks, settling>>

Worker(w) == WorkerRender(w) \/ WorkerDone(w)

-----------------------------------------------------------------------------
Next ==
    \/ \E t \in Targets : Seek(t)
    \/ \E r \in Rates : SetRate(r)
    \/ \E i \in Targets : Edit(i) \/ NotifyDamage(i)
    \/ MoveCamera
    \/ StopPump \/ StopPool
    \/ Master \/ Device \/ Pump
    \/ \E w \in Workers : Worker(w)
    \/ \E r \in away : Settle(r)

Spec == Init /\ [][Next]_vars

-----------------------------------------------------------------------------
(* Properties.                                                             *)

Sounds == [index : Indices, of : Nat \cup {Silent}, listener : Nat]

TypeOK ==
    /\ transport \in [pos : Indices, rate : {-1, 1}]
    /\ shared.published \in Indices /\ shared.index \in Indices
    /\ shared.dir \in {-1, 1} /\ shared.delivered \in 0..MaxFrames
    /\ device.cursor \in Int
    /\ prepared \in [Slots -> Sounds \cup {None}]
    /\ \A e \in cache : e.content \in Contents /\ e.index \in Indices /\ e.of \in Nat \cup {Silent}
    /\ \A t \in tasks : t.want.content \in Contents /\ (t.of = None \/ t.of \in Nat \cup {Silent})
    /\ {r.want : r \in away} \subseteq {t.want : t \in tasks}
    /\ Range(pool.ready) \subseteq {t.want : t \in tasks}
    /\ slip \in BOOLEAN

\* Nothing is on its way to the pump, and it has slept on what it knows.
Quiet == /\ host.announce = {} /\ host.camera = master.camera
         /\ asked.seek = None /\ asked.rate = None
         /\ master.pc = "park" /\ master.last = shared.delivered
         /\ pump.pc = "park" /\ pump.ticked /\ ~staged.poke

\* The block i of the ring, as the sound is now and for the listener where it is
\* now; silent only where a render of just that sound has failed.
FreshAt(i) ==
    LET now == [index |-> i, of |-> version[i], listener |-> host.camera]
    IN  \/ prepared[SlotAt(i)] = now
        \/ prepared[SlotAt(i)] = [now EXCEPT !.of = Silent] /\ now \in faults.of

\* When the pump sleeps with nothing left to tell it, every block ahead of the
\* clock is prepared, from the sound as it is now and for the listener where it
\* is now: no seek, edit or camera move was lost between two ticks or overtaken
\* by a render that was under way or settled late.  A block is silent only where
\* a render of the current sound failed; the failure of a render of an older
\* sound does not outlive the edit (LookaheadPump::fill_and_insert caches the
\* silence, LookaheadRing::invalidate drops it).
WindowFresh == Quiet => \A i \in Range(Window(shared.published, shared.dir)) : FreshAt(i)

\* At rest the device draws from the block the clock stands on, unless a
\* callback ran while the clock was being rebased: its block came from the old
\* cursor and is counted from the new origin (device_monitor.cpp, "so the drain
\* cursor starts aligned with the clock").
AtRest == /\ asked.seek = None /\ asked.rate = None /\ master.pc = "park"
          /\ device.pc = "idle" /\ ~shared.request /\ master.last = shared.delivered
CursorIsClock == AtRest /\ transport.rate = 1 /\ ~slip => device.cursor = transport.pos

\* A content that must not render twice at once does not, and no task of it is
\* left behind a gate that nobody holds.
GateHeld ==
    \A c \in Serial :
       LET held == {w \in Workers : pool.run[w] # None /\ pool.run[w].content = c}
           due  == {k \in DOMAIN pool.ready : pool.ready[k].content = c}
       IN  Cardinality(held) + Cardinality(due) = IF c \in pool.active THEN 1 ELSE 0

\* Every render the pump waits for is in somebody's hands: queued, behind the
\* gate of its content, with a worker or with its content.  Only a stopped pool
\* leaves one behind.
NoTaskLost ==
    \A t \in tasks :
       t.of = None =>
          \/ t.want \in Range(pool.ready) \cup Range(pool.parked[t.want.content])
          \/ t.want \in {r.want : r \in away}
          \/ pool.stop

\* The pump's wait has no timeout, so it must never be the last one awake:
\* somebody still renders, or will take a task from the queue, or has settled
\* one since the pump last looked.  What its content settles itself pokes nobody:
\* the wait is then excused while such a render is out, or came in unheard.
NoDeadWait ==
    pump.pc = "wait" /\ ~pool.news /\ ~pool.stop =>
       \/ \E w \in Workers : pool.run[w] # None
       \/ pool.ready # <<>>
       \/ away # {} \/ unheard

\* The audio pool serves the pump: its gates are held by who renders or is due
\* to, no render is lost between the queue, the gate, the workers and the
\* contents' own threads, and the pump does not sleep through the settlement of
\* the last one unless its content settled it alone (AudioWorkerPool::submit and
\* run, LookaheadPump's wait_completions).
PoolServes == TypeOK /\ GateHeld /\ NoTaskLost /\ NoDeadWait
=============================================================================
