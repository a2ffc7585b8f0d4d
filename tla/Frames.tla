------------------------------- MODULE Frames -------------------------------
(***************************************************************************)
(* Interactive rendering: HostViewport::step driving                       *)
(* InteractiveRenderer::render_frame, with the tile cache, the refinement  *)
(* queue, the pull service that operators read their inputs through, and   *)
(* the damage the writer flushes to the viewport.                          *)
(*                                                                         *)
(* One frame is four steps of the render thread: StepPin takes the         *)
(* published document, StepPlan drains the damage and plans, dispatches    *)
(* and composites, StepSweep ends the wait for the workers, StepPoll takes *)
(* the settled renders in.  Commits and workers interleave with them.      *)
(*                                                                         *)
(* Geometry is reduced to cells: a tile, a damage rectangle and the device *)
(* area of a view are sets of cells.  Pixels are reduced to the version of *)
(* each content that drew them.  The cache never evicts here (KeyedStore   *)
(* models eviction); its budget is assumed to hold the working set.        *)
(***************************************************************************)
EXTENDS Naturals, Sequences, FiniteSets, SequencesExt, FiniteSetsExt, Functions, TLC

CONSTANTS
    Contents,        \* every content of the document
    Layers,          \* the contents that are layers, bottom first
    Inputs,          \* Inputs[c]: the inputs of c, empty for a leaf
    IdentityOps,     \* operators that pass their first input through
    Timed,           \* leaves whose pixels change with time
    Cells,           \* the atoms of the plane
    Tiles,           \* tiles of every rung
    CellsOf,         \* CellsOf[t]: the cells of tile t
    Coarser,         \* Coarser[t]: the tile one octave up, or NoTile
    Views,           \* each view is the set of tiles of one rung it shows
    NoTile,
    Editable,        \* the <<leaf, cell>> pairs the writer edits
    ConcurrentWriter,\* commits may fall inside a step
    HonoursCancel,   \* a cancelled render may settle by failing
    MaxEvents        \* bound on commits, camera moves and clock ticks together

ASSUME FramesAssumption ==
    /\ Range(Layers) \subseteq Contents
    /\ Inputs \in [Contents -> Seq(Contents)]
    /\ \A c \in IdentityOps : c \in Contents /\ Len(Inputs[c]) = 1
    /\ CellsOf \in [Tiles -> SUBSET Cells]
    /\ Coarser \in [Tiles -> Tiles \cup {NoTile}] /\ NoTile \notin Tiles
    /\ Views \subseteq SUBSET Tiles
    /\ ConcurrentWriter \in BOOLEAN /\ HonoursCancel \in BOOLEAN

VARIABLES
    doc,       \* published document: per leaf its stamp and, per cell, the edit
               \* that drew it; per layer the version of its placement
    flushing,  \* damage of commits that are published and not yet flushed
    inbox,     \* the viewport's DamageAccumulator
    view, playhead,  \* what the host wants shown
    pc, pin,   \* the render thread's place in step(), and the document it took
    last,      \* what the last frame rendered: view and time, or NoFrame
    owed,      \* d_follow_up_owed
    carried,   \* d_carried_damage
    prior,     \* d_prior_stamps
    cache,     \* the tile cache: key -> [val, exact]
    tiles,     \* RefinementQueue::tiles
    waits,     \* RefinementQueue::waits: output key -> unmet input keys
    wanted,    \* d_wanted_tiles
    target,    \* the device surface, per layer and cell
    events

frame  == <<pc, pin, last, owed, carried, prior, wanted, target>>
queue  == <<cache, tiles, waits>>
world  == <<doc, flushing, view, playhead, events>>
vars   == <<frame, queue, world, inbox>>

NoTime   == 0
NoFrame  == [view |-> {}, time |-> NoTime]
NoRev    == <<>>
NoPin    == <<>>
Roots    == Range(Layers)
Leaves   == {c \in Contents : Inputs[c] = <<>>}
IsOp(c)  == Inputs[c] # <<>>

-----------------------------------------------------------------------------
(* The operator graph.                                                     *)

\* The contents that c reaches through inputs, c included.
Reach ==
    [c \in Contents |->
        LET step[n \in Nat] ==
                IF n = 0 THEN {c}
                ELSE step[n - 1] \cup UNION {Range(Inputs[x]) : x \in step[n - 1]}
        IN  step[Cardinality(Contents)]]

ReachedLeaves == [c \in Contents |-> Reach[c] \cap Leaves]

\* A content is not static when it, or an input it reaches, moves with time.
Moving == {c \in Contents : Reach[c] \cap Timed # {}}

\* Mutant: a layer's own edits do not reach its key.
Contribution_Unstamped(d, c) == 0

\* A layer's content is keyed by its own stamp.  A content that is only an
\* input has a synthesized id, which the document does not know: its
\* object_revision is 0 whatever was edited.
Contribution(d, c) == IF c \in Roots /\ c \in Leaves THEN d.leaf[c].stamp ELSE 0

\* The revision slot of a key.  The sum of mixed contributions is taken to
\* tell contributions apart.
AggregateRevision(d, c) == [x \in Reach[c] |-> Contribution(d, x)]

Key(d, c, t, now) ==
    [content |-> c, rev |-> AggregateRevision(d, c), tile |-> t,
     time |-> IF c \in Moving THEN now ELSE NoTime]

\* What c looks like at cell x: the edit that last drew each leaf below it.
Pixel(d, c, x, now) ==
    [of |-> [y \in ReachedLeaves[c] |-> d.leaf[y].at[x]],
     time |-> IF c \in Moving THEN now ELSE NoTime, sharp |-> TRUE]

Hole == [of |-> <<>>, time |-> NoTime, sharp |-> FALSE]

\* A pixel as layer l places it on the surface.
Placed(d, l, pixel) == [pixel |-> pixel, lay |-> d.lay[l]]

-----------------------------------------------------------------------------
(* Damage: a set of <<object, cells>>, one member for each object.  An     *)
(* object is <<"content", c>> or <<"layer", c>>, the layer that shows c.   *)

Content(c) == <<"content", c>>
Layer(c)   == <<"layer", c>>

DamageAdd(set, d) ==
    LET same == {e \in set : e[1] = d[1]}
    IN  (set \ same) \cup {<<d[1], d[2] \cup UNION {e[2] : e \in same}>>}

DamageAddAll(set, ds) == FoldSet(LAMBDA d, s : DamageAdd(s, d), set, ds)

\* The damage of each operator layer above the damaged content.
RouteOperatorDamage(d) ==
    {<<Content(o), d[2]>> : o \in {l \in Roots : /\ IsOp(l)
                                               /\ \E c \in Reach[l] \ {l} : d[1] = Content(c)}}

RouteDamage(ds) == DamageAddAll(ds, UNION {RouteOperatorDamage(d) : d \in ds})

CellsIn(v) == UNION {CellsOf[t] : t \in v}

MapDamageToDevice(ds, v) == UNION {d[2] : d \in {e \in ds : e[1][2] \in Roots}} \cap CellsIn(v)

ClockAdvanceDamage(from, to) ==
    IF from = to THEN {} ELSE {<<Content(l), Cells>> : l \in Roots \cap Moving}

InvalidateDamage(c, ds) ==
    LET hit(k) == \E d \in ds : d[1] = Content(k.content) /\ d[2] \cap CellsOf[k.tile] # {}
    IN  Restrict(c, {k \in DOMAIN c : ~hit(k)})

-----------------------------------------------------------------------------
(* The refinement queue.                                                   *)

\* Mutant: only the settled renders count as in flight.
TileInFlight_Settled(q, k) == \E i \in DOMAIN q : q[i].key = k /\ q[i].st = "ok"

TileInFlight(q, k) ==
    \E i \in DOMAIN q :
        /\ q[i].key = k
        /\ q[i].st = "ok" \/ (q[i].st = "busy" /\ ~q[i].cancelled)

InputPending(q, k) == \E i \in DOMAIN q : q[i].key = k

OperatorWaveUnmet(q, ws, k) ==
    IF k \in DOMAIN ws THEN {u \in ws[k] : InputPending(q, u)} ELSE {}

OperatorWavePending(q, ws, k) == OperatorWaveUnmet(q, ws, k) # {}

RecordOperatorWait(ws, k, unmet) == IF unmet = {} THEN ws ELSE (k :> unmet) @@ ws

TileWanted(ws, want, k) ==
    \/ k \in want
    \/ \E o \in DOMAIN ws \cap want : k \in ws[o]

-----------------------------------------------------------------------------
(* Planning a frame.  w is the state the frame's walk threads: the cache,  *)
(* the queue, the wanted set, the keys the pulls left unmet, in order.     *)

Hit(w, k) == k \in DOMAIN w.cache /\ w.cache[k].exact

Insert(w, k, val, exact) ==
    [w EXCEPT !.cache = (k :> [val |-> val, exact |-> exact]) @@ @]

\* worker_backed_dispatch of a leaf: the pool renders it, and may be done
\* before the caller looks (quick).
DispatchLeaf(w, k, quick, now) ==
    IF k.content \in quick
    THEN Insert(w, k, [x \in CellsOf[k.tile] |-> Pixel(doc, k.content, x, now)], TRUE)
    ELSE [w EXCEPT !.tiles = Append(@, [key |-> k, st |-> "busy", cancelled |-> FALSE,
                                        val |-> [x \in CellsOf[k.tile] |->
                                                   Pixel(doc, k.content, x, now)]])]

RECURSIVE Terminal(_)
Terminal(c) == IF c \in IdentityOps THEN Terminal(Inputs[c][1]) ELSE c

Blank(t) == [x \in CellsOf[t] |-> Hole]

\* An operator's picture of a cell, from the pictures of its inputs.
Compose(c, t, vals, now) ==
    [x \in CellsOf[t] |->
        IF \E i \in DOMAIN vals : vals[i][x] = Hole THEN Hole
        ELSE [of |-> [y \in ReachedLeaves[c] |->
                        LET i == CHOOSE i \in DOMAIN vals : y \in DOMAIN vals[i][x].of
                        IN  vals[i][x].of[y]],
              time |-> IF c \in Moving THEN now ELSE NoTime, sharp |-> TRUE]]

\* PullServiceImpl::pull: [w, settled, exact, val].
RECURSIVE Pull(_, _, _, _, _)

\* FadeContent::render over the pull service: every input pulled in order;
\* an unsettled pull leaves the picture blank and the result inexact.
Pulled(r, p) ==
    [w |-> p.w, exact |-> r.exact /\ p.settled /\ p.exact, vals |-> Append(r.vals, p.val)]

PullInputs(w, c, t, quick, now) ==
    FoldLeft(LAMBDA r, input : Pulled(r, Pull(r.w, input, t, quick, now)),
             [w |-> w, exact |-> TRUE, vals |-> <<>>], Inputs[c])

\* The operator's picture is cached, and its wait for what the pulls since
\* mark left unmet is recorded when the picture is inexact.
CacheOperator(k, mark, r, now) ==
    LET val == Compose(k.content, k.tile, r.vals, now)
        w1  == Insert(r.w, k, val, r.exact)
        new == Range(SubSeq(r.w.unmet, mark + 1, Len(r.w.unmet)))
    IN  [w |-> IF r.exact THEN w1
               ELSE [w1 EXCEPT !.waits = RecordOperatorWait(@, k, new)],
         settled |-> TRUE, exact |-> r.exact, val |-> val]

\* Render operator c inline.
RenderOperator(w, k, quick, now) ==
    CacheOperator(k, Len(w.unmet), PullInputs(w, k.content, k.tile, quick, now), now)

PullTile(w, k, quick, now) ==
    LET c   == k.content
        w0  == [w EXCEPT !.wanted = @ \cup {k}]
        async(v) == [w |-> v, settled |-> FALSE, exact |-> FALSE, val |-> Blank(k.tile)]
        unmet(v, ks) == [v EXCEPT !.unmet = @ \o SetToSeq(ks)]
    IN  IF Hit(w0, k)
        THEN [w |-> w0, settled |-> TRUE, exact |-> TRUE, val |-> w0.cache[k].val]
        ELSE IF TileInFlight(w0.tiles, k) THEN async(unmet(w0, {k}))
        ELSE IF OperatorWavePending(w0.tiles, w0.waits, k) /\ k \in DOMAIN w0.cache
        THEN async(unmet(w0, OperatorWaveUnmet(w0.tiles, w0.waits, k)))
        ELSE IF IsOp(c) THEN RenderOperator(w0, k, quick, now)
        ELSE LET w1 == DispatchLeaf(w0, k, quick, now)
             IN  IF c \in quick
                 THEN [w |-> w1, settled |-> TRUE, exact |-> TRUE, val |-> w1.cache[k].val]
                 ELSE async(unmet(w1, {k}))

Pull(w, input, t, quick, now) == PullTile(w, Key(pin, Terminal(input), t, now), quick, now)

\* plan_layer's choice for a tile that is not resident and exact.
Fallback(w, k) ==
    LET stale  == [k EXCEPT !.rev = prior[k.content]]
        coarse == [k EXCEPT !.tile = Coarser[k.tile]]
    IN  IF k \in DOMAIN w.cache THEN w.cache[k].val
        ELSE IF stale \in DOMAIN w.cache THEN w.cache[stale].val
        ELSE IF coarse \in DOMAIN w.cache
        THEN [x \in CellsOf[k.tile] |-> [w.cache[coarse].val[x] EXCEPT !.sharp = FALSE]]
        ELSE Blank(k.tile)

\* Mutant: the resident tile is looked up without its revision.
PlanTile_AnyRevision(w, l, t, quick, now) ==
    LET k    == Key(pin, l, t, now)
        same == {j \in DOMAIN w.cache : j.content = l /\ j.tile = t /\ j.time = k.time}
        r    == IF Hit(w, k) THEN w ELSE DispatchLeaf(w, k, quick, now)
    IN  [w |-> r, val |-> IF same # {} THEN w.cache[CHOOSE j \in same : \A i \in same : i.rev[l] >= j.rev[l]].val
                          ELSE Fallback(r, k)]

\* One planned tile: what is dispatched for it and what is composited.
PlanTile(w, l, t, quick, now) ==
    LET k    == Key(pin, l, t, now)
        miss == ~Hit(w, k)
        open == miss /\ ~TileInFlight(w.tiles, k) /\ ~OperatorWavePending(w.tiles, w.waits, k)
        old  == IF miss THEN Fallback(w, k) ELSE w.cache[k].val
        done(v, val) == [w |-> v, val |-> val]
    IN  IF ~open THEN done(w, old)
        ELSE IF Terminal(l) # l
        THEN LET p == Pull(w, l, t, quick, now)
             IN  done(p.w, IF p.settled
                           THEN [x \in CellsOf[t] |-> p.val[x]] ELSE old)
        ELSE IF IsOp(l)
        THEN LET r == RenderOperator([w EXCEPT !.unmet = <<>>], k, quick, now)
             IN  done(r.w, r.val)
        ELSE LET v == DispatchLeaf(w, k, quick, now)
             IN  done(v, IF l \in quick THEN v.cache[k].val ELSE old)

\* The layers' tiles that meet the repainted cells, bottom layer first.
Planned(repaint) ==
    LET row == SetToSeq({t \in view : CellsOf[t] \cap repaint # {}})
    IN  FlattenSeq([i \in DOMAIN Layers |-> [j \in DOMAIN row |-> <<Layers[i], row[j]>>]])

\* render_frame_interactive over the repainted cells.
PlanFrame(w, repaint, quick) ==
    FoldLeft(LAMBDA v, lt :
                LET r == PlanTile(v, lt[1], lt[2], quick, playhead)
                IN  [r.w EXCEPT !.out[lt[1]] =
                        [x \in Cells |-> IF x \in CellsOf[lt[2]] \cap repaint
                                         THEN Placed(pin, lt[1], r.val[x]) ELSE @[x]]],
             w, Planned(repaint))

-----------------------------------------------------------------------------
(* The render thread.                                                      *)

\* What makes step() issue a frame.
HostWork ==
    \/ last = NoFrame
    \/ inbox # {}
    \/ owed
    \/ view # last.view \/ playhead # last.time
    \/ tiles # <<>>

StepPin ==
    /\ pc = "idle"
    /\ ConcurrentWriter \/ flushing = {}
    /\ pin' = doc
    /\ pc' = "pinned"
    /\ UNCHANGED <<last, owed, carried, prior, wanted, target, queue, world, inbox>>

\* step() returns without a frame.
StepIdle ==
    /\ pc = "pinned"
    /\ ~HostWork
    /\ pc' = "idle"
    /\ pin' = NoPin
    /\ UNCHANGED <<last, owed, carried, prior, wanted, target, queue, world, inbox>>

FirstFrame     == last = NoFrame
MappingChanged == last # NoFrame /\ view # last.view
RoutedModel    == RouteDamage(inbox)
ClockDamage    == IF FirstFrame THEN {} ELSE ClockAdvanceDamage(last.time, playhead)
Dirty ==
    MapDamageToDevice(DamageAddAll(RoutedModel, carried), view)
        \cup MapDamageToDevice(ClockDamage, view)
StillFrame == ~FirstFrame /\ ~MappingChanged /\ Dirty = {} /\ tiles = <<>>

\* render_frame returns early: the damage was drained, nothing is invalidated.
StepStill ==
    /\ pc = "pinned"
    /\ HostWork /\ StillFrame
    /\ inbox' = {}
    /\ carried' = {}
    /\ owed' = FALSE
    /\ last' = [view |-> view, time |-> playhead]
    /\ pc' = "idle"
    /\ pin' = NoPin
    /\ UNCHANGED <<prior, wanted, target, queue, world>>

WholeFrame == FirstFrame \/ MappingChanged
Repaint    == IF WholeFrame THEN CellsIn(view) ELSE Dirty

\* What the walk starts from: the damaged tiles dropped from the cache, the
\* repainted cells cleared.
FrameStart ==
    [cache  |-> InvalidateDamage(cache, DamageAddAll(RoutedModel, ClockDamage)),
     tiles  |-> tiles,
     waits  |-> waits,
     wanted |-> {Key(pin, l, t, playhead) : l \in Roots, t \in view},
     unmet  |-> <<>>,
     out    |-> [l \in Roots |-> [x \in Cells |->
                   IF WholeFrame \/ x \in Repaint THEN Placed(pin, l, Hole) ELSE target[l][x]]]]

StepPlan ==
    /\ pc = "pinned"
    /\ HostWork /\ ~StillFrame
    /\ \E quick \in {{}, Leaves} : \E w \in {PlanFrame(FrameStart, Repaint, quick)} :
         /\ cache' = w.cache
         /\ tiles' = w.tiles
         /\ waits' = w.waits
         /\ wanted' = w.wanted
         /\ target' = w.out
    /\ prior' = IF Repaint = {} THEN prior ELSE [l \in Roots |-> AggregateRevision(pin, l)]
    /\ inbox' = {}
    /\ carried' = {}
    /\ pc' = "parked"
    /\ UNCHANGED <<pin, last, owed, world>>

Busy(e) == e.st = "busy"

\* The wait for the workers ends: everything settled, or the deadline came
\* and what the frame no longer wants is cancelled.
StepSweep ==
    /\ pc = "parked"
    /\ \/ /\ \A i \in DOMAIN tiles : ~Busy(tiles[i])
          /\ UNCHANGED tiles
       \/ /\ \E i \in DOMAIN tiles : Busy(tiles[i])
          /\ tiles' = [i \in DOMAIN tiles |->
                         IF Busy(tiles[i]) /\ ~TileWanted(waits, wanted, tiles[i].key)
                         THEN [tiles[i] EXCEPT !.cancelled = TRUE] ELSE tiles[i]]
    /\ pc' = "swept"
    /\ UNCHANGED <<pin, last, owed, carried, prior, wanted, target, cache, waits, world, inbox>>

\* The waits none of whose inputs is left in the queue are over.
PruneWaits(ws, q) == Restrict(ws, {k \in DOMAIN ws : \E u \in ws[k] : InputPending(q, u)})

\* Mutant: what landed after the frame was composited is not shown.
FollowUp_Never(routed) == FALSE

\* Another frame is owed when what landed is to be seen.
FollowUp(routed) == MapDamageToDevice(routed, view) # {}

\* Mutant: what has been taken in stays in the queue.
Retained_All(q) == q

\* What the poll leaves in the queue.
Retained(q) == SelectSeq(q, Busy)

\* poll_refinements, the routing of the arrivals, and the follow-up.
StepPoll ==
    /\ pc = "swept"
    /\ LET landed   == SelectSeq(tiles, LAMBDA e : e.st = "ok")
           retained == Retained(tiles)
           arrival  == {<<Content(landed[i].key.content), CellsOf[landed[i].key.tile]>> : i \in DOMAIN landed}
           routed   == RouteDamage(arrival)
       IN  /\ cache' = FoldLeft(LAMBDA c, e : (e.key :> [val |-> e.val, exact |-> TRUE]) @@ c,
                                cache, landed)
           /\ tiles' = retained
           /\ waits' = PruneWaits(waits, retained)
           /\ carried' = routed
           /\ owed' = FollowUp(routed)
    /\ last' = [view |-> view, time |-> playhead]
    /\ pc' = "idle"
    /\ pin' = NoPin /\ wanted' = {}
    /\ UNCHANGED <<prior, target, world, inbox>>

-----------------------------------------------------------------------------
(* Workers, the writer, the host.                                          *)

\* A worker reads the content's live state some time after the dispatch; a
\* content that honours cancellation may fail a cancelled render instead.
Outcomes(e) ==
    {[e EXCEPT !.st = "ok", !.val = v] :
        v \in {e.val, [x \in DOMAIN e.val |-> Pixel(doc, e.key.content, x, e.key.time)]}}
    \cup (IF e.cancelled /\ HonoursCancel THEN {[e EXCEPT !.st = "failed"]} ELSE {})

Settle ==
    /\ \E i \in DOMAIN tiles :
         /\ Busy(tiles[i])
         /\ \E e \in Outcomes(tiles[i]) : tiles' = [tiles EXCEPT ![i] = e]
    /\ UNCHANGED <<frame, cache, waits, world, inbox>>

\* Commit: publish, then flush the damage to the sink.
Commit(new, damage) ==
    /\ events < MaxEvents
    /\ ConcurrentWriter \/ pc = "idle"
    /\ flushing = {}
    /\ doc' = new
    /\ flushing' = {damage}
    /\ events' = events + 1
    /\ UNCHANGED <<frame, queue, inbox, view, playhead>>

EditContent(c, x) ==
    LET n == doc.leaf[c].stamp + 1
    IN  Commit([doc EXCEPT !.leaf[c].stamp = n, !.leaf[c].at[x] = n], <<Content(c), {x}>>)

EditLayer(l) == Commit([doc EXCEPT !.lay[l] = @ + 1], <<Layer(l), Cells>>)

Flush ==
    /\ flushing # {}
    /\ inbox' = DamageAddAll(inbox, flushing)
    /\ flushing' = {}
    /\ UNCHANGED <<frame, queue, doc, view, playhead, events>>

Move(v) ==
    /\ pc = "idle"
    /\ events < MaxEvents
    /\ v # view
    /\ view' = v
    /\ events' = events + 1
    /\ UNCHANGED <<frame, queue, inbox, doc, flushing, playhead>>

Tick ==
    /\ pc = "idle"
    /\ events < MaxEvents
    /\ playhead' = playhead + 1
    /\ events' = events + 1
    /\ UNCHANGED <<frame, queue, inbox, doc, flushing, view>>

-----------------------------------------------------------------------------

Init ==
    /\ doc = [leaf |-> [c \in Leaves |-> [stamp |-> 1, at |-> [x \in Cells |-> 1]]],
              lay  |-> [l \in Roots |-> 1]]
    /\ flushing = {} /\ inbox = {}
    /\ view \in Views
    /\ playhead = 1
    /\ pc = "idle" /\ pin = NoPin
    /\ last = NoFrame
    /\ owed = FALSE /\ carried = {}
    /\ prior = [l \in Roots |-> NoRev]
    /\ cache = <<>> /\ tiles = <<>> /\ waits = <<>>
    /\ wanted = {}
    /\ target = [l \in Roots |-> [x \in Cells |-> Placed(doc, l, Hole)]]
    /\ events = 0

Render == StepPin \/ StepIdle \/ StepStill \/ StepPlan \/ StepSweep \/ StepPoll

Next ==
    \/ Render
    \/ Settle
    \/ \E e \in Editable : EditContent(e[1], e[2])
    \/ \E l \in Roots : EditLayer(l)
    \/ Flush
    \/ \E v \in Views : Move(v)
    \/ Tick

Spec == Init /\ [][Next]_vars

\* The render thread keeps calling step() and finishes every step it is in
\* (a planned frame ends: the last conjunct is weak fairness of the three
\* ways out of "pinned"); workers settle what they were given; a commit
\* reaches the sink.
FairSpec ==
    /\ Spec
    /\ WF_vars(StepPin) /\ WF_vars(StepSweep) /\ WF_vars(StepPoll)
    /\ WF_vars(Settle) /\ WF_vars(Flush)
    /\ []<>(pc # "pinned")

-----------------------------------------------------------------------------
(* Properties.                                                             *)

TypeOK ==
    /\ pc \in {"idle", "pinned", "parked", "swept"}
    /\ view \in Views /\ playhead \in 1..(MaxEvents + 1)
    /\ owed \in BOOLEAN
    /\ \A k \in DOMAIN cache : cache[k].exact \in BOOLEAN /\ DOMAIN cache[k].val = CellsOf[k.tile]
    /\ \A i \in DOMAIN tiles :
         /\ tiles[i].st \in {"busy", "ok", "failed"}
         /\ tiles[i].cancelled \in BOOLEAN
         /\ tiles[i].key.content \in Leaves
    /\ \A d \in inbox \cup carried \cup flushing : d[1][2] \in Contents /\ d[2] \subseteq Cells
    /\ DOMAIN target = Roots

Quiet == ~HostWork

\* When step() has nothing left to do (no damage, no follow-up owed, nothing
\* in flight, the camera and the playhead where the last frame left them) the
\* surface shows every layer at every visible cell as the published document
\* has it, sharp and at the current time.
IdleIsCurrent ==
    (pc = "idle" /\ Quiet /\ flushing = {}) =>
        \A l \in Roots, x \in CellsIn(view) : target[l][x] = Placed(doc, l, Pixel(doc, l, x, playhead))

\* At most one render that nobody cancelled is in flight for a tile key.
OneRenderPerTile ==
    \A i, j \in DOMAIN tiles :
        (i # j /\ tiles[i].key = tiles[j].key) =>
            ~(Busy(tiles[i]) /\ Busy(tiles[j]) /\ ~tiles[i].cancelled /\ ~tiles[j].cancelled)

\* An exact tile under a key of the published document holds that document's
\* pixels once the damage has been drained: a cached tile is never stale.
ExactIsCurrent ==
    (pc = "idle" /\ inbox = {} /\ flushing = {}) =>
        \A k \in DOMAIN cache :
            (cache[k].exact /\ k.rev = AggregateRevision(doc, k.content)) =>
                \A x \in CellsOf[k.tile] :
                    cache[k].val[x] = Pixel(doc, k.content, x, k.time)

\* Between frames, a wait names an input that is still in the queue.
WaitsArePending ==
    pc = "idle" => \A k \in DOMAIN waits : \E u \in waits[k] : InputPending(tiles, u)

\* The refinement queue is sound: no tile is rendered twice at a time although
\* every frame plans it again, and no operator waits for inputs that are gone
\* (tile_in_flight, poll_refinements).
QueueSound == TypeOK /\ OneRenderPerTile /\ WaitsArePending


\* A layer never goes back to an older picture of a leaf at a cell and time.
NoRegress ==
    [][\A l \in Roots, x \in Cells :
         LET a == target[l][x].pixel  b == target'[l][x].pixel
         IN  \A y \in DOMAIN a.of \cap DOMAIN b.of : b.of[y] >= a.of[y]]_vars

\* Once edits, moves and the clock stop, the host runs out of frames to render.
Quiesces == <>[]Quiet

=============================================================================
