------------------------------ MODULE TileStore ------------------------------
(***************************************************************************)
(* Saving painted layers: the level-0 tiles of each raster layer go to     *)
(* disk as blobs named by the hash of their pixels in the storage format,  *)
(* the document only lists the names.  A memo from pool slots to names,    *)
(* kept from one save to the next, spares the tiles that were not painted; *)
(* it pins the slots it knows, because a released slot is handed out       *)
(* again.  Painting goes on while a save runs, workers encode, the sink,   *)
(* another content's codec or the host's write of the document may fail,   *)
(* and a collector removes the blobs that no document of a directory names.*)
(*                                                                         *)
(* A tile's pixels are one value.  The storage format and the size class,  *)
(* which are also part of the memo's key, are the same for all tiles here. *)
(***************************************************************************)
EXTENDS Naturals, Sequences, FiniteSets, SequencesExt, Containers

CONSTANTS
    Layers,        \* the raster layers, in the order they are serialized
    Tiles,         \* tiles of a layer, 1..Tiles
    Slots,         \* slots of each layer's BigBlockPool, 1..Slots
    Pixels, Blank, \* what a tile shows; Blank when nothing was painted
    Hash,          \* hash_tile of to_storage_bytes: pixels that round alike share it
    Decoded,       \* the pixels a blob decodes to
    Home,          \* the documents there may be, and the directory of each
    None,
    SweepsAlone,   \* does the host keep the collector and a save apart?
    MaxPaints, MaxSaves  \* bounds on the strokes and on the saves

LayerSet == Range(Layers)
Grid     == 1..Tiles
Pool     == 1..Slots
Names    == {Hash[p] : p \in Pixels}
Files    == DOMAIN Home
Dirs     == Range(Home)

\* The tiles of every layer, by name: what a document lists.
Document == [LayerSet -> [Grid -> Names]]
\* What is written to disk, with what was to be written, and whether a vouched
\* memo gave the names that were not hashed.
Saved    == [names : Document, meant : Document, sure : BOOLEAN]

ASSUME TileStoreAssumption ==
    /\ Layers \in Seq(LayerSet) /\ Layers # <<>>
    /\ Tiles \in Nat /\ Slots \in Nat /\ Tiles <= Slots
    /\ Blank \in Pixels
    /\ \A p \in Pixels : Decoded[Hash[p]] \in Pixels /\ Hash[Decoded[Hash[p]]] = Hash[p]
    /\ None \notin LayerSet \cup Dirs \cup Saved
    /\ SweepsAlone \in BOOLEAN
    /\ MaxPaints \in Nat /\ MaxSaves \in Nat

VARIABLES
    pool,      \* per layer, the pixels in each slot of its own pool
    table,     \* per layer, the slot of each tile: the base table
    undone,    \* per layer, the table of the version undo or redo goes to
    live,      \* the memo of the last completed pass: slot index -> pool and name
    pass,      \* the memo being built
    save,      \* the save under way, or None
    file,      \* the documents on disk, with the pixels that were to be saved
    blobs,     \* per directory, the names of the blobs on disk
    dead,      \* the directory under collection and what is left to remove, or None
    vouched,   \* history: the directory where a document lists what the memo knows, or None
    paints, saves

memo == <<live, pass>>
vars == <<pool, table, undone, memo, save, file, blobs, dead, vouched, paints, saves>>

Shows(l, t) == [i \in Grid |-> Hash[pool[l][t[i]]]]

\* The slots of a pool that something counts a reference on: the base table,
\* the other version, the table a save has pinned, and the memo.
Pinned(l) ==
    Range(table[l]) \cup Range(undone[l])
        \cup (IF save # None /\ save.layer = l THEN Range(save.table) ELSE {})
Memoized(l) ==
    {s \in DOMAIN live : live[s].pool = l} \cup {s \in DOMAIN pass : pass[s].pool = l}
\* Mutant: the memo keeps references and takes no count on them.
Held_NoMemo(l) == Pinned(l)

Held(l) == Pinned(l) \cup Memoized(l)

Init ==
    /\ pool = [l \in LayerSet |-> [s \in Pool |-> Blank]]
    /\ table = [l \in LayerSet |-> [i \in Grid |-> i]]  \* build: a slot for each tile
    /\ undone = table
    /\ live = <<>> /\ pass = <<>>
    /\ save = None
    /\ file = [f \in Files |-> None]
    /\ blobs = [d \in Dirs |-> {}] /\ dead = None
    /\ vouched = None
    /\ paints = 0 /\ saves = 0

-----------------------------------------------------------------------------
(* The editing thread.                                                     *)

\* paint: the touched tile is copied into a slot of its own, the others are
\* shared with the version before, which the journal keeps.
Paint(l, i, p) ==
    /\ paints < MaxPaints
    /\ \E s \in Pool \ Held(l) :
         /\ pool' = [pool EXCEPT ![l][s] = p]
         /\ table' = [table EXCEPT ![l][i] = s]
    /\ undone' = [undone EXCEPT ![l] = table[l]]
    /\ paints' = paints + 1
    /\ UNCHANGED <<memo, save, file, blobs, dead, vouched, saves>>

\* restore, for an undo or a redo.
Restore(l) ==
    /\ undone[l] # table[l]
    /\ paints < MaxPaints
    /\ table' = [table EXCEPT ![l] = undone[l]]
    /\ undone' = [undone EXCEPT ![l] = table[l]]
    /\ paints' = paints + 1
    /\ UNCHANGED <<pool, memo, save, file, blobs, dead, vouched, saves>>

-----------------------------------------------------------------------------
(* The save.                                                               *)

BeginSave(f) ==
    /\ save = None
    /\ saves < MaxSaves
    /\ SweepsAlone => dead = None
    /\ saves' = saves + 1
    /\ save' = [to |-> f, left |-> Layers, layer |-> None, table |-> <<>>, jobs |-> <<>>,
                out |-> <<>>, names |-> <<>>, meant |-> <<>>, sure |-> TRUE, failed |-> FALSE]
    /\ UNCHANGED <<pool, table, undone, memo, file, blobs, dead, vouched, paints>>

\* probe against the last pass (the pass being built starts empty).
Hits(t) == Range(t) \cap DOMAIN live

\* serialize_raster up to the encoding: the base table is pinned, hits are
\* carried into the new pass, and every other slot becomes one job.  No hit is
\* looked up on disk: the save is sure of its names if the memo is vouched there.
SerializeRaster ==
    /\ save # None /\ save.layer = None /\ save.left # <<>>
    /\ LET l == Head(save.left)
           t == table[l]
       IN  /\ pass' = Restrict(live, Hits(t))
           /\ save' = [save EXCEPT !.layer = l, !.left = Tail(@), !.table = t,
                                   !.jobs = SetToSeq(Range(t) \ Hits(t)), !.out = <<>>,
                                   !.meant = Put(@, l, Shows(l, t)),
                                   !.sure = @ /\ (Hits(t) = {} \/ vouched = Home[save.to])]
    /\ UNCHANGED <<pool, table, undone, live, file, blobs, dead, vouched, paints, saves>>

\* A worker hashes and frames one tile; it peeks at the slot with no count of its own.
EncodeTile(s) ==
    /\ save # None /\ s \in Range(save.jobs) \ DOMAIN save.out
    /\ save' = [save EXCEPT !.out = Put(@, s, Hash[pool[save.layer][s]])]
    /\ UNCHANGED <<pool, table, undone, memo, file, blobs, dead, vouched, paints, saves>>

\* The jobs are reaped in order on the saving thread.
Due == save # None /\ save.jobs # <<>> /\ Head(save.jobs) \in DOMAIN save.out

Stored(h) == [blobs EXCEPT ![Home[save.to]] = @ \cup {h}]

\* Mutant: a result is taken as it arrives and filed under the first open job.
Reap_ByArrival ==
    /\ save # None /\ save.jobs # <<>> /\ save.out # <<>>
    /\ \E h \in Range(save.out) :
         /\ pass' = Put(pass, Head(save.jobs), [pool |-> save.layer, name |-> h])
         /\ blobs' = Stored(h)
         /\ save' = [save EXCEPT !.jobs = Tail(@)]
    /\ UNCHANGED <<pool, table, undone, live, file, dead, vouched, paints, saves>>

\* record takes the memo's pin; the blob is put unless its name is there.
Reap ==
    /\ Due
    /\ LET s == Head(save.jobs)
           h == save.out[s]
       IN  /\ pass' = Put(pass, s, [pool |-> save.layer, name |-> h])
           /\ blobs' = Stored(h)
           /\ save' = [save EXCEPT !.jobs = Tail(@)]
    /\ UNCHANGED <<pool, table, undone, live, file, dead, vouched, paints, saves>>

\* The encoding failed, or the put does after the memo has the tile: the pass is
\* given up half built.  The writer latches the error and walks on to the other
\* layers.
ReapFails ==
    /\ Due
    /\ LET s == Head(save.jobs)
           h == save.out[s]
       IN  \/ UNCHANGED pass
           \/ /\ h \notin blobs[Home[save.to]]
              /\ pass' = Put(pass, s, [pool |-> save.layer, name |-> h])
    /\ save' = [save EXCEPT !.layer = None, !.table = <<>>, !.jobs = <<>>, !.out = <<>>,
                            !.failed = TRUE]
    /\ UNCHANGED <<pool, table, undone, live, file, blobs, dead, vouched, paints, saves>>

\* end_pass: the pass becomes the memo, before any document lists it, and the
\* layer's names go to the document.
EndPass ==
    /\ save # None /\ save.layer # None /\ save.jobs = <<>>
    /\ live' = pass
    /\ pass' = <<>>
    /\ vouched' = None
    /\ save' = [save EXCEPT !.layer = None, !.table = <<>>, !.out = <<>>,
                            !.names = Put(@, save.layer, [i \in Grid |-> pass[save.table[i]].name])]
    /\ UNCHANGED <<pool, table, undone, file, blobs, dead, paints, saves>>

\* The walk is over and the save fails, by an error latched on the way, of a
\* layer or of another content, or by the host's write of the text.  The memo
\* keeps what the passes that have ended left in it.
SaveFails ==
    /\ save # None /\ save.layer = None /\ save.left = <<>>
    /\ save' = None
    /\ UNCHANGED <<pool, table, undone, memo, file, blobs, dead, vouched, paints, saves>>

\* The host writes the text that save_document returned.
WriteDocument ==
    /\ save # None /\ save.layer = None /\ save.left = <<>> /\ ~save.failed
    /\ file' = [file EXCEPT ![save.to] = [names |-> save.names, meant |-> save.meant,
                                         sure |-> save.sure]]
    /\ vouched' = IF save.sure THEN Home[save.to] ELSE None
    /\ save' = None
    /\ UNCHANGED <<pool, table, undone, memo, blobs, dead, paints, saves>>

-----------------------------------------------------------------------------
(* The collector and the load.                                             *)

\* The names in a document, and in all the documents of a directory.
Named(names) == UNION {Range(names[l]) : l \in LayerSet}
Listed(d)    == UNION {Named(file[f].names) : f \in {g \in Files : Home[g] = d /\ file[g] # None}}

\* Mutant: the collector roots one document of the directory only.
GcMark_OneRoot(d) ==
    /\ dead = None
    /\ SweepsAlone => save = None
    /\ \E f \in Files : /\ Home[f] = d /\ file[f] # None
                        /\ dead' = [dir |-> d, names |-> blobs[d] \ Named(file[f].names)]
    /\ UNCHANGED <<pool, table, undone, memo, save, file, blobs, vouched, paints, saves>>

\* gc_project_directory: every document is read before anything is removed.
GcMark(d) ==
    /\ dead = None
    /\ SweepsAlone => save = None
    /\ dead' = [dir |-> d, names |-> blobs[d] \ Listed(d)]
    /\ UNCHANGED <<pool, table, undone, memo, save, file, blobs, vouched, paints, saves>>

GcRemove(h) ==
    /\ dead # None /\ h \in dead.names
    /\ dead' = [dead EXCEPT !.names = @ \ {h}]
    /\ blobs' = [blobs EXCEPT ![dead.dir] = @ \ {h}]
    /\ UNCHANGED <<pool, table, undone, memo, save, file, vouched, paints, saves>>

\* Done, or a removal failed.
GcEnd ==
    /\ dead # None
    /\ dead' = None
    /\ UNCHANGED <<pool, table, undone, memo, save, file, blobs, vouched, paints, saves>>

\* deserialize_raster seeds the memo, without replacing an entry.  Each fresh
\* pool hands out the slots 1..Tiles, so the first layer's seeds stand.
Seeded(names) ==
    LET l == Head(Layers) IN [i \in Grid |-> [pool |-> l, name |-> names[l][i]]]

\* The process ends, even inside a save, and a document is opened: fresh
\* pools, a slot for each tile, an empty memo.  A document without one of its
\* blobs is refused (UnresolvableReference).
Reopen(f) ==
    /\ file[f] # None /\ Named(file[f].names) \subseteq blobs[Home[f]]
    /\ SweepsAlone => dead = None
    /\ LET names == file[f].names
       IN  /\ pool' = [l \in LayerSet |->
                        [s \in Pool |-> IF s \in Grid THEN Decoded[names[l][s]] ELSE Blank]]
           /\ live' = Seeded(names)
    /\ table' = [l \in LayerSet |-> [i \in Grid |-> i]]
    /\ undone' = table'
    /\ pass' = <<>>
    /\ vouched' = Home[f]
    /\ save' = None
    /\ UNCHANGED <<file, blobs, dead, paints, saves>>

Next ==
    \/ \E l \in LayerSet : Restore(l) \/ \E i \in Grid, p \in Pixels : Paint(l, i, p)
    \/ \E f \in Files : BeginSave(f) \/ Reopen(f)
    \/ SerializeRaster
    \/ \E s \in Pool : EncodeTile(s)
    \/ Reap \/ ReapFails
    \/ EndPass \/ SaveFails \/ WriteDocument
    \/ \E d \in Dirs : GcMark(d)
    \/ GcEnd
    \/ \E h \in Names : GcRemove(h)

Spec == Init /\ [][Next]_vars

-----------------------------------------------------------------------------
(* Properties.                                                             *)

Memo(m) == DOMAIN m \subseteq Pool /\ \A s \in DOMAIN m : m[s] \in [pool : LayerSet, name : Names]

TypeOK ==
    /\ pool \in [LayerSet -> [Pool -> Pixels]]
    /\ table \in [LayerSet -> [Grid -> Pool]] /\ undone \in [LayerSet -> [Grid -> Pool]]
    /\ Memo(live) /\ Memo(pass)
    /\ save # None => /\ save.to \in Files
                      /\ save.layer \in LayerSet \cup {None}
                      /\ Range(save.jobs) \subseteq Pool /\ Range(save.out) \subseteq Names
                      /\ save.sure \in BOOLEAN /\ save.failed \in BOOLEAN
    /\ blobs \in [Dirs -> SUBSET Names]
    /\ dead # None => dead \in [dir : Dirs, names : SUBSET Names]
    /\ vouched \in Dirs \cup {None}
    /\ paints \in 0..MaxPaints /\ saves \in 0..MaxSaves

Written == {f \in Files : file[f] # None}

\* A document names, for each tile, the blob of the pixels the tile had when
\* the save reached its layer: not those of a tile that had the slot before,
\* nor those painted since, nor those of another layer.
SavedTilesRight == \A f \in Written : file[f].names = file[f].meant

\* Every blob that a document names is on disk, through saves that fail half-way,
\* saves that skip the tiles they know, collections and restarts.  The one
\* exception: its save took names from a memo nobody vouches for, left by a save
\* that failed after its pass or by one to another directory, or from a memo that
\* such a save had left.
SavedTilesPresent ==
    \A f \in Written : file[f].sure => Named(file[f].names) \subseteq blobs[Home[f]]

\* "the pin IS the proof that the bits behind the key are still the bits we
\* hashed": a memo entry's slot holds what its name says.
MemoHonest == \A s \in DOMAIN live : live[s].name = Hash[pool[live[s].pool][s]]

\* A save writes no blob for a tile the memo knows, so that blob has to be on
\* disk where the save goes.  It is in the directory of the last document written
\* or opened: a save that failed in its pass leaves no entry behind, and a
\* collection removes none of that document's.  After a save that failed past its
\* pass it may be nowhere.
MemoOnDisk == vouched # None => \A s \in DOMAIN live : live[s].name \in blobs[vouched]

\* The memo can be trusted: what it says of a slot is what the slot holds, and
\* where a document vouches for it the blob it names is on disk
\* (RasterTileStore::probe, record, end_pass).
MemoSound == TypeOK /\ MemoHonest /\ MemoOnDisk
=============================================================================
