--------------------------- MODULE TileStoreProofs ---------------------------
(***************************************************************************)
(* Saving the tiles of one painted layer, for every number of tiles, slots,*)
(* pixels, documents, directories, strokes and saves, where the host keeps *)
(* the collector and a save apart: every document names the pixels it was  *)
(* meant to, every blob it names is on disk as far as its save could be    *)
(* sure of the memo, and the memo can be trusted as far as a document      *)
(* vouches for it.                                                         *)
(* With two layers the first of these fails (the run of two layers), so    *)
(* the theorems are about one.                                             *)
(***************************************************************************)
EXTENDS TileStore, FiniteSetTheorems, SequenceTheorems, TLAPS

(***************************************************************************)
(* The inductive invariant, in parts.                                      *)
(***************************************************************************)
\* The three stages of a save: before the layer, in it, and after it, if it has not failed.
Ahead == save # None /\ save.layer = None /\ save.left # <<>>
Under == save # None /\ save.layer # None
Done  == save # None /\ save.layer = None /\ save.left = <<>> /\ ~save.failed

SaveShape ==
    save # None =>
        /\ save = [to |-> save.to, left |-> save.left, layer |-> save.layer, table |-> save.table,
                   jobs |-> save.jobs, out |-> save.out, names |-> save.names, meant |-> save.meant,
                   sure |-> save.sure, failed |-> save.failed]
        /\ save.left \in {Layers, <<>>}
        /\ save.jobs \in Seq(Pool)
        /\ save.layer # None => save.left = <<>> /\ save.names = <<>>
        /\ save.layer = None => save.jobs = <<>> /\ save.out = <<>>
        /\ save.left # <<>> => save.names = <<>> /\ save.meant = <<>>
        /\ save.left # <<>> \/ save.layer # None => ~save.failed

\* The layer being saved: its pinned table still shows what is meant, what the
\* workers hashed and what the new pass recorded are hashes of the pixels in
\* the slots, and each slot of the table is recorded, on disk, or has its job.
PassFaithful ==
    Under =>
        /\ save.table \in [Grid -> Pool]
        /\ save.meant = [l \in LayerSet |-> Shows(l, save.table)]
        /\ Range(save.jobs) \subseteq Range(save.table)
        /\ \A s \in DOMAIN save.out : s \in Range(save.table) /\ save.out[s] = Hash[pool[save.layer][s]]
        /\ DOMAIN pass \subseteq Range(save.table)
        /\ Range(save.table) \subseteq DOMAIN pass \cup Range(save.jobs)
        /\ \A s \in DOMAIN pass : /\ pass[s].pool = save.layer
                                  /\ pass[s].name = Hash[pool[save.layer][s]]
                                  /\ save.sure => pass[s].name \in blobs[Home[save.to]]

\* The names that go to the document are those meant, on disk where the save is
\* sure of them, and the memo knows no others; no document vouches for it yet.
NamesFaithful ==
    Done => /\ save.names \in Document /\ save.names = save.meant
            /\ save.sure => Named(save.names) \subseteq blobs[Home[save.to]]
            /\ \A s \in DOMAIN live : live[s].name \in Named(save.names)
            /\ vouched = None

\* A directory that vouches for the memo lists and holds what the memo knows.
MemoVouched ==
    \A d \in Dirs : vouched = d =>
        \A s \in DOMAIN live : live[s].name \in Listed(d) /\ live[s].name \in blobs[d]

FileType == file \in [Files -> Saved \cup {None}]

\* The collector removes nothing a document names, and nothing is saved meanwhile.
CollectorCareful ==
    dead # None => /\ save = None
                   /\ \A d \in Dirs : dead.dir = d => dead.names \cap Listed(d) = {}

Inv ==
    /\ TypeOK /\ SaveShape /\ FileType
    /\ MemoHonest /\ MemoVouched
    /\ PassFaithful /\ NamesFaithful
    /\ SavedTilesRight /\ SavedTilesPresent /\ CollectorCareful

-----------------------------------------------------------------------------
(* Facts about the constants and the operators.                            *)

\* The only layer of a document with one.
LEMMA OneLayer ==
  ASSUME Len(Layers) = 1
  PROVE  /\ LayerSet = {Head(Layers)} /\ Layers # <<>> /\ Tail(Layers) = <<>>
         /\ Head(Layers) # None
<1>1. Layers \in Seq(LayerSet)
  BY TileStoreAssumption
<1>2. DOMAIN Layers = {1} /\ Head(Layers) = Layers[1] /\ Tail(Layers) = <<>>
  <2>1. DOMAIN Layers = 1..1 /\ Head(Layers) = Layers[1]
    BY <1>1
  <2>2. Tail(Layers) \in Seq(LayerSet) /\ Len(Tail(Layers)) = 0
    BY <1>1, TileStoreAssumption, HeadTailProperties
  <2>3. Tail(Layers) = <<>>
    BY <2>2, EmptySeq
  <2> QED
    BY <2>1, <2>3
<1>3. LayerSet = {Head(Layers)}
  BY <1>2 DEF LayerSet, Range
<1> QED
  BY <1>2, <1>3, TileStoreAssumption

\* Pixels have a name, and a blob decodes to pixels of that name.
LEMMA NameFacts ==
  /\ \A p \in Pixels : Hash[p] \in Names
  /\ \A h \in Names : Decoded[h] \in Pixels /\ Hash[Decoded[h]] = h
  BY TileStoreAssumption DEF Names

\* Every document has its directory, and none of these is None.
LEMMA HomeFacts ==
  /\ \A f \in Files : Home[f] \in Dirs
  /\ None \notin Dirs
  BY TileStoreAssumption DEF Files, Dirs, Range

LEMMA GridInPool == Grid \subseteq Pool
  BY TileStoreAssumption DEF Grid, Pool

\* Every slot that needs encoding gets one job.
LEMMA SetToSeqRange ==
  ASSUME NEW S \in SUBSET Pool
  PROVE  SetToSeq(S) \in Seq(Pool) /\ Range(SetToSeq(S)) = S
<1> DEFINE n == Cardinality(S)
           q == SetToSeq(S)
<1>1. IsFiniteSet(S)
  <2>1. IsFiniteSet(Pool)
    BY FS_Interval, TileStoreAssumption, 1 \in Int, Slots \in Int DEF Pool
  <2> QED
    BY <2>1, FS_Subset
<1>2. n \in Nat /\ q \in [1..n -> S] /\ IsInjective(q)
  <2>1. PICK f : f \in Bijection(1..n, S)
    BY <1>1, FS_CardinalityType DEF ExistsBijection
  <2>2. f \in [1..n -> S] /\ IsInjective(f)
    BY <2>1 DEF Bijection, Injection
  <2> QED
    BY <1>1, <2>2, FS_CardinalityType DEF SetToSeq
<1> HIDE DEF q
<1>3. q \in Surjection(1..n, S)
  <2>1. q \in Injection(1..n, S)
    BY <1>2 DEF Injection
  <2>2. 1 \in Int /\ n \in Int /\ (IF 1 > n THEN 0 ELSE n - 1 + 1) = n
    BY <1>2
  <2>3. IsFiniteSet(1..n) /\ Cardinality(1..n) = n
    BY <2>2, FS_Interval
  <2> HIDE DEF n
  <2>4. Cardinality(1..n) = Cardinality(S)
    BY <2>3 DEF n
  <2> QED
    BY <1>1, <2>1, <2>4, FS_Injection
<1>4. Range(q) = S
  BY <1>2, <1>3 DEF Surjection, Range
<1>5. q \in Seq(Pool)
  BY <1>2
<1> QED
  BY <1>4, <1>5 DEF q

\* The job that is reaped and the jobs that remain.
LEMMA JobsAfter ==
  ASSUME NEW q \in Seq(Pool), q # <<>>
  PROVE  Tail(q) \in Seq(Pool) /\ Range(q) = {Head(q)} \cup Range(Tail(q)) /\ Head(q) \in Pool
<1>1. /\ Len(q) \in Nat \ {0} /\ DOMAIN q = 1..Len(q) /\ Head(q) = q[1]
      /\ Tail(q) \in Seq(Pool) /\ DOMAIN Tail(q) = 1..(Len(q) - 1)
      /\ \A k \in 1..(Len(q) - 1) : Tail(q)[k] = q[k + 1]
  OBVIOUS
<1>2. \A k \in 1..Len(q) : q[k] = Head(q) \/ (k - 1 \in 1..(Len(q) - 1) /\ Tail(q)[k - 1] = q[k])
  BY <1>1
<1>3. \A k \in 1..(Len(q) - 1) : k + 1 \in 1..Len(q)
  BY <1>1
<1>4. 1 \in DOMAIN q
  BY <1>1
<1>5. Range(q) \subseteq {Head(q)} \cup Range(Tail(q))
  <2> SUFFICES ASSUME NEW k \in 1..Len(q) PROVE q[k] \in {Head(q)} \cup {Tail(q)[j] : j \in DOMAIN Tail(q)}
    BY <1>1 DEF Range
  <2> QED
    BY <1>1, <1>2
<1>6. {Head(q)} \cup Range(Tail(q)) \subseteq Range(q)
  BY <1>1, <1>3, <1>4 DEF Range
<1> QED
  BY <1>1, <1>4, <1>5, <1>6

\* Nothing is in the range of the empty sequence.
LEMMA EmptyRange == Range(<<>>) = {} /\ DOMAIN <<>> = {}
  BY DEF Range

LEMMA PutFacts ==
  ASSUME NEW m, NEW k, NEW v
  PROVE  /\ DOMAIN Put(m, k, v) = DOMAIN m \cup {k} /\ Put(m, k, v)[k] = v
         /\ \A x \in DOMAIN m : x # k => Put(m, k, v)[x] = m[x]
  BY DEF Put

\* What only the documents decide.
LEMMA ListedStays == UNCHANGED file => \A d \in Dirs : Listed(d)' = Listed(d)
  BY DEF Listed

\* What a document on disk names is listed.
LEMMA ListedNames ==
  \A f \in Files : file[f] # None => Named(file[f].names) \subseteq Listed(Home[f])
  BY DEF Listed

-----------------------------------------------------------------------------
(* Each step keeps the invariant.                                          *)

\* A stroke takes a slot that nothing holds, so no pixels that the table being
\* saved or the memo refers to change.
LEMMA PaintKeeps ==
  ASSUME Len(Layers) = 1, Inv, NEW l \in LayerSet, NEW i \in Grid, NEW p \in Pixels, Paint(l, i, p)
  PROVE  Inv'
<1> USE DEF Inv
<1>1. PICK s \in Pool \ Held(l) : pool' = [pool EXCEPT ![l][s] = p] /\ table' = [table EXCEPT ![l][i] = s]
  BY DEF Paint
<1>2. /\ undone' = [undone EXCEPT ![l] = table[l]] /\ paints' = paints + 1 /\ paints < MaxPaints
      /\ UNCHANGED <<live, pass, save, file, blobs, dead, vouched, saves>>
  BY DEF Paint, memo
<1>3. LayerSet = {l} /\ l # None
  BY OneLayer, TileStoreAssumption
<1>4. \A r \in Held(l) : pool'[l][r] = pool[l][r]
  <2> SUFFICES ASSUME NEW r \in Held(l) PROVE pool'[l][r] = pool[l][r]
    OBVIOUS
  <2>1. pool \in [LayerSet -> [Pool -> Pixels]] /\ r # s
    BY <1>1 DEF TypeOK
  <2> QED
    BY <1>1, <2>1
<1>5. TypeOK'
  <2>1. pool' \in [LayerSet -> [Pool -> Pixels]]
    BY <1>1 DEF TypeOK
  <2>2. table' \in [LayerSet -> [Grid -> Pool]] /\ undone' \in [LayerSet -> [Grid -> Pool]]
    BY <1>1, <1>2 DEF TypeOK
  <2>3. paints' \in 0..MaxPaints
    BY <1>2, TileStoreAssumption DEF TypeOK
  <2> QED
    BY <1>2, <2>1, <2>2, <2>3 DEF TypeOK, Memo
<1>6. SaveShape' /\ FileType' /\ SavedTilesRight' /\ SavedTilesPresent' /\ CollectorCareful' /\ MemoVouched'
  BY <1>2, ListedStays
     DEF SaveShape, FileType, SavedTilesRight, Written, SavedTilesPresent, CollectorCareful, MemoVouched, Done
<1>7. NamesFaithful'
  BY <1>2 DEF NamesFaithful, Done, Named
<1>8. MemoHonest'
  <2>1. \A r \in DOMAIN live : live[r].pool = l /\ r \in Held(l)
    BY <1>3 DEF TypeOK, Memo, Held, Memoized
  <2> QED
    BY <1>2, <1>4, <2>1 DEF MemoHonest
<1>9. PassFaithful'
  <2> SUFFICES ASSUME Under PROVE PassFaithful'
    BY <1>2 DEF PassFaithful, Under
  <2>1. save.layer = l /\ save.table \in [Grid -> Pool]
    BY <1>3 DEF Under, TypeOK, PassFaithful
  <2>2. Range(save.table) \subseteq Held(l)
    BY <2>1 DEF Held, Pinned, Under
  <2>3. \A k \in Grid : save.table[k] \in Held(l)
    BY <2>1, <2>2 DEF Range
  <2>4. Shows(l, save.table)' = Shows(l, save.table)
    BY <1>2, <1>4, <2>3 DEF Shows
  <2>5. \A m \in LayerSet : Shows(m, save.table)' = Shows(m, save.table)
    BY <1>3, <2>4
  <2>6. \A r \in DOMAIN save.out \cup DOMAIN pass : pool'[l][r] = pool[l][r]
    BY <1>4, <2>2 DEF PassFaithful
  <2> QED
    BY <1>2, <2>1, <2>5, <2>6 DEF PassFaithful, Under
<1> QED
  BY <1>5, <1>6, <1>7, <1>8, <1>9

\* An undo or a redo swaps the tables.
LEMMA RestoreKeeps ==
  ASSUME Inv, NEW l \in LayerSet, Restore(l)
  PROVE  Inv'
<1> USE DEF Inv
<1>1. /\ table' = [table EXCEPT ![l] = undone[l]] /\ undone' = [undone EXCEPT ![l] = table[l]]
      /\ paints' = paints + 1 /\ paints < MaxPaints
      /\ UNCHANGED <<pool, live, pass, save, file, blobs, dead, vouched, saves>>
  BY DEF Restore, memo
<1>2. TypeOK'
  <2>1. table' \in [LayerSet -> [Grid -> Pool]] /\ undone' \in [LayerSet -> [Grid -> Pool]]
    BY <1>1 DEF TypeOK
  <2>2. paints' \in 0..MaxPaints
    BY <1>1, TileStoreAssumption DEF TypeOK
  <2> QED
    BY <1>1, <2>1, <2>2 DEF TypeOK, Memo
<1>3. PassFaithful' /\ NamesFaithful'
  BY <1>1 DEF PassFaithful, NamesFaithful, Under, Done, Named, Shows
<1> QED
  BY <1>1, <1>2, <1>3, ListedStays
     DEF SaveShape, FileType, SavedTilesRight, Written, SavedTilesPresent, CollectorCareful, MemoVouched, Done,
         MemoHonest

LEMMA BeginSaveKeeps ==
  ASSUME SweepsAlone, Inv, NEW f \in Files, BeginSave(f)
  PROVE  Inv'
<1> USE DEF Inv
<1>1. /\ save = None /\ dead = None /\ saves' = saves + 1 /\ saves < MaxSaves
      /\ save' = [to |-> f, left |-> Layers, layer |-> None, table |-> <<>>, jobs |-> <<>>,
                  out |-> <<>>, names |-> <<>>, meant |-> <<>>, sure |-> TRUE, failed |-> FALSE]
      /\ UNCHANGED <<pool, table, undone, live, pass, file, blobs, dead, vouched, paints>>
  BY DEF BeginSave, memo
<1>2. /\ save'.to = f /\ save'.left = Layers /\ save'.layer = None /\ save'.jobs = <<>>
      /\ save'.out = <<>> /\ save'.names = <<>> /\ save'.meant = <<>> /\ save'.sure = TRUE /\ save'.failed = FALSE
      /\ Layers # <<>>
  BY <1>1, TileStoreAssumption
<1>3. ~Under' /\ ~Done' /\ ~Done
  BY <1>1, <1>2 DEF Under, Done
<1>4. TypeOK'
  <2>1. saves' \in 0..MaxSaves
    BY <1>1, TileStoreAssumption DEF TypeOK
  <2> QED
    BY <1>1, <1>2, <2>1, EmptyRange DEF TypeOK, Memo
<1>5. SaveShape'
  <2>1. <<>> \in Seq(Pool)
    OBVIOUS
  <2> QED
    BY <1>1, <1>2, <2>1 DEF SaveShape
<1> QED
  BY <1>1, <1>3, <1>4, <1>5, ListedStays
     DEF FileType, SavedTilesRight, Written, SavedTilesPresent, CollectorCareful, MemoVouched, MemoHonest,
         PassFaithful, NamesFaithful

\* The pass starts with what the memo knows of the pinned table; the rest are jobs.
LEMMA SerializeKeeps ==
  ASSUME Len(Layers) = 1, Inv, SerializeRaster
  PROVE  Inv'
<1> USE DEF Inv
<1> DEFINE l == Head(Layers)
           t == table[l]
           hits == Hits(t)
<1>1. LayerSet = {l} /\ l # None /\ Tail(Layers) = <<>>
  BY OneLayer
<1>2. /\ save # None /\ save.layer = None /\ save.left = Layers /\ save.names = <<>> /\ save.meant = <<>>
      /\ Ahead /\ ~Done /\ ~save.failed
  BY DEF SerializeRaster, SaveShape, Ahead, Done
<1>3. /\ pass' = Restrict(live, hits)
      /\ save' = [save EXCEPT !.layer = l, !.left = Tail(@), !.table = t,
                              !.jobs = SetToSeq(Range(t) \ hits), !.out = <<>>,
                              !.meant = Put(@, l, Shows(l, t)),
                              !.sure = @ /\ (hits = {} \/ vouched = Home[save.to])]
      /\ UNCHANGED <<pool, table, undone, live, file, blobs, dead, vouched, paints, saves>>
  BY <1>2 DEF SerializeRaster
<1>4. t \in [Grid -> Pool] /\ Range(t) \subseteq Pool
  BY <1>1 DEF TypeOK, Range
<1>5. /\ SetToSeq(Range(t) \ hits) \in Seq(Pool)
      /\ Range(SetToSeq(Range(t) \ hits)) = Range(t) \ hits
  BY <1>4, SetToSeqRange
<1>6. /\ DOMAIN pass' = hits /\ hits \subseteq DOMAIN live /\ hits \subseteq Range(t)
      /\ \A s \in hits : pass'[s] = live[s]
  BY <1>3 DEF Restrict, Hits
<1>7. Put(<<>>, l, Shows(l, t)) = [m \in LayerSet |-> Shows(m, t)]
  BY <1>1, EmptyRange DEF Put
<1> HIDE DEF hits, t, l
<1>8. /\ save'.to = save.to /\ save'.left = <<>> /\ save'.layer = l /\ save'.table = t
      /\ save'.jobs = SetToSeq(Range(t) \ hits) /\ save'.out = <<>> /\ save'.names = <<>>
      /\ save'.meant = [m \in LayerSet |-> Shows(m, t)]
      /\ save'.sure = (save.sure /\ (hits = {} \/ vouched = Home[save.to])) /\ save'.failed = save.failed
      /\ save' = [to |-> save'.to, left |-> save'.left, layer |-> save'.layer, table |-> save'.table,
                  jobs |-> save'.jobs, out |-> save'.out, names |-> save'.names, meant |-> save'.meant,
                  sure |-> save'.sure, failed |-> save'.failed]
  BY <1>1, <1>2, <1>3, <1>7 DEF SaveShape
<1>9. SaveShape'
  BY <1>1, <1>2, <1>5, <1>8 DEF SaveShape
<1>10. TypeOK'
  <2>1. Memo(pass)'
    BY <1>3, <1>6 DEF TypeOK, Memo
  <2>2. l \in LayerSet /\ Range(save'.jobs) \subseteq Pool /\ Range(save'.out) = {}
    BY <1>1, <1>4, <1>5, <1>8, EmptyRange
  <2> QED
    BY <1>2, <1>3, <1>8, <2>1, <2>2 DEF TypeOK, Memo
<1>11. PassFaithful'
  <2>1. [m \in LayerSet |-> Shows(m, t)] = [m \in LayerSet |-> Shows(m, save.table)]'
    BY <1>3, <1>8 DEF Shows
  <2>2. \A s \in hits : live[s].pool = l /\ live[s].name = Hash[pool[l][s]]
    BY <1>1, <1>6 DEF TypeOK, Memo, MemoHonest
  <2>7. save'.sure => \A s \in hits : live[s].name \in blobs[Home[save.to]]
    BY <1>2, <1>6, <1>8, HomeFacts DEF TypeOK, MemoVouched
  <2>3. DOMAIN save'.out = {}
    BY <1>8, EmptyRange
  <2>4. (save.meant = [m \in LayerSet |-> Shows(m, save.table)])'
    BY <1>8, <2>1
  <2>5. /\ save'.table \in [Grid -> Pool] /\ Range(save'.jobs) \subseteq Range(save'.table)
        /\ DOMAIN pass' \subseteq Range(save'.table)
        /\ Range(save'.table) \subseteq DOMAIN pass' \cup Range(save'.jobs)
    BY <1>4, <1>5, <1>6, <1>8
  <2>6. \A s \in DOMAIN pass' : /\ pass'[s].pool = save'.layer
                                /\ pass'[s].name = Hash[pool'[save'.layer][s]]
                                /\ save'.sure => pass'[s].name \in blobs'[Home[save'.to]]
    BY <1>3, <1>6, <1>8, <2>2, <2>7
  <2> QED
    BY <2>3, <2>4, <2>5, <2>6 DEF PassFaithful
<1>12. ~Done'
  BY <1>1, <1>8 DEF Done
<1>13. dead = None
  BY <1>2 DEF CollectorCareful
<1> QED
  BY <1>2, <1>3, <1>9, <1>10, <1>11, <1>12, <1>13, ListedStays
     DEF FileType, SavedTilesRight, Written, SavedTilesPresent, CollectorCareful, MemoVouched, MemoHonest,
         NamesFaithful

\* A worker hashes the pixels of a pinned slot.
LEMMA EncodeKeeps ==
  ASSUME Inv, NEW s \in Pool, EncodeTile(s)
  PROVE  Inv'
<1> USE DEF Inv
<1>1. /\ save # None /\ s \in Range(save.jobs)
      /\ save' = [save EXCEPT !.out = Put(@, s, Hash[pool[save.layer][s]])]
      /\ UNCHANGED <<pool, table, undone, live, pass, file, blobs, dead, vouched, paints, saves>>
  BY DEF EncodeTile, memo
<1>2. Under /\ ~Done
  BY <1>1, EmptyRange DEF SaveShape, Under, Done
<1> DEFINE h == Hash[pool[save.layer][s]]
<1>3. /\ save'.to = save.to /\ save'.left = save.left /\ save'.layer = save.layer
      /\ save'.table = save.table /\ save'.jobs = save.jobs /\ save'.out = Put(save.out, s, h)
      /\ save'.names = save.names /\ save'.meant = save.meant /\ save'.sure = save.sure
      /\ save'.failed = save.failed
      /\ save' = [to |-> save'.to, left |-> save'.left, layer |-> save'.layer, table |-> save'.table,
                  jobs |-> save'.jobs, out |-> save'.out, names |-> save'.names, meant |-> save'.meant,
                  sure |-> save'.sure, failed |-> save'.failed]
  BY <1>1 DEF SaveShape
<1>4. h \in Names
  BY <1>2, NameFacts DEF TypeOK, Under
<1>5. \A r \in DOMAIN save'.out :
         (r \in DOMAIN save.out /\ save'.out[r] = save.out[r]) \/ (r = s /\ save'.out[r] = h)
  BY <1>3 DEF Put
<1> HIDE DEF h
<1>6. TypeOK'
  <2>1. \A r \in DOMAIN save.out : save.out[r] \in Names
    BY <1>1 DEF TypeOK, Range
  <2>2. \A r \in DOMAIN save'.out : save'.out[r] \in Names
    BY <1>4, <1>5, <2>1
  <2>3. Range(save'.out) \subseteq Names
    BY <2>2 DEF Range
  <2> QED
    BY <1>1, <1>3, <2>3 DEF TypeOK, Memo
<1>7. SaveShape'
  BY <1>1, <1>2, <1>3 DEF SaveShape, Under
<1>8. PassFaithful'
  <2>1. [m \in LayerSet |-> Shows(m, save.table)]' = [m \in LayerSet |-> Shows(m, save.table)]
    BY <1>1, <1>3 DEF Shows
  <2>2. s \in Range(save.table)
    BY <1>1, <1>2 DEF PassFaithful
  <2> QED
    BY <1>1, <1>2, <1>3, <1>5, <2>1, <2>2 DEF PassFaithful, h
<1>9. ~Done'
  BY <1>2, <1>3 DEF Done, Under
<1>10. dead = None
  BY <1>1 DEF CollectorCareful
<1> QED
  BY <1>1, <1>2, <1>6, <1>7, <1>8, <1>9, <1>10, ListedStays
     DEF FileType, SavedTilesRight, Written, SavedTilesPresent, CollectorCareful, MemoVouched, MemoHonest,
         NamesFaithful

\* A job done: the pass has the tile, and its blob is on disk.
LEMMA ReapKeeps ==
  ASSUME Inv, Reap
  PROVE  Inv'
<1> USE DEF Inv
<1> DEFINE s == Head(save.jobs)
           h == save.out[s]
<1>1. /\ save # None /\ save.jobs # <<>> /\ s \in DOMAIN save.out
      /\ pass' = Put(pass, s, [pool |-> save.layer, name |-> h])
      /\ blobs' = Stored(h)
      /\ save' = [save EXCEPT !.jobs = Tail(@)]
      /\ UNCHANGED <<pool, table, undone, live, file, dead, vouched, paints, saves>>
  BY DEF Reap, Due
<1>2. Under /\ ~Done
  BY <1>1 DEF SaveShape, Under, Done
<1>3. /\ save'.to = save.to /\ save'.left = save.left /\ save'.layer = save.layer
      /\ save'.table = save.table /\ save'.jobs = Tail(save.jobs) /\ save'.out = save.out
      /\ save'.names = save.names /\ save'.meant = save.meant /\ save'.sure = save.sure
      /\ save'.failed = save.failed
      /\ save' = [to |-> save'.to, left |-> save'.left, layer |-> save'.layer, table |-> save'.table,
                  jobs |-> save'.jobs, out |-> save'.out, names |-> save'.names, meant |-> save'.meant,
                  sure |-> save'.sure, failed |-> save'.failed]
  BY <1>1 DEF SaveShape
<1>4. /\ Tail(save.jobs) \in Seq(Pool) /\ Range(save.jobs) = {s} \cup Range(Tail(save.jobs)) /\ s \in Pool
  BY <1>1, JobsAfter DEF SaveShape
<1>5. h \in Names /\ h = Hash[pool[save.layer][s]] /\ s \in Range(save.table)
  BY <1>1, <1>2 DEF TypeOK, Range, PassFaithful
<1>12. /\ h \in blobs'[Home[save.to]] /\ blobs' \in [Dirs -> SUBSET Names] /\ Home[save.to] \in Dirs
       /\ \A d \in Dirs : blobs[d] \subseteq blobs'[d]
  <2>1. Home[save.to] \in Dirs /\ blobs \in [Dirs -> SUBSET Names]
    BY <1>1, HomeFacts DEF TypeOK
  <2> HIDE DEF h
  <2> QED
    BY <1>1, <1>5, <2>1 DEF Stored
<1>6. /\ DOMAIN pass' = DOMAIN pass \cup {s}
      /\ \A r \in DOMAIN pass' : (r = s /\ pass'[r] = [pool |-> save.layer, name |-> h])
            \/ (r \in DOMAIN pass /\ pass'[r] = pass[r])
  BY <1>1 DEF Put
<1> HIDE DEF s, h
<1>7. TypeOK'
  <2>1. Memo(pass)'
    BY <1>2, <1>4, <1>5, <1>6 DEF TypeOK, Memo, Under
  <2> QED
    BY <1>1, <1>3, <1>4, <1>12, <2>1 DEF TypeOK, Memo
<1>8. SaveShape'
  BY <1>1, <1>2, <1>3, <1>4 DEF SaveShape, Under
<1>9. PassFaithful'
  <2>1. [m \in LayerSet |-> Shows(m, save.table)]' = [m \in LayerSet |-> Shows(m, save.table)]
    BY <1>1, <1>3 DEF Shows
  <2>2. (save.meant = [m \in LayerSet |-> Shows(m, save.table)])'
    BY <1>2, <1>3, <2>1 DEF PassFaithful
  <2>3. /\ save'.table \in [Grid -> Pool] /\ Range(save'.jobs) \subseteq Range(save'.table)
        /\ DOMAIN pass' \subseteq Range(save'.table)
        /\ Range(save'.table) \subseteq DOMAIN pass' \cup Range(save'.jobs)
    BY <1>2, <1>3, <1>4, <1>5, <1>6 DEF PassFaithful
  <2>4. \A r \in DOMAIN pass' : /\ pass'[r].pool = save'.layer
                                /\ pass'[r].name = Hash[pool'[save'.layer][r]]
                                /\ save'.sure => pass'[r].name \in blobs'[Home[save'.to]]
    <3> SUFFICES ASSUME NEW r \in DOMAIN pass'
                 PROVE  /\ pass'[r].pool = save.layer /\ pass'[r].name = Hash[pool[save.layer][r]]
                        /\ save.sure => pass'[r].name \in blobs'[Home[save.to]]
      BY <1>1, <1>3
    <3>1. CASE r = s /\ pass'[r] = [pool |-> save.layer, name |-> h]
      BY <1>5, <1>12, <3>1
    <3>2. CASE r \in DOMAIN pass /\ pass'[r] = pass[r]
      BY <1>2, <1>12, <3>2 DEF PassFaithful
    <3> QED
      BY <1>6, <3>1, <3>2
  <2>5. \A r \in DOMAIN save'.out : r \in Range(save'.table) /\ save'.out[r] = Hash[pool'[save'.layer][r]]
    BY <1>1, <1>2, <1>3 DEF PassFaithful
  <2> QED
    BY <2>2, <2>3, <2>4, <2>5 DEF PassFaithful
<1>10. ~Done'
  BY <1>2, <1>3 DEF Done, Under
<1>11. dead = None
  BY <1>1 DEF CollectorCareful
<1>13. SavedTilesPresent'
  <2> SUFFICES ASSUME NEW f \in Files, file[f] # None, file[f].sure
               PROVE  Named(file[f].names) \subseteq blobs'[Home[f]]
    BY <1>1 DEF SavedTilesPresent, Written, Named
  <2>1. Named(file[f].names) \subseteq blobs[Home[f]] /\ Home[f] \in Dirs
    BY HomeFacts DEF SavedTilesPresent, Written
  <2> QED
    BY <1>12, <2>1
<1>14. MemoVouched'
  <2>1. \A d \in Dirs : Listed(d)' = Listed(d)
    BY <1>1, ListedStays
  <2> QED
    BY <1>1, <1>12, <2>1 DEF MemoVouched
<1> QED
  BY <1>1, <1>7, <1>8, <1>9, <1>10, <1>11, <1>13, <1>14
     DEF FileType, SavedTilesRight, Written, CollectorCareful, MemoHonest, NamesFaithful

\* A pass given up leaves the memo of the last pass alone.
LEMMA ReapFailsKeeps ==
  ASSUME Inv, ReapFails
  PROVE  Inv'
<1> USE DEF Inv
<1> DEFINE s == Head(save.jobs)
           h == save.out[s]
<1>1. /\ save # None /\ save.jobs # <<>> /\ s \in DOMAIN save.out
      /\ save' = [save EXCEPT !.layer = None, !.table = <<>>, !.jobs = <<>>, !.out = <<>>, !.failed = TRUE]
      /\ pass' = pass \/ pass' = Put(pass, s, [pool |-> save.layer, name |-> h])
      /\ UNCHANGED <<pool, table, undone, live, file, blobs, dead, vouched, paints, saves>>
  BY DEF ReapFails, Due
<1>2. Under /\ ~Done
  BY <1>1 DEF SaveShape, Under, Done
<1>6. /\ save'.to = save.to /\ save'.left = <<>> /\ save'.layer = None /\ save'.jobs = <<>>
      /\ save'.out = <<>> /\ save'.names = <<>> /\ save'.sure = save.sure /\ save'.failed = TRUE
      /\ save' = [to |-> save'.to, left |-> save'.left, layer |-> save'.layer, table |-> save'.table,
                  jobs |-> save'.jobs, out |-> save'.out, names |-> save'.names, meant |-> save'.meant,
                  sure |-> save'.sure, failed |-> save'.failed]
  BY <1>1, <1>2 DEF SaveShape, Under
<1>7. ~Done' /\ ~Under'
  BY <1>6 DEF Under, Done
<1>8. dead = None
  BY <1>1 DEF CollectorCareful
<1>3. s \in Pool /\ h \in Names
  BY <1>1, <1>2, JobsAfter DEF TypeOK, Range, PassFaithful, SaveShape
<1>4. Memo(pass)'
  <2>1. CASE pass' = pass
    BY <2>1 DEF TypeOK, Memo
  <2>2. CASE pass' = Put(pass, s, [pool |-> save.layer, name |-> h])
    <3>1. /\ DOMAIN pass' = DOMAIN pass \cup {s}
          /\ \A r \in DOMAIN pass' : (r = s /\ pass'[r] = [pool |-> save.layer, name |-> h])
            \/ (r \in DOMAIN pass /\ pass'[r] = pass[r])
      BY <2>2 DEF Put
    <3> HIDE DEF s, h
    <3> QED
      BY <1>2, <1>3, <3>1 DEF TypeOK, Memo, Under
  <2> QED
    BY <1>1, <2>1, <2>2
<1>5. TypeOK'
  BY <1>1, <1>4, <1>6, EmptyRange DEF TypeOK, Memo
<1>9. SaveShape'
  <2>1. <<>> \in Seq(Pool)
    OBVIOUS
  <2> QED
    BY <1>6, <2>1 DEF SaveShape
<1> QED
  BY <1>1, <1>5, <1>7, <1>8, <1>9, ListedStays
     DEF FileType, SavedTilesRight, Written, SavedTilesPresent, CollectorCareful, MemoVouched, MemoHonest,
         NamesFaithful, PassFaithful

\* The pass becomes the memo; the names it gives are the names meant.
LEMMA EndPassKeeps ==
  ASSUME Len(Layers) = 1, Inv, EndPass
  PROVE  Inv'
<1> USE DEF Inv
<1> DEFINE l == Head(Layers)
           t == save.table
           given == [i \in Grid |-> pass[t[i]].name]
<1>1. LayerSet = {l} /\ l # None
  BY OneLayer
<1>2. /\ save # None /\ save.layer # None /\ save.jobs = <<>> /\ live' = pass /\ pass' = <<>>
      /\ save' = [save EXCEPT !.layer = None, !.table = <<>>, !.out = <<>>,
                              !.names = Put(@, save.layer, given)]
      /\ vouched' = None
      /\ UNCHANGED <<pool, table, undone, file, blobs, dead, paints, saves>>
  BY DEF EndPass
<1>3. Under /\ save.layer = l /\ save.left = <<>> /\ save.names = <<>> /\ t \in [Grid -> Pool]
  BY <1>1, <1>2 DEF Under, SaveShape, TypeOK, PassFaithful
<1>4. Range(t) = DOMAIN pass /\ \A i \in Grid : t[i] \in DOMAIN pass
  BY <1>2, <1>3, EmptyRange DEF PassFaithful, Range
<1>5. given = Shows(l, t)
  BY <1>3, <1>4 DEF PassFaithful, Shows
<1>6. save.meant = [m \in LayerSet |-> given]
  <2>1. [m \in LayerSet |-> Shows(m, t)] = [m \in LayerSet |-> given]
    BY <1>1, <1>5
  <2> QED
    BY <1>3, <2>1 DEF PassFaithful
<1>7. Put(save.names, save.layer, given) = [m \in LayerSet |-> given]
  BY <1>1, <1>3, EmptyRange DEF Put
<1>8. given \in [Grid -> Names]
  BY <1>4 DEF TypeOK, Memo
<1>9. \A s \in DOMAIN pass : /\ pass[s].name \in Range(given)
                             /\ save.sure => pass[s].name \in blobs[Home[save.to]]
  <2> SUFFICES ASSUME NEW s \in DOMAIN pass
               PROVE  /\ pass[s].name \in Range(given)
                      /\ save.sure => pass[s].name \in blobs[Home[save.to]]
    OBVIOUS
  <2>1. PICK i \in Grid : t[i] = s
    BY <1>3, <1>4 DEF Range
  <2>2. given[i] = pass[s].name /\ i \in DOMAIN given
    BY <2>1
  <2> QED
    BY <1>3, <2>2 DEF Range, PassFaithful
<1>10. save.sure => Range(given) \subseteq blobs[Home[save.to]]
  BY <1>4, <1>9 DEF Range
<1> HIDE DEF l, t, given
<1>11. /\ save'.to = save.to /\ save'.left = <<>> /\ save'.layer = None /\ save'.jobs = <<>>
       /\ save'.out = <<>> /\ save'.names = [m \in LayerSet |-> given] /\ save'.meant = save.meant
       /\ save'.sure = save.sure /\ save'.failed = save.failed
       /\ save' = [to |-> save'.to, left |-> save'.left, layer |-> save'.layer, table |-> save'.table,
                   jobs |-> save'.jobs, out |-> save'.out, names |-> save'.names, meant |-> save'.meant,
                  sure |-> save'.sure, failed |-> save'.failed]
  BY <1>2, <1>3, <1>7 DEF SaveShape
<1>12. TypeOK'
  <2>1. Memo(live)' /\ Memo(pass)'
    BY <1>2, EmptyRange DEF TypeOK, Memo
  <2> QED
    BY <1>2, <1>11, <2>1, EmptyRange DEF TypeOK
<1>13. SaveShape'
  <2>1. <<>> \in Seq(Pool)
    OBVIOUS
  <2> QED
    BY <1>11, <2>1 DEF SaveShape
<1>14. MemoHonest'
  BY <1>2, <1>3 DEF MemoHonest, PassFaithful
<1>15. NamesFaithful'
  <2>1. save'.names \in Document /\ save'.names = save'.meant
    BY <1>6, <1>8, <1>11 DEF Document
  <2>2. \A m \in LayerSet : save'.names[m] = given
    BY <1>11
  <2>3. Named(save.names)' = Range(given)
    BY <1>1, <2>2 DEF Named
  <2> QED
    BY <1>2, <1>9, <1>10, <1>11, <2>1, <2>3 DEF NamesFaithful
<1>18. dead = None /\ ~Under'
  BY <1>2, <1>11 DEF CollectorCareful, Under
<1>19. MemoVouched'
  BY <1>2, HomeFacts DEF MemoVouched
<1> QED
  BY <1>2, <1>12, <1>13, <1>14, <1>15, <1>18, <1>19, ListedStays
     DEF FileType, SavedTilesRight, Written, SavedTilesPresent, CollectorCareful, PassFaithful

\* A save that fails at its end leaves the memo as its passes left it.
LEMMA SaveFailsKeeps ==
  ASSUME Inv, SaveFails
  PROVE  Inv'
<1> USE DEF Inv
<1>1. /\ save # None /\ save' = None /\ ~Done' /\ ~Under'
      /\ UNCHANGED <<pool, table, undone, live, pass, file, blobs, dead, vouched, paints, saves>>
  BY DEF SaveFails, memo, Done, Under
<1>2. TypeOK'
  BY <1>1 DEF TypeOK, Memo
<1> QED
  BY <1>1, <1>2, ListedStays
     DEF SaveShape, FileType, SavedTilesRight, Written, SavedTilesPresent, CollectorCareful, MemoVouched,
         MemoHonest, NamesFaithful, PassFaithful

\* The document names what was meant, and what it names is on disk if the save was sure.
LEMMA WriteKeeps ==
  ASSUME Inv, WriteDocument
  PROVE  Inv'
<1> USE DEF Inv
<1> DEFINE doc == [names |-> save.names, meant |-> save.meant, sure |-> save.sure]
<1>1. /\ save # None /\ file' = [file EXCEPT ![save.to] = doc] /\ save' = None /\ Done
      /\ vouched' = IF save.sure THEN Home[save.to] ELSE None
      /\ UNCHANGED <<pool, table, undone, live, pass, blobs, dead, paints, saves>>
  BY DEF WriteDocument, memo, Done
<1>2. /\ save.to \in Files /\ save.names \in Document /\ save.names = save.meant
      /\ save.sure \in BOOLEAN /\ Home[save.to] \in Dirs
  BY <1>1, HomeFacts DEF TypeOK, NamesFaithful
<1>3. doc \in Saved /\ doc # None
  BY <1>2, TileStoreAssumption DEF Saved
<1>4. /\ file'[save.to] = doc /\ doc.names = save.names /\ doc.meant = save.meant
      /\ doc.sure = save.sure
      /\ \A f \in Files : f # save.to => file'[f] = file[f]
  BY <1>1, <1>2 DEF FileType
<1> HIDE DEF doc
<1>5. FileType'
  BY <1>1, <1>3 DEF FileType
<1>6. SavedTilesRight'
  BY <1>2, <1>4 DEF SavedTilesRight, Written
<1>7. \A d \in Dirs : d = Home[save.to] => Named(save.names) \subseteq Listed(d)'
  <2> SUFFICES ASSUME NEW d \in Dirs, d = Home[save.to]
               PROVE  Named(save.names) \subseteq Listed(d)'
    OBVIOUS
  <2>1. /\ save.to \in {g \in Files : Home[g] = d /\ file'[g] # None}
        /\ file'[save.to].names = save.names
    BY <1>2, <1>3, <1>4
  <2> QED
    BY <2>1 DEF Listed, Named
<1>9. SavedTilesPresent'
  <2> SUFFICES ASSUME NEW f \in Files, file'[f] # None, file'[f].sure
               PROVE  Named(file'[f].names) \subseteq blobs[Home[f]]
    BY <1>1 DEF SavedTilesPresent, Written, Named
  <2>1. CASE f = save.to
    BY <1>1, <1>4, <2>1 DEF NamesFaithful
  <2>2. CASE f # save.to
    BY <1>4, <2>2 DEF SavedTilesPresent, Written
  <2> QED
    BY <2>1, <2>2
<1>10. MemoVouched'
  <2> SUFFICES ASSUME NEW d \in Dirs, vouched' = d, NEW s \in DOMAIN live
               PROVE  live[s].name \in Listed(d)' /\ live[s].name \in blobs[d]
    BY <1>1 DEF MemoVouched
  <2>1. save.sure /\ d = Home[save.to]
    BY <1>1, HomeFacts
  <2>2. live[s].name \in Named(save.names) /\ Named(save.names) \subseteq blobs[Home[save.to]]
    BY <1>1, <2>1 DEF NamesFaithful
  <2> QED
    BY <1>7, <2>1, <2>2
<1>11. TypeOK'
  BY <1>1, <1>2 DEF TypeOK, Memo
<1>12. dead = None
  BY <1>1 DEF CollectorCareful
<1> QED
  BY <1>1, <1>5, <1>6, <1>9, <1>10, <1>11, <1>12
     DEF SaveShape, CollectorCareful, MemoHonest, PassFaithful, Under, NamesFaithful, Done

\* The collector marks what no document names, and removes that and nothing else.
LEMMA CollectorKeeps ==
  ASSUME SweepsAlone, Inv,
         (\E d \in Dirs : GcMark(d)) \/ GcEnd \/ \E h \in Names : GcRemove(h)
  PROVE  Inv'
<1> USE DEF Inv
<1>1. UNCHANGED <<pool, table, undone, live, pass, save, file, vouched, paints, saves>>
  BY DEF GcMark, GcEnd, GcRemove, memo
<1>2. \A d \in Dirs : Listed(d)' = Listed(d)
  BY <1>1, ListedStays
<1>3. save = None
  BY DEF GcMark, GcEnd, GcRemove, CollectorCareful
<1> DEFINE Spared ==
             /\ blobs' \in [Dirs -> SUBSET Names]
             /\ dead' # None => dead' \in [dir : Dirs, names : SUBSET Names]
             /\ \A d \in Dirs : blobs[d] \cap Listed(d) \subseteq blobs'[d]
             /\ \A d \in Dirs : dead' # None /\ dead'.dir = d => dead'.names \cap Listed(d) = {}
<1>4. Spared
  <2>1. ASSUME NEW d \in Dirs, GcMark(d) PROVE Spared
    BY <2>1 DEF GcMark, TypeOK
  <2>2. CASE GcEnd
    BY <2>2 DEF GcEnd, TypeOK
  <2>3. ASSUME NEW h \in Names, GcRemove(h) PROVE Spared
    <3>1. /\ dead # None /\ dead \in [dir : Dirs, names : SUBSET Names] /\ h \in dead.names
          /\ dead' = [dead EXCEPT !.names = @ \ {h}]
          /\ blobs' = [blobs EXCEPT ![dead.dir] = @ \ {h}] /\ blobs \in [Dirs -> SUBSET Names]
      BY <2>3 DEF GcRemove, TypeOK
    <3>2. \A d \in Dirs : dead.dir = d => dead.names \cap Listed(d) = {}
      BY <3>1 DEF CollectorCareful
    <3> QED
      BY <3>1, <3>2
  <2> QED
    BY <2>1, <2>2, <2>3
<1>5. SavedTilesPresent'
  <2> SUFFICES ASSUME NEW f \in Files, file[f] # None, file[f].sure
               PROVE  Named(file[f].names) \subseteq blobs'[Home[f]]
    BY <1>1 DEF SavedTilesPresent, Written, Named
  <2>1. Named(file[f].names) \subseteq blobs[Home[f]] \cap Listed(Home[f])
    BY ListedNames DEF SavedTilesPresent, Written
  <2> QED
    BY <1>4, <2>1, HomeFacts
<1>6. CollectorCareful'
  BY <1>1, <1>2, <1>3, <1>4 DEF CollectorCareful
<1>7. TypeOK'
  BY <1>1, <1>4 DEF TypeOK, Memo
<1>8. MemoVouched'
  BY <1>1, <1>2, <1>4 DEF MemoVouched
<1> QED
  BY <1>1, <1>3, <1>5, <1>6, <1>7, <1>8
     DEF SaveShape, FileType, SavedTilesRight, Written, MemoHonest, PassFaithful, Under,
         NamesFaithful, Done

\* A document opened: the memo is seeded with what the fresh pools hold.
LEMMA ReopenKeeps ==
  ASSUME Len(Layers) = 1, SweepsAlone, Inv, NEW f \in Files, Reopen(f)
  PROVE  Inv'
<1> USE DEF Inv
<1> DEFINE l == Head(Layers)
           names == file[f].names
<1>1. LayerSet = {l} /\ l \in LayerSet
  BY OneLayer
<1>2. /\ file[f] # None /\ dead = None /\ pass' = <<>> /\ save' = None
      /\ pool' = [m \in LayerSet |-> [s \in Pool |-> IF s \in Grid THEN Decoded[names[m][s]] ELSE Blank]]
      /\ live' = [i \in Grid |-> [pool |-> l, name |-> names[l][i]]]
      /\ table' = [m \in LayerSet |-> [i \in Grid |-> i]] /\ undone' = table'
      /\ vouched' = Home[f] /\ Named(names) \subseteq blobs[Home[f]]
      /\ UNCHANGED <<file, blobs, dead, paints, saves>>
  BY DEF Reopen, Seeded
<1>3. names \in Document /\ \A m \in LayerSet : \A i \in Grid : names[m][i] \in Names
  BY <1>2 DEF FileType, Saved, Document
<1>4. pool' \in [LayerSet -> [Pool -> Pixels]]
  <2>1. \A m \in LayerSet : \A i \in Grid : Decoded[names[m][i]] \in Pixels
    BY <1>3, NameFacts
  <2>2. Blank \in Pixels
    BY TileStoreAssumption
  <2> HIDE DEF names
  <2> QED
    BY <1>2, <2>1, <2>2
<1>5. \A i \in Grid : names[l][i] = Hash[pool'[l][i]]
  BY <1>1, <1>2, <1>3, NameFacts, GridInPool
<1>6. \A i \in Grid : names[l][i] \in Named(names)
  BY <1>1, <1>3 DEF Named, Range, Document
<1>7. Named(names) \subseteq Listed(Home[f]) /\ Home[f] \in Dirs
  BY <1>2, ListedNames, HomeFacts
<1> HIDE DEF names, l
<1>8. TypeOK'
  <2>1. Memo(live)' /\ Memo(pass)'
    BY <1>1, <1>2, <1>3, GridInPool, EmptyRange DEF Memo
  <2>2. table' \in [LayerSet -> [Grid -> Pool]] /\ undone' \in [LayerSet -> [Grid -> Pool]]
    BY <1>2, GridInPool
  <2> QED
    BY <1>2, <1>4, <1>7, <2>1, <2>2 DEF TypeOK
<1>9. MemoHonest'
  BY <1>2, <1>5 DEF MemoHonest
<1>10. MemoVouched'
  BY <1>2, <1>6, <1>7, ListedStays DEF MemoVouched
<1> QED
  BY <1>2, <1>8, <1>9, <1>10, ListedStays
     DEF SaveShape, FileType, SavedTilesRight, Written, SavedTilesPresent, CollectorCareful, PassFaithful, Under,
         NamesFaithful, Done

LEMMA InvInit == Init => Inv
<1> SUFFICES ASSUME Init PROVE Inv
  OBVIOUS
<1>1. TypeOK
  <2>1. pool \in [LayerSet -> [Pool -> Pixels]] /\ table \in [LayerSet -> [Grid -> Pool]]
    BY GridInPool, TileStoreAssumption DEF Init
  <2>2. Memo(live) /\ Memo(pass)
    BY EmptyRange DEF Init, Memo
  <2>3. paints \in 0..MaxPaints /\ saves \in 0..MaxSaves
    BY TileStoreAssumption DEF Init
  <2> QED
    BY <2>1, <2>2, <2>3 DEF Init, TypeOK
<1>2. DOMAIN live = {}
  BY EmptyRange DEF Init
<1> QED
  BY <1>1, <1>2
     DEF Init, Inv, SaveShape, FileType, MemoHonest, MemoVouched, PassFaithful, Under, NamesFaithful, Done,
         SavedTilesRight, Written, SavedTilesPresent, CollectorCareful

LEMMA InvStep ==
  ASSUME Len(Layers) = 1, SweepsAlone, Inv, [Next]_vars
  PROVE  Inv'
<1>1. CASE UNCHANGED vars
  <2>1. UNCHANGED <<pool, table, undone, live, pass, save, file, blobs, dead, vouched, paints, saves>>
    BY <1>1 DEF vars, memo
  <2>2. \A d \in Dirs : Listed(d)' = Listed(d)
    BY <2>1, ListedStays
  <2>3. TypeOK' /\ SaveShape' /\ FileType' /\ MemoHonest'
    BY <2>1 DEF Inv, TypeOK, Memo, SaveShape, FileType, MemoHonest
  <2>4. PassFaithful' /\ NamesFaithful'
    BY <2>1 DEF Inv, PassFaithful, Under, NamesFaithful, Done, Shows, Named
  <2>5. SavedTilesRight' /\ SavedTilesPresent' /\ CollectorCareful' /\ MemoVouched'
    BY <2>1, <2>2 DEF Inv, SavedTilesRight, Written, SavedTilesPresent, Named, CollectorCareful, MemoVouched
  <2> QED
    BY <2>3, <2>4, <2>5 DEF Inv
<1> QED
  BY <1>1, PaintKeeps, RestoreKeeps, BeginSaveKeeps, SerializeKeeps, EncodeKeeps, ReapKeeps, ReapFailsKeeps,
     EndPassKeeps, SaveFailsKeeps, WriteKeeps, CollectorKeeps, ReopenKeeps DEF Next

-----------------------------------------------------------------------------
\* Every document names, for each tile, the pixels the tile had when the save reached its
\* layer (serialize_raster, RasterTileStore).
THEOREM DocumentsAreRight ==
  ASSUME Len(Layers) = 1, SweepsAlone
  PROVE  Spec => []SavedTilesRight
<1>1. Inv => SavedTilesRight
  BY DEF Inv
<1>2. Inv /\ [Next]_vars => Inv'
  BY InvStep
<1> QED
  BY <1>1, <1>2, InvInit, PTL DEF Spec

\* Every blob a document names is on disk, through failed saves, collections and restarts,
\* unless its save took names from a memo that nobody vouched for: one left by a save that
\* failed after its pass or went to another directory (gc_project_directory).
THEOREM BlobsArePresent ==
  ASSUME Len(Layers) = 1, SweepsAlone
  PROVE  Spec => []SavedTilesPresent
<1>1. Inv => SavedTilesPresent
  BY DEF Inv
<1>2. Inv /\ [Next]_vars => Inv'
  BY InvStep
<1> QED
  BY <1>1, <1>2, InvInit, PTL DEF Spec

\* Every state is of its type, what the memo says of a slot is what the slot holds, and the
\* blob it names is in the directory of the document that vouches for it, if one does
\* (RasterTileStore::probe, record, end_pass).
THEOREM MemoIsSound ==
  ASSUME Len(Layers) = 1, SweepsAlone
  PROVE  Spec => []MemoSound
<1>1. Inv => MemoSound
  BY DEF Inv, MemoSound, MemoOnDisk, MemoVouched, TypeOK
<1>2. Inv /\ [Next]_vars => Inv'
  BY InvStep
<1> QED
  BY <1>1, <1>2, InvInit, PTL DEF Spec
=============================================================================
