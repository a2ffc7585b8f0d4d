------------------------------ MODULE Workspace ------------------------------
(***************************************************************************)
(* The durability protocol of the mmap workspace file: the slot store that *)
(* the document's records live in, the durability-epoch quarantine, the    *)
(* ordered A/B checkpoint commit and the recovery on reopen                *)
(* (pool/checkpoint.hpp, pool/workspace_file.cpp, pool/slot_store.cpp,     *)
(* Model::open, Model::rebuild_counts and Model::checkpoint).              *)
(*                                                                         *)
(* Every store into the mapping lands in the page cache (mem, roots,       *)
(* snaps).  The kernel may write any dirty page back at any moment and in  *)
(* any order; msync only forces it.  A killed process leaves the page      *)
(* cache behind, a power cut leaves the disk.                              *)
(*                                                                         *)
(* Abstractions.                                                           *)
(*  - One slot store: HamtNodes and ObjectRecords follow the same          *)
(*    protocol.  A record's bytes are the number of the version that wrote *)
(*    them, which no two writes of a slot share; 0 is a hole.  What the    *)
(*    bytes of a version's root lead a walk to is `tree', written once     *)
(*    when the version is published.                                       *)
(*  - The chunk directory shares the first header page with the root       *)
(*    slots, as it does for the first 166 chunks, and stands for the slot  *)
(*    indices its live chunks hold.  A chunk is punched only when no root  *)
(*    in the file names a slot of it, so which of two chunks grown for the *)
(*    same indices a directory names makes no difference.                  *)
(*  - The file's length reaches the disk no later than the directory       *)
(*    entries that need it.                                                *)
(*  - Free slots may sit in another thread's local pool, so an allocation  *)
(*    may take any free slot or grow.                                      *)
(***************************************************************************)
EXTENDS Integers, FiniteSets

CONSTANTS NumSlots,    \* slot indices the store can address
          ChunkSlots,  \* slots per chunk
          MaxVersion,  \* bound: versions written in a behaviour
          MaxGen,      \* bound: root generations issued
          MaxCrashes,  \* bound: kills and power cuts
          CrashOn      \* leftovers of an abandoned commit on which another
                       \* crash may strike (see Kill and PowerCut)

ASSUME NumSlotsAssumption == NumSlots \in Nat \ {0}
ASSUME ChunkSlotsAssumption == ChunkSlots \in Nat \ {0}
ASSUME MaxVersionAssumption == MaxVersion \in Nat
ASSUME MaxGenAssumption == MaxGen \in Nat
ASSUME MaxCrashesAssumption == MaxCrashes \in Nat
ASSUME CrashOnAssumption == CrashOn \subseteq {"torn", "orphan", "failed", "unsynced"}

Slots == 0 .. NumSlots - 1
Versions == 0 .. MaxVersion
k_no_root == NumSlots           \* the empty document's root index
AB == 0 .. 1                    \* header root slots, 0 = A and 1 = B
None == 2                       \* select_root found no eligible slot
NoVersion == -1                 \* no checkpoint is unfinished
NoHeader == -1                  \* the first header page has no magic yet
RefusedFile == -2               \* the document of a file no open accepts

RootSlot == [gen : Nat, idx : 0 .. NumSlots]
Snapshot == [stamp : Nat, hw : 0 .. NumSlots]

VARIABLES
  \* the file: page cache and disk
  mem,      \* slot bytes in the page cache
  disk,     \* slot bytes as of the last data msync
  roots,    \* header page: the two root slots, page cache
  mapped,   \* header page: slot indices the live chunks of the directory hold
  snaps,    \* the two store-table snapshot pages, page cache
  droots,   \* the header page on disk
  dmapped,
  dsnaps,   \* the snapshot pages on disk
  \* the process
  process,     \* "up" while a Model is open on the file, "down", or "refused"
  current,     \* version published in d_current (0 = the empty document)
  txn,         \* slots written by the open transaction
  free,        \* slots an allocate may hand out
  quarantine,  \* epoch stamped on a released slot, 0 when not quarantined
  high_water,
  dirt,        \* the three is_dirty counters, relative to snapshot()
  generation, next_slot,
  pc,          \* how far the running commit is
  \* history
  tree,        \* bytes a version needs in each slot, 0 = not its slot
  rootOf,      \* root index of a version
  nextVersion,
  committed,   \* version of the last completed checkpoint or recovery
  attempt,     \* version a later, unfinished checkpoint flipped to
  crashes,     \* kills and power cuts so far
  leftover     \* what an abandoned commit may have left in the header

file == <<mem, disk, roots, mapped, snaps, droots, dmapped, dsnaps>>
doc == <<current, txn, tree, rootOf, nextVersion>>
store == <<free, quarantine, high_water, dirt>>
commit == <<generation, next_slot, pc>>
history == <<committed, attempt, leftover>>
vars == <<file, process, doc, store, commit, history, crashes>>

up == process = "up"
Reach(v) == {s \in Slots : tree[v][s] # 0}
d_epoch == generation + 1
NoTree == [s \in Slots |-> 0]
ZeroDirt == [live |-> 0, hw |-> 0, quarantined |-> 0]
\* Mutant: the live count, which an allocation from the pool changes, is left out.
IsDirty_NoLive == dirt.hw # 0 \/ dirt.quarantined # 0
IsDirty == dirt # ZeroDirt

Header == [gen |-> 0, idx |-> 0]
EmptySnapshot == [stamp |-> 0, hw |-> 0]

\* WorkspaceFileChunkSource::create: the header is written, and not synced.
Init ==
  /\ mem = NoTree /\ disk = NoTree
  /\ roots = [ab \in AB |-> Header] /\ droots = roots
  /\ mapped = 0 /\ dmapped = NoHeader
  /\ snaps = [ab \in AB |-> EmptySnapshot] /\ dsnaps = snaps
  /\ process = "up"
  /\ current = 0 /\ txn = {}
  /\ free = {} /\ quarantine = NoTree /\ high_water = 0 /\ dirt = ZeroDirt
  /\ generation = 0 /\ next_slot = 0 /\ pc = "idle"
  /\ tree = [v \in Versions |-> NoTree]
  /\ rootOf = [v \in Versions |-> k_no_root]
  /\ nextVersion = 1
  /\ committed = 0 /\ attempt = NoVersion
  /\ leftover = "none" /\ crashes = 0

(***************************************************************************)
(* The slot store.                                                         *)
(***************************************************************************)
\* SlotStore::allocate: a free slot, else the next one at the high water, for
\* which a chunk is grown when the directory's chunks are full.
Grows(s) == s = high_water
CanAllocate(s) == s \in free \/ Grows(s)

Allocate(s) ==
  /\ CanAllocate(s)
  /\ mem' = [mem EXCEPT ![s] = nextVersion]
  /\ free' = free \ {s}
  /\ high_water' = IF Grows(s) THEN high_water + 1 ELSE high_water
  /\ dirt' = [live |-> dirt.live + 1, quarantined |-> dirt.quarantined,
               hw |-> IF Grows(s) THEN dirt.hw + 1 ELSE dirt.hw]
  /\ mapped' = IF s < mapped THEN mapped ELSE mapped + ChunkSlots
  /\ UNCHANGED quarantine

\* A slot nothing refers to any more: its count fell to zero and the
\* reclamation queue holds it.
Garbage(s) ==
  /\ s < high_water
  /\ s \notin free \cup txn \cup Reach(current)
  /\ quarantine[s] = 0

\* Mutant: the slot goes straight back to the pool.
Release_NoFence(s) ==
  /\ up /\ pc = "idle"
  /\ Garbage(s)
  /\ free' = free \cup {s}
  /\ dirt' = [live |-> dirt.live - 1, quarantined |-> dirt.quarantined, hw |-> dirt.hw]
  /\ UNCHANGED <<file, process, doc, quarantine, high_water, commit, history, crashes>>

\* SlotStore::release under the fence: DurabilityEpochFence::on_release.
Release(s) ==
  /\ up /\ pc = "idle"
  /\ Garbage(s)
  /\ quarantine' = [quarantine EXCEPT ![s] = d_epoch]
  /\ dirt' = [live |-> dirt.live - 1, quarantined |-> dirt.quarantined + 1, hw |-> dirt.hw]
  /\ UNCHANGED <<file, process, doc, free, high_water, commit, history, crashes>>

(***************************************************************************)
(* The writer: a transaction writes fresh slots, then publishes a version  *)
(* that shares some of its predecessor's (path copying).                   *)
(***************************************************************************)
\* Bytes an unpublished transaction wrote are never written again.
Retired == IF txn = {} THEN nextVersion ELSE nextVersion + 1

Write(s) ==
  /\ up /\ pc = "idle" /\ nextVersion <= MaxVersion
  /\ Allocate(s)
  /\ txn' = txn \cup {s}
  /\ UNCHANGED <<disk, roots, snaps, droots, dmapped, dsnaps, process, current, tree, rootOf,
                 nextVersion, commit, history, crashes>>

Publish(s, shared) ==
  /\ up /\ pc = "idle" /\ nextVersion <= MaxVersion
  /\ shared \subseteq Reach(current) \ {rootOf[current]}
  /\ Allocate(s)
  /\ tree' = [tree EXCEPT ![nextVersion] =
                [t \in Slots |-> IF t \in txn \cup {s} THEN nextVersion
                                 ELSE IF t \in shared THEN tree[current][t] ELSE 0]]
  /\ rootOf' = [rootOf EXCEPT ![nextVersion] = s]
  /\ current' = nextVersion
  /\ nextVersion' = nextVersion + 1
  /\ txn' = {}
  /\ UNCHANGED <<disk, roots, snaps, droots, dmapped, dsnaps, process, commit, history, crashes>>

\* The transaction removed the last object: the document is empty again.
PublishEmpty ==
  /\ up /\ pc = "idle" /\ current # 0
  /\ current' = 0 /\ txn' = {} /\ nextVersion' = Retired
  /\ UNCHANGED <<file, process, tree, rootOf, store, commit, history, crashes>>

\* An aborted transaction drops its slots.
Abort ==
  /\ up /\ pc = "idle" /\ txn # {}
  /\ txn' = {} /\ nextVersion' = Retired
  /\ UNCHANGED <<file, process, current, tree, rootOf, store, commit, history, crashes>>

(***************************************************************************)
(* Checkpointer::commit, on the writer thread.                             *)
(***************************************************************************)
\* Mutant: no data msync.
SyncData_Skipped ==
  /\ up /\ pc = "idle" /\ generation < MaxGen
  /\ pc' = "synced"
  /\ UNCHANGED <<file, process, doc, store, generation, next_slot, history, crashes>>

\* (1) msync every data chunk, unless the scene is clean.
SyncData ==
  /\ up /\ pc = "idle" /\ generation < MaxGen
  /\ disk' = IF IsDirty THEN mem ELSE disk
  /\ pc' = "synced"
  /\ UNCHANGED <<mem, roots, mapped, snaps, droots, dmapped, dsnaps, process, doc, store, generation,
                 next_slot, history, crashes>>

\* (2a) the high water into the inactive snapshot.
PublishHighWater ==
  /\ up /\ pc = "synced"
  /\ snaps' = [snaps EXCEPT ![next_slot] =
                 [stamp |-> snaps[next_slot].stamp, hw |-> high_water]]
  /\ pc' = "rows"
  /\ UNCHANGED <<mem, disk, roots, mapped, droots, dmapped, dsnaps, process, doc, store, generation,
                 next_slot, history, crashes>>

\* (2b) its stamp.
StampSnapshot ==
  /\ up /\ pc = "rows"
  /\ snaps' = [snaps EXCEPT ![next_slot] =
                 [stamp |-> d_epoch, hw |-> snaps[next_slot].hw]]
  /\ pc' = "stamped"
  /\ UNCHANGED <<mem, disk, roots, mapped, droots, dmapped, dsnaps, process, doc, store, generation,
                 next_slot, history, crashes>>

\* publish_root_slot: the flip.
FlipRoot ==
  /\ up /\ pc = "stamped"
  /\ roots' = [roots EXCEPT ![next_slot] = [gen |-> d_epoch, idx |-> rootOf[current]]]
  /\ pc' = "flipped"
  /\ attempt' = current
  /\ UNCHANGED <<mem, disk, mapped, snaps, droots, dmapped, dsnaps, process, doc, store, generation,
                 next_slot, committed, leftover, crashes>>

\* drain_fences: slots whose release epoch is now durable.
Drained(durable) == {s \in Slots : quarantine[s] # 0 /\ quarantine[s] <= durable}

\* Mutant: the next commit overwrites the slot just made durable.
SyncHeader_NoAlternation ==
  /\ up /\ pc = "flipped"
  /\ droots' = roots /\ dmapped' = mapped /\ dsnaps' = snaps
  /\ generation' = d_epoch
  /\ free' = free \cup Drained(d_epoch)
  /\ quarantine' = [s \in Slots |-> IF s \in Drained(d_epoch) THEN 0 ELSE quarantine[s]]
  /\ dirt' = ZeroDirt
  /\ pc' = "idle"
  /\ committed' = current /\ attempt' = NoVersion
  /\ leftover' = "none"
  /\ UNCHANGED <<mem, disk, roots, mapped, snaps, process, doc, high_water, next_slot, crashes>>

\* (3) msync the header; then advance and drain the fence.
SyncHeader ==
  /\ up /\ pc = "flipped"
  /\ droots' = roots /\ dmapped' = mapped /\ dsnaps' = snaps
  /\ generation' = d_epoch
  /\ next_slot' = 1 - next_slot
  /\ free' = free \cup Drained(d_epoch)
  /\ quarantine' = [s \in Slots |-> IF s \in Drained(d_epoch) THEN 0 ELSE quarantine[s]]
  /\ dirt' = ZeroDirt
  /\ pc' = "idle"
  /\ committed' = current /\ attempt' = NoVersion
  /\ leftover' = "none"
  /\ UNCHANGED <<mem, disk, roots, mapped, snaps, process, doc, high_water, crashes>>

\* The header msync reports an error: commit returns, nothing advances, and
\* the header it wrote stays in the page cache.
SyncHeaderFails ==
  /\ up /\ pc = "flipped"
  /\ pc' = "idle"
  /\ leftover' = "failed"
  /\ UNCHANGED <<file, process, doc, store, generation, next_slot, committed, attempt, crashes>>

(***************************************************************************)
(* The kernel.  Header pages are written back as steps of their own.  Of a *)
(* data slot, a power cut keeps the bytes of the last data msync or those  *)
(* in the page cache: within a session a slot is written at most once      *)
(* between two data msyncs, so there are no others that a root could name. *)
(***************************************************************************)
WriteBackRoots ==
  /\ <<droots, dmapped>> # <<roots, mapped>>
  /\ droots' = roots /\ dmapped' = mapped
  /\ UNCHANGED <<mem, disk, roots, mapped, snaps, dsnaps, process, doc, store, commit, history, crashes>>

WriteBackSnapshot(ab) ==
  /\ dsnaps[ab] # snaps[ab]
  /\ dsnaps' = [dsnaps EXCEPT ![ab] = snaps[ab]]
  /\ UNCHANGED <<mem, disk, roots, mapped, snaps, droots, dmapped, process, doc, store, commit, history, crashes>>

\* What the process kept in its own memory is gone.
LoseProcess ==
  /\ process' = "down" /\ pc' = "idle"
  /\ current' = 0 /\ txn' = {} /\ nextVersion' = Retired
  /\ free' = {} /\ quarantine' = NoTree /\ high_water' = 0 /\ dirt' = ZeroDirt
  /\ crashes < MaxCrashes /\ crashes' = crashes + 1
  /\ UNCHANGED <<tree, rootOf, generation, next_slot, history>>

\* The crashes that may strike a header some abandoned commit wrote: none of
\* those the findings of README.md are about, unless CrashOn names them.
MayBeKilled == leftover = "torn" => "torn" \in CrashOn
MayLosePower == leftover = "none" \/ leftover \in CrashOn

\* The process dies; every store it made is in the page cache.
Kill ==
  /\ up
  /\ MayBeKilled
  /\ LoseProcess
  /\ UNCHANGED file

\* The slot bytes on disk when the kernel has written back the slots in W.
WrittenBack(W) == [s \in Slots |-> IF s \in W THEN mem[s] ELSE disk[s]]

\* The machine dies; what was written back is all there is.
PowerCut ==
  /\ process # "refused"
  /\ MayLosePower
  /\ \E W \in SUBSET Slots : mem' = WrittenBack(W) /\ disk' = mem'
  /\ roots' = droots /\ mapped' = dmapped /\ snaps' = dsnaps
  /\ LoseProcess
  /\ UNCHANGED <<droots, dmapped, dsnaps>>

(***************************************************************************)
(* Recovery: Checkpointer::open, the Checkpointer constructor and          *)
(* Model::open.                                                            *)
(***************************************************************************)
Eligible(rs, sn, ab) == sn[ab].stamp = rs[ab].gen
Newest(rs) == IF rs[0].gen >= rs[1].gen THEN 0 ELSE 1
SelectRoot(rs, sn) ==
  IF Eligible(rs, sn, Newest(rs)) THEN Newest(rs)
  ELSE IF Eligible(rs, sn, 1 - Newest(rs)) THEN 1 - Newest(rs)
  ELSE None

\* The version the walk from a root slot finds in the given slot bytes.
VersionAt(root, bytes) ==
  IF root.gen = 0 \/ root.idx = k_no_root THEN 0 ELSE bytes[root.idx]

\* The slot indices of the chunks a high water needs.
Needed(hw) == ((hw + ChunkSlots - 1) \div ChunkSlots) * ChunkSlots

\* An open goes through when the header has its magic, a root is eligible and
\* the directory covers the high water of that root's snapshot.
Accepts(rs, sn, covered) ==
  /\ covered # NoHeader
  /\ \E ab \in AB : ab = SelectRoot(rs, sn) /\ sn[ab].hw <= covered

\* adopt_snapshot keeps the chunks the high water needs and punches the other
\* chunks of the directory.
Kept(hw) == {s \in Slots : s < Needed(hw) \/ s >= mapped}

\* What an earlier commit that never completed left for this session: a root
\* newer than the one resumed, a header that is not on disk yet, or a stamp
\* newer than the root resumed.
OnDisk(ab) ==
  /\ roots = droots /\ snaps = dsnaps
  /\ roots[ab].gen # 0 => snaps[ab].hw <= dmapped
Leftover(ab) ==
  IF roots[1 - ab].gen > roots[ab].gen THEN "torn"
  ELSE IF ~OnDisk(ab) THEN "unsynced"
  ELSE IF snaps[1 - ab].stamp > roots[ab].gen THEN "orphan"
  ELSE "none"

Reopen ==
  /\ process = "down"
  /\ Accepts(roots, snaps, mapped)
  /\ \E ab \in AB :
       /\ ab = SelectRoot(roots, snaps)
       /\ LET v  == VersionAt(roots[ab], mem)
              hw == IF roots[ab].gen = 0 THEN 0 ELSE snaps[ab].hw
          IN /\ mem' = [s \in Slots |-> IF s \in Kept(snaps[ab].hw) THEN mem[s] ELSE 0]
             /\ mapped' = Needed(snaps[ab].hw)
             /\ current' = v /\ committed' = v
             /\ high_water' = hw
             /\ free' = {s \in Slots : s < hw /\ s \notin Reach(v)}
             /\ dirt' = [live |-> Cardinality(Reach(v)), hw |-> hw, quarantined |-> 0]
             /\ generation' = roots[ab].gen
             /\ next_slot' = IF roots[ab].gen = 0 THEN 0 ELSE 1 - ab
       /\ leftover' = Leftover(ab)
  /\ process' = "up"
  /\ attempt' = NoVersion
  /\ UNCHANGED <<disk, roots, snaps, droots, dmapped, dsnaps, txn, tree, rootOf, nextVersion,
                 quarantine, pc, crashes>>

\* The open returns an error (BadMagic, StoreDirectoryInconsistent) and leaves
\* the file as it is.
Refuse ==
  /\ process = "down"
  /\ ~Accepts(roots, snaps, mapped)
  /\ process' = "refused"
  /\ UNCHANGED <<file, doc, store, commit, history, crashes>>

Next ==
  \/ \E s \in Slots : Write(s)
  \/ \E s \in Slots, shared \in SUBSET Slots : Publish(s, shared)
  \/ PublishEmpty
  \/ Abort
  \/ \E s \in Slots : Release(s)
  \/ SyncData
  \/ PublishHighWater
  \/ StampSnapshot
  \/ FlipRoot
  \/ SyncHeader
  \/ SyncHeaderFails
  \/ WriteBackRoots
  \/ \E ab \in AB : WriteBackSnapshot(ab)
  \/ Kill
  \/ PowerCut
  \/ Reopen
  \/ Refuse

Spec == Init /\ [][Next]_vars

(***************************************************************************)
(* Properties.                                                             *)
(***************************************************************************)
FileType ==
  /\ mem \in [Slots -> Versions] /\ disk \in [Slots -> Versions]
  /\ roots \in [AB -> RootSlot] /\ droots \in [AB -> RootSlot]
  /\ snaps \in [AB -> Snapshot] /\ dsnaps \in [AB -> Snapshot]
  /\ mapped \in Nat \cup {NoHeader} /\ dmapped \in Nat \cup {NoHeader}

StoreType ==
  /\ free \subseteq Slots /\ quarantine \in [Slots -> Nat]
  /\ high_water \in 0 .. NumSlots
  /\ dirt \in [live : Int, hw : Nat, quarantined : Nat]

DocType ==
  /\ current \in Versions /\ txn \subseteq Slots
  /\ tree \in [Versions -> [Slots -> Versions]]
  /\ rootOf \in [Versions -> 0 .. NumSlots]
  /\ nextVersion \in 1 .. MaxVersion + 1
  /\ txn # {} => nextVersion <= MaxVersion
  /\ committed \in Versions /\ attempt \in Versions \cup {NoVersion}

CommitType ==
  /\ process \in {"up", "down", "refused"}
  /\ generation \in Nat /\ next_slot \in AB
  /\ pc \in {"idle", "synced", "rows", "stamped", "flipped"}
  /\ leftover \in {"none", "torn", "orphan", "failed", "unsynced"}
  /\ crashes \in Nat

TypeOK == FileType /\ StoreType /\ DocType /\ CommitType

\* Version v is wholly in the given bytes, under the given high water.
Holds(v, bytes, hw) == \A s \in Reach(v) : bytes[s] = tree[v][s] /\ s < hw

\* Opening a file with this header and these bytes finds a root whose version
\* has every record in place, below the high water that is restored with it.
Opens(rs, sn, bytes) ==
  \E ab \in AB :
    /\ ab = SelectRoot(rs, sn)
    /\ LET v == VersionAt(rs[ab], bytes)
       IN /\ Holds(v, bytes, sn[ab].hw)
          /\ rs[ab].gen # 0 => rs[ab].idx = rootOf[v]

\* ... and that version is the last completed checkpoint's or the one's that
\* was under way.
Recovers(rs, sn, bytes) ==
  /\ Opens(rs, sn, bytes)
  /\ VersionAt(rs[SelectRoot(rs, sn)], bytes) \in {committed, attempt}

(* Whenever the process is killed, the reopen is accepted and resumes the   *)
(* last checkpoint, or the one being committed, intact (Checkpointer::     *)
(* commit and open: "a crash lands on the old or the new root, both         *)
(* consistent").                                                            *)
KillRecovers ==
  up /\ MayBeKilled => Accepts(roots, snaps, mapped) /\ Recovers(roots, snaps, mem)

(* Whenever the machine loses power, whatever subset of the dirty pages the *)
(* kernel had written back, the same holds of what is on disk once a        *)
(* checkpoint has completed.  Before the first one the open may refuse the  *)
(* file, but never returns anything else.                                   *)
PowerCutRecovers ==
  process # "refused" /\ MayLosePower =>
    /\ generation > 0 => Accepts(droots, dsnaps, dmapped)
    /\ Accepts(droots, dsnaps, dmapped) =>
         \A W \in SUBSET Slots : Recovers(droots, dsnaps, WrittenBack(W))

(* A crash never leaves a corrupt document ("a crash costs at most the work *)
(* since the last checkpoint, never a corrupt document", checkpoint.hpp):   *)
(* an open that is not refused finds all the records of the root it selects. *)
NeverCorrupt ==
  /\ MayBeKilled /\ Accepts(roots, snaps, mapped) => Opens(roots, snaps, mem)
  /\ MayLosePower /\ Accepts(droots, dsnaps, dmapped) =>
       \A W \in SUBSET Slots : Opens(droots, dsnaps, WrittenBack(W))

(* A scene is_dirty calls clean has all its records on disk, so that        *)
(* skipping the data msync never publishes a root before its records: the  *)
(* three counters cannot cancel out after a change.                         *)
CleanSceneIsOnDisk ==
  up /\ ~IsDirty => \A s \in Reach(current) : disk[s] = tree[current][s]

(* The file keeps the promise of DurableDocument: a checkpoint takes effect *)
(* at one moment, a recovery opens the last completed or the unfinished one *)
(* and no other version, and an open is refused only if no checkpoint ever  *)
(* completed.                                                               *)
Document == INSTANCE DurableDocument
              WITH Version <- Versions, Empty <- 0, Refused <- RefusedFile,
                   document <- CASE process = "up" -> current
                                 [] process = "down" -> NoVersion
                                 [] process = "refused" -> RefusedFile,
                   kept <- IF generation = 0 THEN NoVersion ELSE committed,
                   underway <- attempt
KeepsDocument == Document!DocSpec

(***************************************************************************)
(* The inductive invariant, as a conjunction of named parts.  `Active' is  *)
(* the header slot of the last durable root; the other one, next_slot, is  *)
(* the slot a commit writes.                                               *)
(***************************************************************************)
Active == 1 - next_slot

\* The root slot and its snapshot lead to version v and bound its slots.
Leads(root, snap, v) ==
  /\ root.gen # 0 => root.idx = rootOf[v]
  /\ root.gen = 0 => v = 0
  /\ \A s \in Slots : tree[v][s] # 0 => s < snap.hw

\* No allocation may overwrite version v, and a data msync has covered it.
Protected(v) ==
  \A s \in Slots : tree[v][s] # 0 =>
    /\ mem[s] = tree[v][s] /\ disk[s] = tree[v][s]
    /\ s \notin free
    /\ up => s < high_water

\* A published version's bytes in its root slot are its own.
Published(v) == v = 0 \/ rootOf[v] # k_no_root
TreesOK ==
  /\ rootOf[0] = k_no_root
  /\ \A v \in Versions :
       /\ v >= nextVersion => rootOf[v] = k_no_root
       /\ rootOf[v] # k_no_root => tree[v][rootOf[v]] = v
       /\ rootOf[v] = k_no_root => \A s \in Slots : tree[v][s] = 0
  /\ Published(current) /\ Published(committed)
  /\ attempt # NoVersion => Published(attempt)

\* Live, written, free and quarantined slots are apart, below the high water.
StoreOK ==
  /\ \A s \in Slots :
       /\ s \in free => up /\ s < high_water /\ s \notin txn /\ tree[current][s] = 0
       /\ s \in txn => up /\ s < high_water /\ tree[current][s] = 0 /\ mem[s] = nextVersion
       /\ quarantine[s] # 0 =>
            s < high_water /\ s \notin free /\ s \notin txn /\ tree[current][s] = 0
       /\ tree[current][s] # 0 => up /\ s < high_water /\ mem[s] = tree[current][s]

\* live + quarantined counts the allocations since the last commit.
DirtOK ==
  /\ dirt.live + dirt.quarantined >= 0
  /\ dirt.live + dirt.quarantined = 0 \/ pc # "idle" =>
       \A s \in Slots : tree[current][s] # 0 => disk[s] = tree[current][s]

ActiveOK ==
  /\ roots[Active].gen = generation /\ snaps[Active].stamp = generation
  /\ Leads(roots[Active], snaps[Active], committed)
  /\ Protected(committed)
  /\ generation = 0 => next_slot = 0

\* The slot being written holds an older root, or the unfinished commit's.
Written == roots[next_slot].gen = d_epoch
Coherent == leftover # "torn" \/ pc = "flipped"
NextOK ==
  /\ roots[next_slot].gen = d_epoch \/ roots[next_slot].gen < generation
     \/ (generation = 0 /\ roots[next_slot].gen = 0)
  /\ snaps[next_slot].stamp <= d_epoch
  /\ Written /\ Coherent /\ (up \/ snaps[next_slot].stamp = d_epoch) =>
       /\ attempt # NoVersion
       /\ Leads(roots[next_slot], snaps[next_slot], attempt)
       /\ Protected(attempt)
  /\ pc = "flipped" => Written /\ attempt = current
  /\ pc = "flipped" \/ pc = "stamped" => snaps[next_slot].stamp = d_epoch
  /\ pc \in {"rows", "stamped", "flipped"} => snaps[next_slot].hw = high_water

\* The directory covers the high water and the snapshot of every root an open
\* could select: in the page cache, and on disk when nothing is left over.
DirectoryOK ==
  /\ up => mapped # NoHeader /\ high_water <= mapped
  /\ generation > 0 => snaps[Active].hw <= mapped
  /\ generation = 0 => snaps[Active].hw = 0
  /\ generation = 0 /\ up /\ roots[next_slot].gen = 0 /\ snaps[next_slot].stamp = 0 =>
       snaps[next_slot].hw <= mapped
  /\ Written /\ Coherent /\ (up \/ snaps[next_slot].stamp = d_epoch) =>
       snaps[next_slot].hw <= mapped
  /\ leftover = "none" =>
       /\ generation > 0 => dsnaps[Active].hw <= dmapped
       /\ droots[next_slot].gen = d_epoch => dmapped = mapped

\* With no leftovers, what is on disk of the slot being written is of this
\* very commit or older than the last durable root.
DiskOK ==
  leftover = "none" =>
    /\ droots[Active] = roots[Active] /\ dsnaps[Active] = snaps[Active]
    /\ droots[next_slot] = roots[next_slot]
       \/ (droots[next_slot].gen < generation \/ droots[next_slot].gen = 0)
    /\ dsnaps[next_slot].stamp = d_epoch => dsnaps[next_slot] = snaps[next_slot]
    /\ dsnaps[next_slot].stamp <= d_epoch
    /\ up => (snaps[next_slot].stamp = d_epoch <=> pc \in {"stamped", "flipped"})
    /\ up => (Written <=> pc = "flipped")

\* Between a crash and the reopen no commit is under way.
DownOK == ~up => pc = "idle" /\ quarantine = NoTree /\ leftover # "torn"

Inv ==
  /\ TypeOK /\ TreesOK /\ StoreOK /\ DirtOK /\ ActiveOK /\ NextOK
  /\ DirectoryOK /\ DiskOK /\ DownOK

=============================================================================
