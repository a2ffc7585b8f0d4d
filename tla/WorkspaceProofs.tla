--------------------------- MODULE WorkspaceProofs ---------------------------
(***************************************************************************)
(* Workspace recovers from every crash of the fault model with CrashOn     *)
(* empty, for every number of slots, versions, generations and crashes.    *)
(* Inv is inductive; the properties TLC checks follow from it.             *)
(***************************************************************************)
EXTENDS Workspace, FiniteSetTheorems, TLAPS

(***************************************************************************)
(* Facts about the constants and the operators.                            *)
(***************************************************************************)
\* The slot indices and the empty root are naturals, and the empty root is no slot.
LEMMA SlotFacts ==
  /\ Slots \subseteq Nat /\ k_no_root \notin Slots
  /\ \A i \in 0 .. NumSlots : i # k_no_root => i \in Slots
  /\ \A s \in Slots : s \in 0 .. NumSlots /\ s + 1 \in 0 .. NumSlots
  BY NumSlotsAssumption DEF Slots, k_no_root

\* Versions are integers, the empty document is one, and NoVersion is none.
LEMMA VersionFacts ==
  /\ 0 \in Versions /\ Versions \subseteq Nat /\ NoVersion \notin Versions
  /\ \A v \in Nat : v <= MaxVersion => v \in Versions
  BY MaxVersionAssumption DEF Versions, NoVersion

\* The two header slots are each other's complement.
LEMMA ABFacts == \A ab \in AB : 1 - ab \in AB /\ 1 - ab # ab /\ 1 - (1 - ab) = ab
  BY DEF AB

\* The chunks a high water needs hold the slots below it.
LEMMA NeededCovers ==
  ASSUME NEW hw \in 0 .. NumSlots
  PROVE  Needed(hw) \in Nat /\ hw <= Needed(hw)
<1> DEFINE n == hw + ChunkSlots - 1
           p == n \div ChunkSlots
<1>0. ChunkSlots \in Nat \ {0} /\ n \in Nat /\ hw \in Nat
  BY ChunkSlotsAssumption, NumSlotsAssumption
<1> HIDE DEF n
<1>1. p \in Int /\ n = ChunkSlots * p + (n % ChunkSlots) /\ n % ChunkSlots \in 0 .. ChunkSlots - 1
  BY <1>0
<1> HIDE DEF p
<1>2. ChunkSlots * p = p * ChunkSlots /\ p * ChunkSlots \in Int
  BY <1>0, <1>1
<1>3. p * ChunkSlots >= hw
  BY <1>0, <1>1, <1>2 DEF n
<1>4. Needed(hw) = p * ChunkSlots
  BY DEF Needed, n, p
<1> QED
  BY <1>0, <1>2, <1>3, <1>4

\* No slot below the restored high water lies in a chunk that is punched.
LEMMA KeptCovers ==
  ASSUME NEW s \in Slots, NEW hw \in 0 .. NumSlots, s < hw
  PROVE  s \in Kept(hw)
<1>1. s \in Nat /\ hw \in Nat
  BY SlotFacts, NumSlotsAssumption
<1> QED
  BY <1>1, NeededCovers DEF Kept

\* A version reaches a finite number of slots.
LEMMA ReachCardinality == \A v : Cardinality(Reach(v)) \in Nat
<1> SUFFICES ASSUME NEW v PROVE Cardinality(Reach(v)) \in Nat
  OBVIOUS
<1>1. IsFiniteSet(Slots)
  BY NumSlotsAssumption, FS_Interval DEF Slots
<1>2. IsFiniteSet(Reach(v))
  BY <1>1, FS_Subset DEF Reach
<1> QED
  BY <1>2, FS_CardinalityType

\* A clean scene's counters are numbers.
LEMMA ZeroDirtType == ZeroDirt \in [live : Int, hw : Nat, quarantined : Nat]
  BY DEF ZeroDirt

\* Retired is a version number not yet written.
LEMMA RetiredType == TypeOK => Retired \in nextVersion .. MaxVersion + 1
  BY MaxVersionAssumption DEF TypeOK, DocType, Retired

\* The version being written is none of those in use.
LEMMA NextVersionFresh ==
  ASSUME Inv, nextVersion <= MaxVersion
  PROVE  /\ nextVersion \in Versions /\ nextVersion # 0
         /\ nextVersion # current /\ nextVersion # committed /\ nextVersion # attempt
         /\ rootOf[nextVersion] = k_no_root
  BY VersionFacts DEF Inv, TypeOK, DocType, TreesOK, Published

(***************************************************************************)
(* Init establishes the invariant.                                         *)
(***************************************************************************)
\* A new workspace file satisfies the invariant.
LEMMA InitInv == Init => Inv
  BY NumSlotsAssumption, MaxVersionAssumption
  DEF Init, Inv, TypeOK, FileType, StoreType, DocType, CommitType, TreesOK, StoreOK,
      DirtOK, ActiveOK, NextOK, DiskOK, DownOK, Slots, Versions, k_no_root, AB, NoVersion,
      RootSlot, Snapshot, NoTree, ZeroDirt, Header, EmptySnapshot, Active, Leads,
      Protected, Published, Written, Coherent, d_epoch, up, DirectoryOK, NoHeader

(***************************************************************************)
(* The writer's actions.                                                   *)
(***************************************************************************)
\* SlotStore::allocate and the stores of a transaction overwrite no slot that a
\* recoverable root leads to.
LEMMA WriteInv == ASSUME Inv, NEW s \in Slots, Write(s) PROVE Inv'
<1> USE SlotFacts, VersionFacts DEF Inv, TypeOK
<1>1. FileType'
  BY ChunkSlotsAssumption DEF FileType, DirectoryOK, DocType, Write, Allocate, up, NoHeader
<1>2. StoreType'
  BY DEF StoreType, Write, Allocate, Grows
<1>3. DocType'
  BY DEF DocType, Write, history
<1>4. CommitType'
  BY DEF CommitType, Write, commit, history
<1>5. TreesOK'
  BY DEF TreesOK, Published, Write, history
<1>6. StoreOK'
  <2> SUFFICES ASSUME NEW t \in Slots
               PROVE  /\ t \in free' => up' /\ t < high_water' /\ t \notin txn' /\ tree'[current'][t] = 0
                      /\ t \in txn' => up' /\ t < high_water' /\ tree'[current'][t] = 0 /\ mem'[t] = nextVersion'
                      /\ quarantine'[t] # 0 =>
                           t < high_water' /\ t \notin free' /\ t \notin txn' /\ tree'[current'][t] = 0
                      /\ tree'[current'][t] # 0 => up' /\ t < high_water' /\ mem'[t] = tree'[current'][t]
    BY DEF StoreOK, up
  <2>1. high_water \in Nat /\ t \in Nat
    BY DEF StoreType
  <2>2. CASE t = s
    BY <2>1, <2>2 DEF StoreOK, up, Write, Allocate, CanAllocate, Grows, FileType
  <2>3. CASE t # s
    BY <2>1, <2>3 DEF StoreOK, up, Write, Allocate, Grows, FileType
  <2> QED
    BY <2>2, <2>3
<1>7. DirtOK'
  BY DEF DirtOK, StoreType, Write, Allocate, commit
<1>8. ActiveOK'
  BY DEF ActiveOK, Active, Leads, Protected, StoreType, FileType, Write, Allocate,
         CanAllocate, Grows, commit, history, up
<1>9. NextOK'
  <2>1. /\ mem' = [mem EXCEPT ![s] = nextVersion] /\ free' = free \ {s}
        /\ high_water' = IF s = high_water THEN high_water + 1 ELSE high_water
        /\ s \in free \/ s = high_water
        /\ pc = "idle" /\ process' = process /\ disk' = disk /\ roots' = roots
        /\ snaps' = snaps /\ current' = current /\ tree' = tree /\ rootOf' = rootOf
        /\ UNCHANGED commit /\ UNCHANGED history
    BY DEF Write, Allocate, CanAllocate, Grows
  <2> QED
    BY <2>1 DEF NextOK, Leads, Protected, StoreType, FileType, Write, commit, history, up,
                Written, Coherent, d_epoch
<1>10. DiskOK'
  BY DEF DiskOK, Active, Written, d_epoch, Write, commit, history, up
<1>dir. DirectoryOK'
  <2>1. mapped \in Nat /\ high_water \in Nat /\ high_water <= mapped
    BY DEF Write, DirectoryOK, FileType, StoreType, up
  <2>2. high_water' <= mapped' /\ mapped <= mapped' /\ mapped' \in Nat
    BY <2>1, ChunkSlotsAssumption DEF Write, Allocate, CanAllocate, Grows
  <2>3. /\ up /\ pc = "idle" /\ process' = process /\ roots' = roots /\ snaps' = snaps
        /\ droots' = droots /\ dsnaps' = dsnaps /\ dmapped' = dmapped
        /\ UNCHANGED commit /\ UNCHANGED history
    BY DEF Write
  <2>4. \A ab \in AB : snaps[ab].hw \in Nat
    BY NumSlotsAssumption DEF FileType, Snapshot
  <2>5. droots[next_slot].gen = d_epoch => leftover # "none"
    BY <2>3 DEF DiskOK, Written, NextOK, CommitType, d_epoch
  <2> QED
    BY <2>1, <2>2, <2>3, <2>4, <2>5, ABFacts
    DEF DirectoryOK, CommitType, Active, Written, Coherent, d_epoch, up, commit, history, NoHeader
<1>down. DownOK'
  BY DEF DownOK, Write, up
<1> QED
  BY <1>dir, <1>down, <1>1, <1>2, <1>3, <1>4, <1>5, <1>6, <1>7, <1>8, <1>9, <1>10

\* Publishing a version that shares slots with its predecessor keeps the
\* invariant.
LEMMA PublishInv ==
  ASSUME Inv, NEW s \in Slots, NEW shared \in SUBSET Slots, Publish(s, shared)
  PROVE  Inv'
<1> USE SlotFacts, VersionFacts DEF Inv, TypeOK
<1>0. /\ nextVersion \in Versions /\ nextVersion # 0 /\ nextVersion # current
      /\ nextVersion # committed /\ nextVersion # attempt /\ rootOf[nextVersion] = k_no_root
  BY NextVersionFresh DEF Publish
<1> DEFINE new == [t \in Slots |-> IF t \in txn \cup {s} THEN nextVersion
                                   ELSE IF t \in shared THEN tree[current][t] ELSE 0]
<1>a. new \in [Slots -> Versions]
  BY <1>0 DEF DocType
<1>b. /\ tree' = [tree EXCEPT ![nextVersion] = new]
      /\ \A v \in Versions : v # nextVersion => tree'[v] = tree[v] /\ rootOf'[v] = rootOf[v]
      /\ tree'[nextVersion] = new /\ rootOf'[nextVersion] = s
  BY <1>0 DEF Publish, DocType
<1>c. nextVersion' = nextVersion + 1 /\ nextVersion \in Nat /\ current' = nextVersion /\ txn' = {}
  BY DEF Publish, DocType
<1>d. \A t \in Slots : new[t] # 0 => t \in txn \/ t = s \/ (new[t] = tree[current][t] /\ t # s)
  OBVIOUS
<1>e. new[s] = nextVersion /\ \A t \in txn : t \in Slots => new[t] = nextVersion
  OBVIOUS
<1> HIDE DEF new
<1>1. FileType'
  BY <1>0, ChunkSlotsAssumption DEF FileType, DirectoryOK, Publish, Allocate, up, NoHeader
<1>2. StoreType'
  BY DEF StoreType, Publish, Allocate, Grows
<1>3. DocType'
  <2>1. tree' \in [Versions -> [Slots -> Versions]]
    BY <1>0, <1>a, <1>b DEF DocType
  <2>2. rootOf' \in [Versions -> 0 .. NumSlots]
    BY <1>0 DEF DocType, Publish
  <2>3. nextVersion' \in 1 .. MaxVersion + 1
    BY <1>c, MaxVersionAssumption DEF DocType, Publish
  <2> QED
    BY <2>1, <2>2, <2>3, <1>0, <1>c DEF DocType, Publish, history
<1>4. CommitType'
  BY DEF CommitType, Publish, commit, history
<1>5. TreesOK'
  <2>1. rootOf'[0] = k_no_root
    BY <1>0, <1>b DEF TreesOK
  <2>2. ASSUME NEW v \in Versions
        PROVE  /\ v >= nextVersion' => rootOf'[v] = k_no_root
               /\ rootOf'[v] # k_no_root => tree'[v][rootOf'[v]] = v
               /\ rootOf'[v] = k_no_root => \A t \in Slots : tree'[v][t] = 0
    <3>1. CASE v = nextVersion
      BY <3>1, <1>b, <1>c, <1>e
    <3>2. CASE v # nextVersion
      BY <3>2, <1>b, <1>c DEF TreesOK
    <3> QED
      BY <3>1, <3>2
  <2>3. Published(current)' /\ Published(committed)' /\ (attempt' # NoVersion => Published(attempt)')
    BY <1>0, <1>b, <1>c DEF TreesOK, Published, DocType, Publish, history
  <2> QED
    BY <2>1, <2>2, <2>3 DEF TreesOK, Published
<1>6. StoreOK'
  <2> SUFFICES ASSUME NEW t \in Slots
               PROVE  /\ t \in free' => up' /\ t < high_water' /\ new[t] = 0
                      /\ quarantine'[t] # 0 => t < high_water' /\ t \notin free' /\ new[t] = 0
                      /\ new[t] # 0 => up' /\ t < high_water' /\ mem'[t] = new[t]
    BY <1>b, <1>c DEF StoreOK, up
  <2>1. high_water \in Nat /\ t \in Nat
    BY DEF StoreType
  <2>2. CASE t = s
    BY <2>1, <2>2, <1>e DEF StoreOK, up, Publish, Allocate, CanAllocate, Grows, FileType
  <2>3. CASE t # s
    BY <2>1, <2>3, <1>d, <1>e DEF StoreOK, up, Publish, Allocate, Grows, FileType
  <2> QED
    BY <2>2, <2>3
<1>7. DirtOK'
  BY DEF DirtOK, StoreType, Publish, Allocate, commit
<1>8. ActiveOK'
  BY <1>0, <1>b DEF ActiveOK, Active, Leads, Protected, StoreType, FileType, DocType, Publish,
         Allocate, CanAllocate, Grows, commit, history, up
<1>9. NextOK'
  BY <1>0, <1>b DEF NextOK, Leads, Protected, StoreType, FileType, DocType, Publish, Allocate,
         CanAllocate, Grows, commit, history, up, Written, Coherent, d_epoch
<1>10. DiskOK'
  BY DEF DiskOK, Active, Written, d_epoch, Publish, commit, history, up
<1>dir. DirectoryOK'
  <2>1. mapped \in Nat /\ high_water \in Nat /\ high_water <= mapped
    BY DEF Publish, DirectoryOK, FileType, StoreType, up
  <2>2. high_water' <= mapped' /\ mapped <= mapped' /\ mapped' \in Nat
    BY <2>1, ChunkSlotsAssumption DEF Publish, Allocate, CanAllocate, Grows
  <2>3. /\ up /\ pc = "idle" /\ process' = process /\ roots' = roots /\ snaps' = snaps
        /\ droots' = droots /\ dsnaps' = dsnaps /\ dmapped' = dmapped
        /\ UNCHANGED commit /\ UNCHANGED history
    BY DEF Publish
  <2>4. \A ab \in AB : snaps[ab].hw \in Nat
    BY NumSlotsAssumption DEF FileType, Snapshot
  <2>5. droots[next_slot].gen = d_epoch => leftover # "none"
    BY <2>3 DEF DiskOK, Written, NextOK, CommitType, d_epoch
  <2> QED
    BY <2>1, <2>2, <2>3, <2>4, <2>5, ABFacts
    DEF DirectoryOK, CommitType, Active, Written, Coherent, d_epoch, up, commit, history, NoHeader
<1>down. DownOK'
  BY DEF DownOK, Publish, up
<1> QED
  BY <1>dir, <1>down, <1>1, <1>2, <1>3, <1>4, <1>5, <1>6, <1>7, <1>8, <1>9, <1>10

\* Publishing the empty document keeps the invariant.
LEMMA PublishEmptyInv == ASSUME Inv, PublishEmpty PROVE Inv'
<1> USE SlotFacts, VersionFacts DEF Inv, TypeOK
<1>0. Retired \in nextVersion .. MaxVersion + 1 /\ nextVersion' = Retired
  BY RetiredType DEF PublishEmpty
<1>1. FileType'
  BY DEF FileType, PublishEmpty, file
<1>2. StoreType'
  BY DEF StoreType, PublishEmpty, store
<1>3. DocType'
  BY <1>0, MaxVersionAssumption DEF DocType, PublishEmpty, history
<1>4. CommitType'
  BY DEF CommitType, PublishEmpty, commit, history
<1>5. TreesOK'
  BY <1>0 DEF TreesOK, Published, DocType, PublishEmpty, history
<1>a. \A s \in Slots : tree[0][s] = 0
  BY DEF TreesOK
<1>6. StoreOK'
  BY <1>a DEF StoreOK, PublishEmpty, file, store, up
<1>7. DirtOK'
  BY <1>a DEF DirtOK, PublishEmpty, store, commit
<1>8. ActiveOK'
  BY DEF ActiveOK, Active, Leads, Protected, PublishEmpty, file, store, commit, history, up
<1>9. NextOK'
  BY DEF NextOK, Leads, Protected, PublishEmpty, file, store, commit, history, up,
         Written, Coherent, d_epoch
<1>10. DiskOK'
  BY DEF DiskOK, Active, Written, d_epoch, PublishEmpty, file, commit, history, up
<1>dir. DirectoryOK'
  BY DEF DirectoryOK, Active, Written, Coherent, d_epoch, up, PublishEmpty, file, store, doc, commit, history
<1>down. DownOK'
  BY DEF DownOK, PublishEmpty, up
<1> QED
  BY <1>dir, <1>down, <1>1, <1>2, <1>3, <1>4, <1>5, <1>6, <1>7, <1>8, <1>9, <1>10

\* An abandoned transaction's slots become garbage that no version needs.
LEMMA AbortInv == ASSUME Inv, Abort PROVE Inv'
<1> USE SlotFacts, VersionFacts DEF Inv, TypeOK
<1>0. Retired \in nextVersion .. MaxVersion + 1 /\ nextVersion' = Retired
  BY RetiredType DEF Abort
<1>1. FileType'
  BY DEF FileType, Abort, file
<1>2. StoreType'
  BY DEF StoreType, Abort, store
<1>3. DocType'
  BY <1>0, MaxVersionAssumption DEF DocType, Abort, history
<1>4. CommitType'
  BY DEF CommitType, Abort, commit, history
<1>5. TreesOK'
  BY <1>0 DEF TreesOK, Published, DocType, Abort, history
<1>6. StoreOK'
  BY DEF StoreOK, Abort, file, store, up
<1>7. DirtOK'
  BY DEF DirtOK, Abort, file, store, commit
<1>8. ActiveOK'
  BY DEF ActiveOK, Active, Leads, Protected, Abort, file, store, commit, history, up
<1>9. NextOK'
  BY DEF NextOK, Leads, Protected, Abort, file, store, commit, history, up,
         Written, Coherent, d_epoch
<1>10. DiskOK'
  BY DEF DiskOK, Active, Written, d_epoch, Abort, file, commit, history, up
<1>dir. DirectoryOK'
  BY DEF DirectoryOK, Active, Written, Coherent, d_epoch, up, Abort, file, store, doc, commit, history
<1>down. DownOK'
  BY DEF DownOK, Abort, up
<1> QED
  BY <1>dir, <1>down, <1>1, <1>2, <1>3, <1>4, <1>5, <1>6, <1>7, <1>8, <1>9, <1>10

\* A released slot enters the quarantine under the running epoch.
LEMMA ReleaseInv == ASSUME Inv, NEW s \in Slots, Release(s) PROVE Inv'
<1> USE SlotFacts, VersionFacts DEF Inv, TypeOK
<1>1. FileType'
  BY DEF FileType, Release, file
<1>2. StoreType'
  BY DEF StoreType, CommitType, Release, d_epoch
<1>3. DocType'
  BY DEF DocType, Release, doc, history
<1>4. CommitType'
  BY DEF CommitType, Release, commit, history
<1>5. TreesOK'
  BY DEF TreesOK, Published, Release, doc, history
<1>6. StoreOK'
  BY DEF StoreOK, StoreType, Release, Garbage, Reach, file, doc, up
<1>7. DirtOK'
  BY DEF DirtOK, StoreType, Release, file, doc, commit
<1>8. ActiveOK'
  BY DEF ActiveOK, Active, Leads, Protected, Release, file, doc, commit, history, up
<1>9. NextOK'
  BY DEF NextOK, Leads, Protected, Release, file, doc, commit, history, up,
         Written, Coherent, d_epoch
<1>10. DiskOK'
  BY DEF DiskOK, Active, Written, d_epoch, Release, file, commit, history, up
<1>dir. DirectoryOK'
  BY DEF DirectoryOK, Active, Written, Coherent, d_epoch, up, Release, file, doc, commit, history
<1>down. DownOK'
  BY DEF DownOK, Release, up
<1> QED
  BY <1>dir, <1>down, <1>1, <1>2, <1>3, <1>4, <1>5, <1>6, <1>7, <1>8, <1>9, <1>10

(***************************************************************************)
(* The commit's steps.                                                     *)
(***************************************************************************)
\* The data msync puts every record of the current version on disk, or finds them
\* there.
LEMMA SyncDataInv == ASSUME Inv, SyncData PROVE Inv'
<1> USE SlotFacts, VersionFacts DEF Inv, TypeOK
<1>0. ~IsDirty => dirt.live + dirt.quarantined = 0
  BY DEF IsDirty, ZeroDirt
<1>1. FileType'
  BY DEF FileType, SyncData
<1>2. StoreType'
  BY DEF StoreType, SyncData, store
<1>3. DocType'
  BY DEF DocType, SyncData, doc, history
<1>4. CommitType'
  BY DEF CommitType, SyncData, history
<1>5. TreesOK'
  BY DEF TreesOK, Published, SyncData, doc, history
<1>6. StoreOK'
  BY DEF StoreOK, SyncData, doc, store, up
<1>7. DirtOK'
  <2>1. \A s \in Slots : tree[current][s] # 0 => disk'[s] = tree[current][s]
    BY <1>0 DEF DirtOK, StoreOK, SyncData
  <2> QED
    BY <2>1 DEF DirtOK, SyncData, doc, store
<1>8. ActiveOK'
  BY DEF ActiveOK, Active, Leads, Protected, SyncData, doc, store, history, up
<1>9. NextOK'
  BY DEF NextOK, Leads, Protected, SyncData, doc, store, history, up,
         Written, Coherent, d_epoch
<1>10. DiskOK'
  BY DEF DiskOK, Active, Written, d_epoch, SyncData, history, up
<1>dir. DirectoryOK'
  BY DEF DirectoryOK, Active, Written, Coherent, d_epoch, up, SyncData, store, doc, commit, history
<1>down. DownOK'
  BY DEF DownOK, SyncData, up
<1> QED
  BY <1>dir, <1>down, <1>1, <1>2, <1>3, <1>4, <1>5, <1>6, <1>7, <1>8, <1>9, <1>10

\* Writing the high water into the inactive snapshot leaves the active pair alone.
LEMMA PublishHighWaterInv == ASSUME Inv, PublishHighWater PROVE Inv'
<1> USE SlotFacts, VersionFacts, ABFacts DEF Inv, TypeOK
<1>0. /\ snaps'[next_slot] = [stamp |-> snaps[next_slot].stamp, hw |-> high_water]
      /\ snaps'[1 - next_slot] = snaps[1 - next_slot]
      /\ snaps[next_slot].stamp \in Nat /\ next_slot \in AB
  BY DEF PublishHighWater, FileType, CommitType, Snapshot
<1>1. FileType'
  BY <1>0 DEF FileType, StoreType, PublishHighWater, Snapshot
<1>2. StoreType'
  BY DEF StoreType, PublishHighWater, store
<1>3. DocType'
  BY DEF DocType, PublishHighWater, doc, history
<1>4. CommitType'
  BY DEF CommitType, PublishHighWater, history
<1>5. TreesOK'
  BY DEF TreesOK, Published, PublishHighWater, doc, history
<1>6. StoreOK'
  BY DEF StoreOK, PublishHighWater, doc, store, up
<1>7. DirtOK'
  BY DEF DirtOK, PublishHighWater, doc, store
<1>8. ActiveOK'
  BY <1>0 DEF ActiveOK, Active, Leads, Protected, PublishHighWater, doc, store, history, up
<1>9. NextOK'
  BY <1>0 DEF NextOK, Leads, Protected, PublishHighWater, doc, store, history, up,
         Written, Coherent, d_epoch
<1>10. DiskOK'
  BY <1>0 DEF DiskOK, CommitType, Active, Written, d_epoch, PublishHighWater, history, up
<1>dir. DirectoryOK'
  BY <1>0 DEF DirectoryOK, NextOK, ActiveOK, FileType, StoreType, CommitType, Active, Written, Coherent, d_epoch, up, PublishHighWater, store, doc, commit, history
<1>down. DownOK'
  BY DEF DownOK, PublishHighWater, up
<1> QED
  BY <1>dir, <1>down, <1>1, <1>2, <1>3, <1>4, <1>5, <1>6, <1>7, <1>8, <1>9, <1>10

\* Stamping the inactive snapshot makes no older root eligible.
LEMMA StampSnapshotInv == ASSUME Inv, StampSnapshot PROVE Inv'
<1> USE SlotFacts, VersionFacts, ABFacts DEF Inv, TypeOK
<1>0. /\ snaps'[next_slot] = [stamp |-> d_epoch, hw |-> snaps[next_slot].hw]
      /\ snaps'[1 - next_slot] = snaps[1 - next_slot]
      /\ d_epoch \in Nat /\ next_slot \in AB
  BY DEF StampSnapshot, FileType, CommitType, d_epoch
<1>1. FileType'
  BY <1>0 DEF FileType, StampSnapshot, Snapshot
<1>2. StoreType'
  BY DEF StoreType, StampSnapshot, store
<1>3. DocType'
  BY DEF DocType, StampSnapshot, doc, history
<1>4. CommitType'
  BY DEF CommitType, StampSnapshot, history
<1>5. TreesOK'
  BY DEF TreesOK, Published, StampSnapshot, doc, history
<1>6. StoreOK'
  BY DEF StoreOK, StampSnapshot, doc, store, up
<1>7. DirtOK'
  BY DEF DirtOK, StampSnapshot, doc, store
<1>8. ActiveOK'
  BY <1>0 DEF ActiveOK, Active, Leads, Protected, StampSnapshot, doc, store, history, up
<1>9. NextOK'
  BY <1>0 DEF NextOK, Leads, Protected, StampSnapshot, doc, store, history, up,
         Written, Coherent, d_epoch
<1>10. DiskOK'
  BY <1>0 DEF DiskOK, CommitType, Active, Written, d_epoch, StampSnapshot, history, up
<1>dir. DirectoryOK'
  BY <1>0 DEF DirectoryOK, NextOK, ActiveOK, FileType, StoreType, CommitType, Active, Written, Coherent, d_epoch, up, StampSnapshot, store, doc, commit, history
<1>down. DownOK'
  BY DEF DownOK, StampSnapshot, up
<1> QED
  BY <1>dir, <1>down, <1>1, <1>2, <1>3, <1>4, <1>5, <1>6, <1>7, <1>8, <1>9, <1>10

\* The flip makes the new pair eligible in the page cache, over records on disk.
LEMMA FlipRootInv == ASSUME Inv, FlipRoot PROVE Inv'
<1> USE SlotFacts, VersionFacts, ABFacts DEF Inv, TypeOK
<1>0. /\ roots'[next_slot] = [gen |-> d_epoch, idx |-> rootOf[current]]
      /\ roots'[1 - next_slot] = roots[1 - next_slot]
      /\ d_epoch \in Nat /\ d_epoch # 0 /\ next_slot \in AB
  BY DEF FlipRoot, FileType, CommitType, d_epoch
<1>1. FileType'
  BY <1>0 DEF FileType, DocType, FlipRoot, RootSlot
<1>2. StoreType'
  BY DEF StoreType, FlipRoot, store
<1>3. DocType'
  BY DEF DocType, FlipRoot, doc
<1>4. CommitType'
  BY DEF CommitType, FlipRoot
<1>5. TreesOK'
  BY DEF TreesOK, Published, FlipRoot, doc
<1>6. StoreOK'
  BY DEF StoreOK, FlipRoot, doc, store, up
<1>7. DirtOK'
  BY DEF DirtOK, FlipRoot, doc, store
<1>8. ActiveOK'
  BY <1>0 DEF ActiveOK, Active, Leads, Protected, FlipRoot, doc, store, up
<1>9. NextOK'
  <2>1. Protected(current)' /\ attempt' = current /\ current' = current
    BY DEF Protected, StoreOK, DirtOK, FlipRoot, doc, store, up
  <2>2. attempt' # NoVersion
    BY <2>1 DEF DocType
  <2>3. Leads(roots[next_slot], snaps[next_slot], attempt)'
    BY <1>0 DEF Leads, NextOK, StoreOK, FlipRoot, doc
  <2> QED
    BY <1>0, <2>1, <2>2, <2>3 DEF NextOK, FlipRoot, store, Written, Coherent, d_epoch
<1>10. DiskOK'
  BY <1>0 DEF DiskOK, NextOK, CommitType, Active, Written, d_epoch, FlipRoot, up
<1>dir. DirectoryOK'
  BY <1>0 DEF DirectoryOK, NextOK, ActiveOK, FileType, StoreType, CommitType, Active, Written, Coherent, d_epoch, up, FlipRoot, store, doc, commit, history
<1>down. DownOK'
  BY DEF DownOK, FlipRoot, up
<1> QED
  BY <1>dir, <1>down, <1>1, <1>2, <1>3, <1>4, <1>5, <1>6, <1>7, <1>8, <1>9, <1>10

\* The header msync makes the attempt the committed version, and advance frees only
\* slots neither root needs.
LEMMA SyncHeaderInv == ASSUME Inv, SyncHeader PROVE Inv'
<1> USE SlotFacts, VersionFacts, ABFacts DEF Inv, TypeOK
<1>0. /\ next_slot \in AB /\ next_slot' = 1 - next_slot /\ 1 - next_slot' = next_slot
      /\ generation \in Nat /\ generation' = generation + 1 /\ d_epoch = generation + 1
  BY DEF SyncHeader, CommitType, d_epoch
<1>1. FileType'
  BY DEF FileType, SyncHeader
<1>2. StoreType'
  <2>1. dirt' \in [live : Int, hw : Nat, quarantined : Nat]
    BY ZeroDirtType DEF SyncHeader
  <2>2. free' \subseteq Slots
    BY DEF StoreType, SyncHeader, Drained
  <2>3. quarantine' \in [Slots -> Nat]
    BY DEF StoreType, SyncHeader
  <2> QED
    BY <2>1, <2>2, <2>3 DEF StoreType, SyncHeader
<1>3. DocType'
  BY DEF DocType, SyncHeader, doc
<1>4. CommitType'
  BY <1>0 DEF CommitType, SyncHeader
<1>5. TreesOK'
  BY DEF TreesOK, Published, SyncHeader, doc
<1>6. StoreOK'
  BY DEF StoreOK, StoreType, SyncHeader, Drained, doc, up
<1>7. DirtOK'
  BY DEF DirtOK, SyncHeader, ZeroDirt, doc
<1>a. Protected(current)'
  BY <1>6 DEF Protected, StoreOK, DirtOK, SyncHeader, doc, up
<1>8. ActiveOK'
  <2>1. Leads(roots[next_slot], snaps[next_slot], current)
    BY DEF NextOK, Coherent, SyncHeader, up
  <2>2. roots[next_slot].gen = generation + 1 /\ snaps[next_slot].stamp = generation + 1
    BY <1>0 DEF NextOK, Written, SyncHeader
  <2>3. committed' = current /\ current' = current /\ roots' = roots /\ snaps' = snaps
        /\ tree' = tree /\ rootOf' = rootOf
    BY DEF SyncHeader, doc
  <2> QED
    BY <1>0, <1>a, <2>1, <2>2, <2>3 DEF ActiveOK, Active, Leads, Protected
<1>9. NextOK'
  BY <1>0 DEF NextOK, ActiveOK, Active, Written, d_epoch, SyncHeader
<1>10. DiskOK'
  BY <1>0 DEF DiskOK, ActiveOK, Active, Written, d_epoch, SyncHeader
<1>dir. DirectoryOK'
  BY <1>0 DEF DirectoryOK, NextOK, ActiveOK, FileType, StoreType, CommitType, Active, Written, Coherent, d_epoch, up, SyncHeader, doc, commit, history
<1>down. DownOK'
  BY DEF DownOK, SyncHeader, up
<1> QED
  BY <1>dir, <1>down, <1>1, <1>2, <1>3, <1>4, <1>5, <1>6, <1>7, <1>8, <1>9, <1>10

\* A failed header msync leaves the attempt unfinished.
LEMMA SyncHeaderFailsInv == ASSUME Inv, SyncHeaderFails PROVE Inv'
<1> USE SlotFacts, VersionFacts DEF Inv, TypeOK
<1>1. FileType' /\ StoreType' /\ DocType' /\ CommitType'
  BY DEF FileType, StoreType, DocType, CommitType, SyncHeaderFails, file, doc, store
<1>2. TreesOK' /\ StoreOK' /\ DirtOK'
  BY DEF TreesOK, Published, StoreOK, DirtOK, SyncHeaderFails, file, doc, store, up
<1>3. ActiveOK'
  BY DEF ActiveOK, Active, Leads, Protected, SyncHeaderFails, file, doc, store, up
<1>4. NextOK'
  BY DEF NextOK, Leads, Protected, SyncHeaderFails, file, doc, store, up,
         Written, Coherent, d_epoch
<1>5. DiskOK'
  BY DEF DiskOK, SyncHeaderFails
<1>dir. DirectoryOK'
  BY DEF DirectoryOK, Active, Written, Coherent, d_epoch, up, SyncHeaderFails, file, store, doc, commit, history
<1>down. DownOK'
  BY DEF DownOK, SyncHeaderFails, up
<1> QED
  BY <1>dir, <1>down, <1>1, <1>2, <1>3, <1>4, <1>5

(***************************************************************************)
(* The kernel's write-back and the crashes.                                *)
(***************************************************************************)
\* The kernel may write the page of the root slots back at any time.
LEMMA WriteBackRootsInv == ASSUME Inv, WriteBackRoots PROVE Inv'
<1> USE SlotFacts, VersionFacts DEF Inv, TypeOK
<1>1. FileType' /\ StoreType' /\ DocType' /\ CommitType'
  BY DEF FileType, StoreType, DocType, CommitType, WriteBackRoots, doc, store, commit, history
<1>2. TreesOK' /\ StoreOK' /\ DirtOK'
  BY DEF TreesOK, Published, StoreOK, DirtOK, WriteBackRoots, doc, store, commit, history, up
<1>3. ActiveOK'
  BY DEF ActiveOK, Active, Leads, Protected, WriteBackRoots, doc, store, commit, history, up
<1>4. NextOK'
  BY DEF NextOK, Leads, Protected, WriteBackRoots, doc, store, commit, history, up,
         Written, Coherent, d_epoch
<1>5. DiskOK'
  BY DEF DiskOK, Active, Written, d_epoch, WriteBackRoots, commit, history, up
<1>dir. DirectoryOK'
  BY DEF DirectoryOK, Active, Written, Coherent, d_epoch, up, WriteBackRoots, DiskOK, store, doc, commit, history
<1>down. DownOK'
  BY DEF DownOK, up, WriteBackRoots, store, commit, history
<1> QED
  BY <1>dir, <1>down, <1>1, <1>2, <1>3, <1>4, <1>5

\* The kernel may write a snapshot page back at any time.
LEMMA WriteBackSnapshotInv == ASSUME Inv, NEW ab \in AB, WriteBackSnapshot(ab) PROVE Inv'
<1> USE SlotFacts, VersionFacts, ABFacts DEF Inv, TypeOK
<1>1. FileType' /\ StoreType' /\ DocType' /\ CommitType'
  BY DEF FileType, StoreType, DocType, CommitType, WriteBackSnapshot, doc, store, commit, history
<1>2. TreesOK' /\ StoreOK' /\ DirtOK'
  BY DEF TreesOK, Published, StoreOK, DirtOK, WriteBackSnapshot, doc, store, commit, history, up
<1>3. ActiveOK'
  BY DEF ActiveOK, Active, Leads, Protected, WriteBackSnapshot, doc, store, commit, history, up
<1>4. NextOK'
  BY DEF NextOK, Leads, Protected, WriteBackSnapshot, doc, store, commit, history, up,
         Written, Coherent, d_epoch
<1>5. DiskOK'
  BY DEF DiskOK, NextOK, FileType, CommitType, Active, Written, d_epoch, WriteBackSnapshot,
         commit, history, up
<1>dir. DirectoryOK'
  BY DEF DirectoryOK, DiskOK, FileType, CommitType, Active, Written, Coherent, d_epoch, up,
         WriteBackSnapshot, store, doc, commit, history
<1>down. DownOK'
  BY DEF DownOK, up, WriteBackSnapshot, store, commit, history
<1> QED
  BY <1>dir, <1>down, <1>1, <1>2, <1>3, <1>4, <1>5

\* Losing the process resets what it alone knows: the conjuncts about that hold of
\* the fresh state.
LEMMA LoseProcessInv ==
  ASSUME Inv, LoseProcess
  PROVE  StoreType' /\ DocType' /\ CommitType' /\ TreesOK' /\ StoreOK' /\ DirtOK'
<1> USE SlotFacts, VersionFacts DEF Inv, TypeOK
<1>0. Retired \in nextVersion .. MaxVersion + 1 /\ nextVersion' = Retired
  BY RetiredType DEF LoseProcess
<1>1. StoreType'
  <2>1. dirt' \in [live : Int, hw : Nat, quarantined : Nat]
    BY ZeroDirtType DEF LoseProcess
  <2>2. quarantine' \in [Slots -> Nat]
    BY DEF LoseProcess, NoTree
  <2> QED
    BY <2>1, <2>2, NumSlotsAssumption DEF StoreType, LoseProcess
<1>2. DocType'
  BY <1>0, MaxVersionAssumption DEF DocType, LoseProcess, history
<1>3. CommitType'
  BY MaxCrashesAssumption DEF CommitType, LoseProcess, history
<1>4. TreesOK'
  BY <1>0 DEF TreesOK, Published, DocType, LoseProcess, history
<1>a. \A s \in Slots : tree[0][s] = 0
  BY DEF TreesOK
<1>5. StoreOK'
  BY <1>a DEF StoreOK, LoseProcess, NoTree
<1>6. DirtOK'
  BY <1>a DEF DirtOK, LoseProcess, ZeroDirt
<1> QED
  BY <1>1, <1>2, <1>3, <1>4, <1>5, <1>6

\* A kill leaves a page cache that satisfies the invariant.
LEMMA KillInv == ASSUME CrashOn = {}, Inv, Kill PROVE Inv'
<1> USE SlotFacts, VersionFacts DEF Inv, TypeOK
<1>1. StoreType' /\ DocType' /\ CommitType' /\ TreesOK' /\ StoreOK' /\ DirtOK'
  BY LoseProcessInv DEF Kill
<1>2. FileType'
  BY DEF FileType, Kill, file
<1>3. ActiveOK'
  BY DEF ActiveOK, Active, Leads, Protected, Kill, LoseProcess, file, history, up
<1>4. NextOK'
  BY DEF NextOK, Leads, Protected, Kill, MayBeKilled, LoseProcess, file, history, up,
         Written, Coherent, d_epoch
<1>5. DiskOK'
  BY DEF DiskOK, Active, d_epoch, Kill, LoseProcess, file, history, up
<1>dir. DirectoryOK'
  BY DEF DirectoryOK, Active, Written, Coherent, d_epoch, up, Kill, LoseProcess, file, doc, commit, history
<1>down. DownOK'
  BY DEF DownOK, Kill, LoseProcess, MayBeKilled, history
<1> QED
  BY <1>dir, <1>down, <1>1, <1>2, <1>3, <1>4, <1>5

\* A power cut leaves a disk that satisfies the invariant.
LEMMA PowerCutInv == ASSUME CrashOn = {}, Inv, PowerCut PROVE Inv'
<1> USE SlotFacts, VersionFacts, ABFacts DEF Inv, TypeOK
<1>0. leftover = "none" /\ leftover' = "none"
  BY DEF PowerCut, MayLosePower, LoseProcess, history
<1>1. StoreType' /\ DocType' /\ CommitType' /\ TreesOK' /\ StoreOK' /\ DirtOK'
  BY LoseProcessInv DEF PowerCut
<1>2. PICK W \in SUBSET Slots : mem' = WrittenBack(W) /\ disk' = mem'
  BY DEF PowerCut
<1>3. FileType'
  BY <1>2 DEF FileType, PowerCut, WrittenBack
<1>4. ASSUME NEW v \in Versions, Protected(v) PROVE Protected(v)'
  BY <1>2, <1>4 DEF Protected, PowerCut, LoseProcess, WrittenBack, up
<1>5. ActiveOK'
  <2>1. roots'[Active] = roots[Active] /\ snaps'[Active] = snaps[Active]
    BY <1>0 DEF DiskOK, PowerCut
  <2>2. Protected(committed)'
    <3>1. committed \in Versions /\ Protected(committed)
      BY DEF ActiveOK, DocType
    <3>2. committed' = committed
      BY DEF PowerCut, LoseProcess, history
    <3> QED
      BY <3>1, <3>2, <1>4 DEF Protected
  <2> QED
    BY <2>1, <2>2 DEF ActiveOK, Active, Leads, PowerCut, LoseProcess, history
<1>6. NextOK'
  <2>1. /\ next_slot' = next_slot /\ generation' = generation /\ pc' = "idle"
        /\ attempt' = attempt /\ process' = "down" /\ tree' = tree /\ rootOf' = rootOf
        /\ roots' = droots /\ snaps' = dsnaps
    BY DEF PowerCut, LoseProcess, history
  <2>2. generation \in Nat /\ next_slot \in AB
    BY DEF CommitType
  <2>3. roots'[next_slot].gen = d_epoch => roots'[next_slot] = roots[next_slot]
    BY <1>0, <2>1, <2>2 DEF DiskOK, d_epoch
  <2>4. snaps'[next_slot].stamp = d_epoch => snaps'[next_slot] = snaps[next_slot]
    BY <1>0, <2>1 DEF DiskOK
  <2>5. ASSUME roots'[next_slot].gen = d_epoch, snaps'[next_slot].stamp = d_epoch
        PROVE  /\ attempt # NoVersion
               /\ Leads(roots[next_slot], snaps[next_slot], attempt)
               /\ Protected(attempt)
    BY <1>0, <2>3, <2>4, <2>5 DEF NextOK, Written, Coherent
  <2>6. ASSUME roots'[next_slot].gen = d_epoch, snaps'[next_slot].stamp = d_epoch
        PROVE  /\ attempt' # NoVersion
               /\ Leads(roots[next_slot], snaps[next_slot], attempt)'
               /\ Protected(attempt)'
    <3>1. attempt \in Versions
      BY <2>5, <2>6 DEF DocType
    <3>2. Leads(roots[next_slot], snaps[next_slot], attempt)'
      BY <2>1, <2>3, <2>4, <2>5, <2>6 DEF Leads
    <3>3. Protected(attempt)'
      BY <1>4, <2>1, <2>5, <2>6, <3>1 DEF Protected
    <3> QED
      BY <2>1, <2>5, <2>6, <3>2, <3>3
  <2>7. \/ roots'[next_slot].gen = d_epoch \/ roots'[next_slot].gen < generation
        \/ (generation = 0 /\ roots'[next_slot].gen = 0)
    BY <1>0, <2>1, <2>2 DEF DiskOK, NextOK, d_epoch
  <2>8. snaps'[next_slot].stamp <= d_epoch
    BY <1>0, <2>1 DEF DiskOK
  <2> QED
    BY <2>1, <2>6, <2>7, <2>8 DEF NextOK, Written, d_epoch, up
<1>7. DiskOK'
  BY <1>0 DEF DiskOK, Active, d_epoch, PowerCut, LoseProcess, up, NextOK, CommitType
<1>dir. DirectoryOK'
  <2>1. /\ next_slot' = next_slot /\ generation' = generation /\ process' = "down"
        /\ roots' = droots /\ snaps' = dsnaps /\ mapped' = dmapped
        /\ droots' = droots /\ dsnaps' = dsnaps /\ dmapped' = dmapped
    BY DEF PowerCut, LoseProcess
  <2>2. generation \in Nat /\ next_slot \in AB
    BY DEF CommitType
  <2>3. dsnaps[Active] = snaps[Active]
    BY <1>0 DEF DiskOK
  <2>4. ASSUME droots[next_slot].gen = d_epoch, dsnaps[next_slot].stamp = d_epoch
        PROVE  dsnaps[next_slot].hw <= dmapped
    <3>1. droots[next_slot] = roots[next_slot] /\ dsnaps[next_slot] = snaps[next_slot]
      BY <1>0, <2>2, <2>4 DEF DiskOK, d_epoch
    <3> QED
      BY <1>0, <2>4, <3>1 DEF DirectoryOK, Written, Coherent
  <2> QED
    BY <1>0, <2>1, <2>2, <2>3, <2>4 DEF DirectoryOK, Active, Written, d_epoch, up
<1>down. DownOK'
  BY <1>0 DEF DownOK, LoseProcess, PowerCut
<1> QED
  BY <1>dir, <1>down, <1>1, <1>3, <1>5, <1>6, <1>7

(***************************************************************************)
(* Recovery.                                                               *)
(***************************************************************************)
\* select_root takes the last durable root, the unfinished commit's when both
\* of its halves are there, or either slot of a file never checkpointed.
LEMMA SelectLemma ==
  ASSUME NEW rs \in [AB -> RootSlot], NEW sn \in [AB -> Snapshot],
         generation \in Nat, next_slot \in AB, generation = 0 => next_slot = 0,
         rs[Active].gen = generation, sn[Active].stamp = generation,
         \/ rs[next_slot].gen = d_epoch \/ rs[next_slot].gen < generation
         \/ (generation = 0 /\ rs[next_slot].gen = 0)
  PROVE  \E ab \in AB :
           /\ ab = SelectRoot(rs, sn) /\ sn[ab].stamp = rs[ab].gen
           /\ \/ ab = Active
              \/ ab = next_slot /\ rs[ab].gen = d_epoch
              \/ ab = next_slot /\ generation = 0 /\ rs[ab].gen = 0
<1>1. rs[0].gen \in Nat /\ rs[1].gen \in Nat /\ sn[0].stamp \in Nat /\ sn[1].stamp \in Nat
  BY DEF AB, RootSlot, Snapshot
<1>2. CASE next_slot = 0
  BY <1>1, <1>2 DEF AB, SelectRoot, Newest, Eligible, Active, d_epoch
<1>3. CASE next_slot = 1
  BY <1>1, <1>3 DEF AB, SelectRoot, Newest, Eligible, Active, d_epoch
<1> QED
  BY <1>2, <1>3 DEF AB

\* The walk from a root that leads to v reads v in its root slot.
LEMMA VersionFound ==
  ASSUME TreesOK, DocType, NEW v \in Versions, NEW root \in RootSlot, NEW snap, NEW bytes,
         Published(v), Leads(root, snap, v),
         \A s \in Slots : tree[v][s] # 0 => bytes[s] = tree[v][s]
  PROVE  VersionAt(root, bytes) = v
<1>1. CASE root.gen = 0 \/ root.idx = k_no_root
  BY <1>1 DEF VersionAt, Leads, Published
<1>2. CASE root.gen # 0 /\ root.idx # k_no_root
  <2>1. root.idx = rootOf[v] /\ rootOf[v] \in Slots /\ tree[v][rootOf[v]] = v
    BY <1>2, SlotFacts DEF Leads, TreesOK, DocType
  <2>2. v # 0
    BY <1>2, <2>1 DEF TreesOK
  <2> QED
    BY <1>2, <2>1, <2>2 DEF VersionAt
<1> QED
  BY <1>1, <1>2

\* The common part of every recovery: from a header that agrees with the page
\* cache on the last durable root and, where it holds all of it, on the
\* unfinished commit, and from bytes of the page cache or the disk, the open
\* finds one of the two versions, in place.
LEMMA RecoveryLemma ==
  ASSUME Inv,
         NEW rs \in [AB -> RootSlot], NEW sn \in [AB -> Snapshot], NEW bytes,
         rs[Active] = roots[Active], sn[Active] = snaps[Active],
         \/ rs[next_slot].gen = d_epoch \/ rs[next_slot].gen < generation
         \/ (generation = 0 /\ rs[next_slot].gen = 0),
         rs[next_slot].gen = d_epoch /\ sn[next_slot].stamp = d_epoch =>
           rs[next_slot] = roots[next_slot] /\ sn[next_slot] = snaps[next_slot] /\ Coherent,
         \A s \in Slots : bytes[s] = mem[s] \/ bytes[s] = disk[s]
  PROVE  \E ab \in AB, v \in Versions :
           /\ ab = SelectRoot(rs, sn) /\ sn[ab].stamp = rs[ab].gen
           /\ v = committed \/ v = attempt
           /\ VersionAt(rs[ab], bytes) = v
           /\ Leads(rs[ab], sn[ab], v) /\ Protected(v) /\ Published(v)
           /\ \/ ab = Active /\ v = committed
              \/ ab = next_slot /\ rs[ab].gen = d_epoch /\ v = attempt
              \/ ab = next_slot /\ generation = 0 /\ rs[ab].gen = 0
<1> USE VersionFacts, ABFacts DEF Inv, TypeOK
<1>0. generation \in Nat /\ next_slot \in AB /\ (generation = 0 => next_slot = 0)
      /\ rs[Active].gen = generation /\ sn[Active].stamp = generation /\ Active \in AB
  BY DEF CommitType, ActiveOK, Active
<1>1. PICK ab \in AB :
        /\ ab = SelectRoot(rs, sn) /\ sn[ab].stamp = rs[ab].gen
        /\ \/ ab = Active
           \/ ab = next_slot /\ rs[ab].gen = d_epoch
           \/ ab = next_slot /\ generation = 0 /\ rs[ab].gen = 0
  BY <1>0, SelectLemma
<1>2. SUFFICES \E v \in Versions :
        /\ v = committed \/ v = attempt
        /\ Leads(rs[ab], sn[ab], v) /\ Protected(v) /\ Published(v)
        /\ \/ ab = Active /\ v = committed
           \/ ab = next_slot /\ rs[ab].gen = d_epoch /\ v = attempt
           \/ ab = next_slot /\ generation = 0 /\ rs[ab].gen = 0
  <2>1. PICK v \in Versions :
        /\ v = committed \/ v = attempt
        /\ Leads(rs[ab], sn[ab], v) /\ Protected(v) /\ Published(v)
        /\ \/ ab = Active /\ v = committed
           \/ ab = next_slot /\ rs[ab].gen = d_epoch /\ v = attempt
           \/ ab = next_slot /\ generation = 0 /\ rs[ab].gen = 0
    BY <1>2
  <2>2. \A s \in Slots : tree[v][s] # 0 => bytes[s] = tree[v][s]
    BY <2>1 DEF Protected
  <2>3. rs[ab] \in RootSlot
    OBVIOUS
  <2>4. VersionAt(rs[ab], bytes) = v
    BY <2>1, <2>2, <2>3, VersionFound
  <2> QED
    BY <1>1, <2>1, <2>4
<1>3. committed \in Versions /\ Published(committed) /\ Protected(committed)
      /\ Leads(rs[Active], sn[Active], committed)
  BY DEF DocType, TreesOK, ActiveOK
<1>4. CASE ab = Active
  BY <1>3, <1>4
<1>5. CASE ab = next_slot /\ rs[ab].gen = d_epoch
  <2>1. Written /\ Coherent /\ snaps[next_slot].stamp = d_epoch
        /\ rs[ab] = roots[next_slot] /\ sn[ab] = snaps[next_slot]
    BY <1>1, <1>5 DEF Written
  <2>2. attempt # NoVersion /\ Leads(rs[ab], sn[ab], attempt) /\ Protected(attempt)
    BY <2>1 DEF NextOK
  <2>3. attempt \in Versions /\ Published(attempt)
    BY <2>2 DEF DocType, TreesOK
  <2> QED
    BY <1>5, <2>2, <2>3
<1>6. CASE ab = next_slot /\ generation = 0 /\ rs[ab].gen = 0
  <2>1. committed = 0
    BY <1>0, <1>3, <1>6 DEF Leads
  <2>2. Leads(rs[ab], sn[ab], 0)
    BY <1>6 DEF Leads, TreesOK
  <2> QED
    BY <1>3, <1>6, <2>1, <2>2
<1> QED
  BY <1>1, <1>4, <1>5, <1>6

\* A header selected in the page cache, when the process is down.
LEMMA ReopenInv == ASSUME Inv, Reopen PROVE Inv'
<1> USE SlotFacts, VersionFacts, ABFacts DEF Inv, TypeOK
<1>0. /\ process = "down" /\ pc = "idle" /\ quarantine = NoTree /\ leftover # "torn" /\ txn = {}
      /\ generation \in Nat /\ next_slot \in AB /\ (generation = 0 => next_slot = 0)
  BY DEF Reopen, DownOK, CommitType, StoreOK, DocType, ActiveOK, up
<1>1. PICK ab \in AB, v \in Versions :
        /\ ab = SelectRoot(roots, snaps) /\ snaps[ab].stamp = roots[ab].gen
        /\ v = committed \/ v = attempt
        /\ VersionAt(roots[ab], mem) = v
        /\ Leads(roots[ab], snaps[ab], v) /\ Protected(v) /\ Published(v)
        /\ \/ ab = Active /\ v = committed
           \/ ab = next_slot /\ roots[ab].gen = d_epoch
           \/ ab = next_slot /\ generation = 0 /\ roots[ab].gen = 0
  <2>1. Coherent
    BY <1>0 DEF Coherent
  <2>2. \/ roots[next_slot].gen = d_epoch \/ roots[next_slot].gen < generation
        \/ (generation = 0 /\ roots[next_slot].gen = 0)
    BY DEF NextOK
  <2>3. roots \in [AB -> RootSlot] /\ snaps \in [AB -> Snapshot]
    BY DEF FileType
  <2> QED
    BY <2>1, <2>2, <2>3, RecoveryLemma
<1> DEFINE hw == IF roots[ab].gen = 0 THEN 0 ELSE snaps[ab].hw
<1>2. /\ mem' = [s \in Slots |-> IF s \in Kept(snaps[ab].hw) THEN mem[s] ELSE 0]
      /\ current' = v /\ committed' = v
      /\ high_water' = hw
      /\ free' = {s \in Slots : s < hw /\ s \notin Reach(v)}
      /\ dirt' = [live |-> Cardinality(Reach(v)), hw |-> hw, quarantined |-> 0]
      /\ generation' = roots[ab].gen
      /\ next_slot' = IF roots[ab].gen = 0 THEN 0 ELSE 1 - ab
      /\ leftover' = Leftover(ab)
  BY <1>1 DEF Reopen
<1>3. /\ process' = "up" /\ attempt' = NoVersion
      /\ disk' = disk /\ roots' = roots /\ snaps' = snaps /\ droots' = droots /\ dsnaps' = dsnaps
      /\ txn' = {} /\ tree' = tree /\ rootOf' = rootOf /\ nextVersion' = nextVersion
      /\ quarantine' = NoTree /\ pc' = "idle" /\ crashes' = crashes
  BY <1>0 DEF Reopen
<1>4. /\ snaps[ab].hw \in 0 .. NumSlots /\ hw \in 0 .. NumSlots
      /\ roots[ab].gen \in Nat /\ roots[1 - ab].gen \in Nat /\ snaps[1 - ab].stamp \in Nat
  BY NumSlotsAssumption DEF FileType, RootSlot, Snapshot
<1>5. \A s \in Slots : tree[v][s] # 0 =>
        s < hw /\ mem[s] = tree[v][s] /\ mem'[s] = tree[v][s] /\ disk[s] = tree[v][s]
  <2> SUFFICES ASSUME NEW s \in Slots, tree[v][s] # 0
               PROVE  s < hw /\ mem[s] = tree[v][s] /\ mem'[s] = tree[v][s] /\ disk[s] = tree[v][s]
    OBVIOUS
  <2>1. s < snaps[ab].hw /\ roots[ab].gen # 0
    BY <1>1 DEF Leads, TreesOK
  <2>2. s \in Kept(snaps[ab].hw)
    BY <1>4, <2>1, KeptCovers
  <2> QED
    BY <1>1, <1>2, <2>1, <2>2 DEF Protected
<1>6. \A s \in Slots : s \in free' => s < hw /\ tree[v][s] = 0
  BY <1>2 DEF Reach
<1>c. Cardinality(Reach(v)) \in Nat
  BY ReachCardinality
<1> HIDE DEF hw
<1>7. FileType'
  <2>1. mapped' \in Nat /\ dmapped' = dmapped
    BY <1>1, <1>4, NeededCovers DEF Reopen
  <2> QED
    BY <1>2, <1>3, <2>1 DEF FileType
<1>8. StoreType'
  <2>1. dirt' \in [live : Int, hw : Nat, quarantined : Nat]
    BY <1>2, <1>4, <1>c, NumSlotsAssumption
  <2>2. quarantine' \in [Slots -> Nat]
    BY <1>3 DEF NoTree
  <2> QED
    BY <1>2, <1>4, <2>1, <2>2 DEF StoreType
<1>9. DocType'
  BY <1>2, <1>3 DEF DocType
<1>10. Leftover(ab) \in {"none", "torn", "orphan", "failed", "unsynced"}
  BY DEF Leftover
<1>11. CommitType'
  BY <1>1, <1>2, <1>3, <1>4, <1>10 DEF CommitType, AB
<1>12. TreesOK'
  BY <1>1, <1>2, <1>3 DEF TreesOK, Published
<1>13. StoreOK'
  BY <1>2, <1>3, <1>5, <1>6 DEF StoreOK, NoTree, up
<1>14. DirtOK'
  <2>1. dirt'.live \in Nat /\ dirt'.quarantined = 0
    BY <1>2, <1>c
  <2>2. \A s \in Slots : tree'[current'][s] # 0 => disk'[s] = tree'[current'][s]
    BY <1>2, <1>3, <1>5
  <2>3. dirt'.live + dirt'.quarantined >= 0
    BY <2>1
  <2> QED
    BY <2>2, <2>3 DEF DirtOK
<1>15. Protected(v)'
  BY <1>2, <1>3, <1>5, <1>6 DEF Protected
<1>16. /\ roots[1 - next_slot'].gen = generation' /\ snaps[1 - next_slot'].stamp = generation'
       /\ Leads(roots[1 - next_slot'], snaps[1 - next_slot'], v)
       /\ (generation' = 0 => next_slot' = 0)
       /\ next_slot' = 1 - ab \/ (ab = next_slot /\ generation = 0 /\ roots[ab].gen = 0 /\ next_slot' = ab)
  <2>1. CASE roots[ab].gen # 0
    BY <1>1, <1>2, <2>1
  <2>2. CASE roots[ab].gen = 0 /\ ab = Active
    BY <1>0, <1>1, <1>2, <2>2 DEF ActiveOK, Active
  <2>3. CASE roots[ab].gen = 0 /\ ab = next_slot
    <3>1. generation = 0 /\ next_slot = 0 /\ v = 0
      BY <1>0, <1>1, <2>3 DEF d_epoch, Leads, Active
    <3> QED
      BY <1>1, <1>2, <2>3, <3>1 DEF ActiveOK, Active, Leads
  <2> QED
    BY <1>1, <1>4, <2>1, <2>2, <2>3 DEF d_epoch
<1>17. ActiveOK'
  BY <1>2, <1>3, <1>15, <1>16 DEF ActiveOK, Active, Leads, Protected
<1>18. \/ roots[next_slot'].gen = generation' + 1 \/ roots[next_slot'].gen < generation'
       \/ (generation' = 0 /\ roots[next_slot'].gen = 0)
  BY <1>0, <1>1, <1>2, <1>16 DEF NextOK, ActiveOK, Active, d_epoch
<1>19. snaps[next_slot'].stamp <= generation' + 1
  BY <1>0, <1>1, <1>2, <1>16 DEF NextOK, ActiveOK, Active, d_epoch
<1>20. roots[next_slot'].gen = generation' + 1 => leftover' = "torn"
  BY <1>2, <1>4, <1>16 DEF Leftover
<1>21. NextOK'
  BY <1>3, <1>18, <1>19, <1>20 DEF NextOK, Written, Coherent, d_epoch
<1>22. DiskOK'
  <2> SUFFICES ASSUME leftover' = "none" PROVE DiskOK'
    BY DEF DiskOK
  <2>1. roots = droots /\ snaps = dsnaps /\ snaps[1 - ab].stamp <= roots[ab].gen
    BY <1>2, <1>4 DEF Leftover, OnDisk
  <2>2. snaps[next_slot'].stamp # generation' + 1
    BY <1>1, <1>2, <1>4, <1>16, <2>1
  <2> QED
    BY <1>3, <1>19, <1>20, <2>1, <2>2 DEF DiskOK, Active, Written, d_epoch
<1>23. DownOK'
  BY <1>3 DEF DownOK, up
<1>24. DirectoryOK'
  <2>1. mapped' = Needed(snaps[ab].hw) /\ dmapped' = dmapped
    BY <1>1 DEF Reopen
  <2>2. mapped' \in Nat /\ snaps[ab].hw <= mapped' /\ high_water' <= mapped'
    BY <1>2, <1>4, <2>1, NeededCovers DEF hw
  <2>3. generation' > 0 => 1 - next_slot' = ab
    BY <1>2, <1>16
  <2>4. generation' = 0 => generation = 0 /\ next_slot = 0 /\ next_slot' = 0
    BY <1>0, <1>1, <1>2, <1>16 DEF ActiveOK, d_epoch
  <2>5. ASSUME generation' = 0
        PROVE  /\ snaps[1].hw = 0
               /\ roots[0].gen = 0 /\ snaps[0].stamp = 0 => snaps[0].hw <= mapped'
    <3>1. snaps[1].hw = 0 /\ roots[1].gen = 0
      BY <2>4, <2>5 DEF DirectoryOK, ActiveOK, Active
    <3>2. roots[0].gen = 0 /\ snaps[0].stamp = 0 => ab = 0
      BY <1>1, <3>1 DEF SelectRoot, Newest, Eligible
    <3> QED
      BY <2>2, <3>1, <3>2
  <2>6. leftover' = "none" =>
          roots = droots /\ snaps = dsnaps /\ (generation' > 0 => snaps[ab].hw <= dmapped)
    BY <1>2 DEF Leftover, OnDisk
  <2>7. roots[next_slot'].gen = generation' + 1 => leftover' = "torn"
    BY <1>20
  <2> QED
    BY <1>3, <2>1, <2>2, <2>3, <2>4, <2>5, <2>6, <2>7
    DEF DirectoryOK, Active, Written, Coherent, d_epoch, NoHeader, up
<1> QED
  BY <1>7, <1>8, <1>9, <1>11, <1>12, <1>13, <1>14, <1>17, <1>21, <1>22, <1>23, <1>24

\* An open that is refused changes nothing the invariant speaks of.
LEMMA RefuseInv == ASSUME Inv, Refuse PROVE Inv'
<1> USE DEF Inv, TypeOK, Refuse, file, doc, store, commit, history
<1>1. FileType' /\ StoreType' /\ DocType' /\ CommitType'
  BY DEF FileType, StoreType, DocType, CommitType
<1>2. TreesOK' /\ StoreOK' /\ DirtOK' /\ DownOK'
  BY DEF TreesOK, Published, StoreOK, DirtOK, DownOK, up
<1>3. ActiveOK' /\ NextOK' /\ DirectoryOK' /\ DiskOK'
  BY DEF ActiveOK, DirectoryOK, Active, Leads, Protected, NextOK, DiskOK, Written, Coherent,
         d_epoch, up
<1> QED
  BY <1>1, <1>2, <1>3

(***************************************************************************)
(* The theorems.                                                           *)
(***************************************************************************)
\* A step that changes nothing keeps the invariant.
LEMMA StutterInv == ASSUME Inv, UNCHANGED vars PROVE Inv'
<1> USE DEF Inv, TypeOK, vars, file, doc, store, commit, history
<1>1. FileType' /\ StoreType' /\ DocType' /\ CommitType'
  BY DEF FileType, StoreType, DocType, CommitType
<1>2. TreesOK' /\ StoreOK' /\ DirtOK' /\ DownOK'
  BY DEF TreesOK, Published, StoreOK, DirtOK, DownOK, up
<1>3. ActiveOK' /\ NextOK' /\ DirectoryOK' /\ DiskOK'
  BY DEF ActiveOK, DirectoryOK, Active, Leads, Protected, NextOK, DiskOK, Written, Coherent, d_epoch, up
<1> QED
  BY <1>1, <1>2, <1>3

\* Every step keeps the invariant.
LEMMA NextInv == ASSUME CrashOn = {}, Inv, [Next]_vars PROVE Inv'
<1>1. ASSUME NEW s \in Slots, Write(s) PROVE Inv'
  BY <1>1, WriteInv
<1>2. ASSUME NEW s \in Slots, NEW shared \in SUBSET Slots, Publish(s, shared) PROVE Inv'
  BY <1>2, PublishInv
<1>3. ASSUME NEW s \in Slots, Release(s) PROVE Inv'
  BY <1>3, ReleaseInv
<1>4. ASSUME NEW ab \in AB, WriteBackSnapshot(ab) PROVE Inv'
  BY <1>4, WriteBackSnapshotInv
<1>5. CASE PublishEmpty \/ Abort \/ SyncData \/ PublishHighWater \/ StampSnapshot
  BY <1>5, PublishEmptyInv, AbortInv, SyncDataInv, PublishHighWaterInv, StampSnapshotInv
<1>6. CASE FlipRoot \/ SyncHeader \/ SyncHeaderFails \/ WriteBackRoots
  BY <1>6, FlipRootInv, SyncHeaderInv, SyncHeaderFailsInv, WriteBackRootsInv
<1>7. CASE Kill \/ PowerCut \/ Reopen \/ Refuse
  BY <1>7, KillInv, PowerCutInv, ReopenInv, RefuseInv
<1>8. CASE UNCHANGED vars
  BY <1>8, StutterInv
<1> QED
  BY <1>1, <1>2, <1>3, <1>4, <1>5, <1>6, <1>7, <1>8 DEF Next

(* The inductive invariant: outside the windows README.md reports, the      *)
(* commit, release, crash and recovery steps keep the two header slots, the *)
(* free pools and the quarantine consistent with the last durable root.     *)
THEOREM Invariance == ASSUME CrashOn = {} PROVE Spec => []Inv
<1>1. Init => Inv
  BY InitInv
<1>2. Inv /\ [Next]_vars => Inv'
  BY NextInv
<1> QED
  BY <1>1, <1>2, PTL DEF Spec

(* The state of the store, the header and the commit keeps its type.        *)
THEOREM TypeCorrect == ASSUME CrashOn = {} PROVE Spec => []TypeOK
<1>1. Inv => TypeOK
  BY DEF Inv
<1> QED
  BY <1>1, Invariance, PTL

\* An open of the page cache goes through while the process runs, and after a
\* checkpoint: the root it selects is one the directory covers.
LEMMA AcceptLemma ==
  ASSUME Inv, Coherent, up \/ generation > 0
  PROVE  Accepts(roots, snaps, mapped)
<1> USE ABFacts DEF Inv, TypeOK
<1>1. PICK ab \in AB, v \in Versions :
        /\ ab = SelectRoot(roots, snaps) /\ snaps[ab].stamp = roots[ab].gen
        /\ \/ ab = Active
           \/ ab = next_slot /\ roots[ab].gen = d_epoch
           \/ ab = next_slot /\ generation = 0 /\ roots[ab].gen = 0
  <2>1. \/ roots[next_slot].gen = d_epoch \/ roots[next_slot].gen < generation
        \/ (generation = 0 /\ roots[next_slot].gen = 0)
    BY DEF NextOK
  <2>2. roots \in [AB -> RootSlot] /\ snaps \in [AB -> Snapshot]
    BY DEF FileType
  <2> QED
    BY <2>1, <2>2, RecoveryLemma
<1>2. /\ generation \in Nat /\ snaps[ab].hw \in Nat /\ mapped \in Nat \cup {NoHeader}
      /\ up => mapped \in Nat
  BY NumSlotsAssumption DEF CommitType, FileType, Snapshot, DirectoryOK
<1>3. snaps[ab].hw <= mapped
  BY <1>1, <1>2 DEF DirectoryOK, Written
<1> QED
  BY <1>1, <1>2, <1>3 DEF Accepts, NoHeader

\* Recovering in the sense of RecoveryLemma is Recovers.
LEMMA RecoversFrom ==
  ASSUME Inv, NEW rs, NEW sn, NEW bytes, NEW ab \in AB, NEW v \in Versions,
         ab = SelectRoot(rs, sn), v = committed \/ v = attempt,
         VersionAt(rs[ab], bytes) = v, Leads(rs[ab], sn[ab], v), Protected(v),
         \A s \in Slots : bytes[s] = mem[s] \/ bytes[s] = disk[s]
  PROVE  Recovers(rs, sn, bytes)
<1>1. Holds(v, bytes, sn[ab].hw)
  BY DEF Holds, Reach, Protected, Leads
<1> QED
  BY <1>1 DEF Recovers, Opens, Leads

(* For every instance: a killed process reopens the last checkpoint or the  *)
(* one being committed, with every record in place, and is never refused    *)
(* (Checkpointer::commit and ::open).                                       *)
THEOREM KillSafe == ASSUME CrashOn = {} PROVE Spec => []KillRecovers
<1>1. Inv => KillRecovers
  <2> SUFFICES ASSUME Inv, up, MayBeKilled
               PROVE  Accepts(roots, snaps, mapped) /\ Recovers(roots, snaps, mem)
    BY DEF KillRecovers
  <2>1. Coherent
    BY DEF MayBeKilled, Coherent
  <2>2. roots \in [AB -> RootSlot] /\ snaps \in [AB -> Snapshot]
    BY DEF Inv, TypeOK, FileType
  <2>3. \/ roots[next_slot].gen = d_epoch \/ roots[next_slot].gen < generation
        \/ (generation = 0 /\ roots[next_slot].gen = 0)
    BY DEF Inv, NextOK
  <2>4. Recovers(roots, snaps, mem)
    BY <2>1, <2>2, <2>3, RecoveryLemma, RecoversFrom
  <2> QED
    BY <2>1, <2>4, AcceptLemma
<1> QED
  BY <1>1, Invariance, PTL

\* The header on disk agrees with the page cache on what RecoveryLemma needs.
LEMMA DiskAgrees ==
  ASSUME Inv, leftover = "none"
  PROVE  /\ droots \in [AB -> RootSlot] /\ dsnaps \in [AB -> Snapshot]
         /\ droots[Active] = roots[Active] /\ dsnaps[Active] = snaps[Active]
         /\ \/ droots[next_slot].gen = d_epoch \/ droots[next_slot].gen < generation
            \/ (generation = 0 /\ droots[next_slot].gen = 0)
         /\ droots[next_slot].gen = d_epoch => droots[next_slot] = roots[next_slot]
         /\ dsnaps[next_slot].stamp = d_epoch => dsnaps[next_slot] = snaps[next_slot]
         /\ Coherent
<1>1. droots \in [AB -> RootSlot] /\ dsnaps \in [AB -> Snapshot]
  BY DEF Inv, TypeOK, FileType
<1>2. droots[Active] = roots[Active] /\ dsnaps[Active] = snaps[Active]
  BY DEF Inv, DiskOK
<1>3. generation \in Nat /\ next_slot \in AB
  BY DEF Inv, TypeOK, CommitType
<1>4. \/ droots[next_slot].gen = d_epoch \/ droots[next_slot].gen < generation
      \/ (generation = 0 /\ droots[next_slot].gen = 0)
  BY <1>3 DEF Inv, DiskOK, NextOK
<1>5. droots[next_slot].gen = d_epoch => droots[next_slot] = roots[next_slot]
  BY <1>3 DEF Inv, DiskOK, d_epoch
<1>6. dsnaps[next_slot].stamp = d_epoch => dsnaps[next_slot] = snaps[next_slot]
  BY DEF Inv, DiskOK
<1> QED
  BY <1>1, <1>2, <1>4, <1>5, <1>6 DEF Coherent

\* After a checkpoint, an open of what is on disk goes through.
LEMMA DiskAccepts ==
  ASSUME Inv, leftover = "none", generation > 0
  PROVE  Accepts(droots, dsnaps, dmapped)
<1>1. PICK ab \in AB, v \in Versions :
        /\ ab = SelectRoot(droots, dsnaps) /\ dsnaps[ab].stamp = droots[ab].gen
        /\ \/ ab = Active
           \/ ab = next_slot /\ droots[ab].gen = d_epoch
           \/ ab = next_slot /\ generation = 0 /\ droots[ab].gen = 0
  BY DiskAgrees, RecoveryLemma
<1>2. generation \in Nat /\ dsnaps[ab].hw \in Nat
  BY NumSlotsAssumption DEF Inv, TypeOK, CommitType, FileType, Snapshot
<1>3. dsnaps[ab].hw <= dmapped
  <2>1. CASE ab = Active
    BY <2>1 DEF Inv, DirectoryOK
  <2>2. CASE ab = next_slot /\ droots[ab].gen = d_epoch
    <3>1. roots[next_slot] = droots[next_slot] /\ dsnaps[next_slot] = snaps[next_slot] /\ Coherent
      BY <1>1, <2>2, DiskAgrees
    <3> QED
      BY <1>1, <2>2, <3>1 DEF Inv, DirectoryOK, Written
  <2> QED
    BY <1>1, <1>2, <2>1, <2>2
<1> QED
  BY <1>1, <1>2, <1>3 DEF Accepts, NoHeader

(* For every instance: whatever pages the kernel had written back when the  *)
(* power failed, an open of the file on disk is refused only before the     *)
(* first checkpoint, and otherwise resumes the last checkpoint or the one   *)
(* being committed.                                                         *)
THEOREM PowerCutSafe == ASSUME CrashOn = {} PROVE Spec => []PowerCutRecovers
<1>1. Inv => PowerCutRecovers
  <2> SUFFICES ASSUME Inv, MayLosePower
               PROVE  /\ generation > 0 => Accepts(droots, dsnaps, dmapped)
                      /\ \A W \in SUBSET Slots : Recovers(droots, dsnaps, WrittenBack(W))
    BY DEF PowerCutRecovers
  <2>1. leftover = "none"
    BY DEF MayLosePower
  <2>2. ASSUME NEW W \in SUBSET Slots
        PROVE  Recovers(droots, dsnaps, WrittenBack(W))
    <3>1. \A s \in Slots : WrittenBack(W)[s] = mem[s] \/ WrittenBack(W)[s] = disk[s]
      BY DEF WrittenBack
    <3> QED
      BY <2>1, <3>1, DiskAgrees, RecoveryLemma, RecoversFrom
  <2> QED
    BY <2>1, <2>2, DiskAccepts
<1> QED
  BY <1>1, Invariance, PTL

(* For every instance: when is_dirty reports a clean scene, skipping the    *)
(* data msync leaves none of its records off the disk.                      *)
THEOREM CleanSceneSafe == ASSUME CrashOn = {} PROVE Spec => []CleanSceneIsOnDisk
<1>1. Inv => CleanSceneIsOnDisk
  <2>1. ~IsDirty => dirt.live + dirt.quarantined = 0
    BY DEF IsDirty, ZeroDirt
  <2> QED
    BY <2>1 DEF Inv, DirtOK, CleanSceneIsOnDisk, Reach
<1> QED
  BY <1>1, Invariance, PTL

(***************************************************************************)
(* The refinement.                                                         *)
(***************************************************************************)
\* A step that leaves the open version and the checkpoints alone stutters.
LEMMA DocStutter ==
  ASSUME process' = process, current' = current, committed' = committed, attempt' = attempt,
         generation' = generation
  PROVE  UNCHANGED Document!docVars
  BY DEF Document!docVars, up

\* Every step is one of DurableDocument's or a stutter.
LEMMA DocStep ==
  ASSUME CrashOn = {}, Inv, [Next]_vars
  PROVE  [Document!DocNext]_(Document!docVars)
<1> USE DEF Document!DocNext
<1>0. /\ current \in Versions /\ committed \in Versions /\ 0 \in Versions
      /\ NoVersion \notin Versions /\ RefusedFile \notin Versions /\ RefusedFile # NoVersion
      /\ generation \in Nat /\ process \in {"up", "down", "refused"}
  BY VersionFacts DEF Inv, TypeOK, DocType, CommitType, RefusedFile, NoVersion
<1>1. ASSUME NEW s \in Slots, Write(s) PROVE UNCHANGED Document!docVars
  BY <1>1, DocStutter DEF Write, history, commit
<1>2. ASSUME NEW s \in Slots, NEW shared \in SUBSET Slots, Publish(s, shared)
      PROVE  Document!Edit
  <2>1. nextVersion \in Versions
    BY <1>2, NextVersionFresh DEF Publish
  <2>2. process = "up" /\ process' = "up" /\ current' = nextVersion
        /\ committed' = committed /\ attempt' = attempt /\ generation' = generation
    BY <1>2 DEF Publish, history, commit, up
  <2> QED
    BY <1>0, <2>1, <2>2 DEF Document!Edit, Document!Open, up
<1>3. CASE PublishEmpty
  <2>1. process = "up" /\ process' = "up" /\ current' = 0
        /\ committed' = committed /\ attempt' = attempt /\ generation' = generation
    BY <1>3 DEF PublishEmpty, history, commit, up
  <2>2. Document!Edit
    BY <1>0, <2>1 DEF Document!Edit, Document!Open, up
  <2> QED
    BY <2>2
<1>4. ASSUME NEW s \in Slots, Release(s) PROVE UNCHANGED Document!docVars
  BY <1>4, DocStutter DEF Release, doc, commit, history
<1>5. CASE Abort \/ SyncHeaderFails \/ WriteBackRoots \/ \E ab \in AB : WriteBackSnapshot(ab)
  <2>1. process' = process /\ current' = current /\ committed' = committed
        /\ attempt' = attempt /\ generation' = generation
    BY <1>5 DEF Abort, SyncHeaderFails, WriteBackRoots, WriteBackSnapshot, doc, commit, history
  <2> QED
    BY <2>1, DocStutter
<1>6. CASE SyncData \/ PublishHighWater \/ StampSnapshot
  <2>1. process' = process /\ current' = current /\ committed' = committed
        /\ attempt' = attempt /\ generation' = generation
    BY <1>6 DEF SyncData, PublishHighWater, StampSnapshot, doc, history
  <2> QED
    BY <2>1, DocStutter
<1>7. CASE FlipRoot
  <2>1. process = "up" /\ process' = "up" /\ current' = current
        /\ committed' = committed /\ attempt' = current /\ generation' = generation
    BY <1>7 DEF FlipRoot, doc, up
  <2>2. Document!BeginCheckpoint
    BY <1>0, <2>1 DEF Document!BeginCheckpoint, Document!Open, up
  <2> QED
    BY <2>2
<1>8. CASE SyncHeader
  <2>1. process = "up" /\ process' = "up" /\ current' = current
        /\ committed' = current /\ attempt = current /\ attempt' = NoVersion
        /\ generation' = generation + 1
    BY <1>8 DEF SyncHeader, d_epoch, Inv, NextOK, doc, up
  <2>2. Document!EndCheckpoint
    BY <1>0, <2>1 DEF Document!EndCheckpoint, Document!Open, up
  <2> QED
    BY <2>2
<1>9. CASE Kill \/ PowerCut
  <2>1. process # "refused" /\ process' = "down" /\ committed' = committed /\ attempt' = attempt /\ generation' = generation
    BY <1>9 DEF Kill, PowerCut, LoseProcess, history, up
  <2>2. Document!Crash
    BY <1>0, <2>1 DEF Document!Crash, up
  <2> QED
    BY <2>2
<1>10. CASE Reopen
  <2>1. leftover # "torn" /\ process = "down"
    BY <1>10 DEF Reopen, Inv, DownOK, TypeOK, CommitType, up
  <2>2. PICK ab \in AB, v \in Versions :
          /\ ab = SelectRoot(roots, snaps)
          /\ VersionAt(roots[ab], mem) = v
          /\ Leads(roots[ab], snaps[ab], v)
          /\ \/ ab = Active /\ v = committed
             \/ ab = next_slot /\ roots[ab].gen = d_epoch /\ v = attempt
             \/ ab = next_slot /\ generation = 0 /\ roots[ab].gen = 0
    <3>1. Coherent
      BY <2>1 DEF Coherent
    <3>2. roots \in [AB -> RootSlot] /\ snaps \in [AB -> Snapshot]
      BY DEF Inv, TypeOK, FileType
    <3>3. \/ roots[next_slot].gen = d_epoch \/ roots[next_slot].gen < generation
          \/ (generation = 0 /\ roots[next_slot].gen = 0)
      BY DEF Inv, NextOK
    <3> QED
      BY <3>1, <3>2, <3>3, RecoveryLemma
  <2>3. /\ current' = v /\ committed' = v /\ process' = "up" /\ attempt' = NoVersion
        /\ generation' = roots[ab].gen
    BY <1>10, <2>2 DEF Reopen
  <2>a. roots[Active].gen = generation /\ (roots[ab].gen = 0 => v = 0)
    BY <2>2 DEF Inv, ActiveOK, Leads
  <2>4. Document!Recover
    BY <1>0, <2>1, <2>2, <2>3, <2>a DEF Document!Recover, up, d_epoch
  <2> QED
    BY <2>4
<1>11. CASE Refuse
  <2>1. process = "down" /\ process' = "refused" /\ committed' = committed
        /\ attempt' = attempt /\ generation' = generation /\ ~Accepts(roots, snaps, mapped)
    BY <1>11 DEF Refuse, history, commit
  <2>2. Coherent
    BY <2>1 DEF Inv, DownOK, Coherent, up
  <2>3. generation = 0
    BY <1>0, <2>1, <2>2, AcceptLemma
  <2> QED
    BY <1>0, <2>1, <2>3 DEF Document!Refuse
<1>12. CASE UNCHANGED vars
  BY <1>12, DocStutter DEF vars, doc, history, commit
<1> QED
  BY <1>1, <1>2, <1>3, <1>4, <1>5, <1>6, <1>7, <1>8, <1>9, <1>10, <1>11, <1>12 DEF Next

(* For every instance, the workspace file implements DurableDocument: a     *)
(* crash at any step costs at most the work since the last checkpoint, and  *)
(* only a file no checkpoint ever completed on may be refused by an open.   *)
THEOREM Refinement == ASSUME CrashOn = {} PROVE Spec => KeepsDocument
<1>1. Init => Document!DocInit
  BY DEF Init, Document!DocInit, up
<1>2. Inv /\ [Next]_vars => [Document!DocNext]_(Document!docVars)
  BY DocStep
<1> QED
  BY <1>1, <1>2, Invariance, PTL DEF Spec, KeepsDocument, Document!DocSpec
=============================================================================
