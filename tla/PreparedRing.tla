---------------------------- MODULE PreparedRing ----------------------------
(***************************************************************************)
(* The ring of prepared, already mixed audio blocks between the lookahead  *)
(* pump, its only producer, and the device callback, which drains it with  *)
(* no lock: every slot carries a sequence number that is odd while the     *)
(* slot is written, and a drain that saw it change reads again.  Block     *)
(* indices are integers of either sign; a slot is an index modulo the      *)
(* capacity.  Stores and loads of one payload happen in any order, as      *)
(* relaxed atomics may.                                                    *)
(***************************************************************************)
EXTENDS Integers, Sequences, SequencesExt, FiniteSets

CONSTANTS
    Capacity,    \* d_capacity
    Depth,       \* blocks of the horizon past the playhead's own
    Blocks,      \* the output block indices the playhead visits
    Cells,       \* the samples of a block, stored and loaded one by one
    NoBlock, Silence,
    Attempts,    \* k_attempts
    LoadsInOrder,\* does the closing load of the sequence number come last?
    MaxMixes     \* bound on the blocks mixed

ASSUME RingAssumption ==
    /\ Capacity \in Nat /\ Depth \in Nat /\ Depth < Capacity
    /\ Blocks \subseteq Int
    /\ Cells # {} /\ "index" \notin Cells
    /\ Attempts \in Nat \ {0} /\ MaxMixes \in Nat
    /\ LoadsInOrder \in BOOLEAN

VARIABLES
    slot,      \* d_slots: the sequence number, the index, the samples
    jobs,      \* what the operation under way has left to do to the slots
    writing,   \* the job being carried out, or NoBlock
    owed,      \* the cells of it still to be stored
    mixes,     \* blocks mixed so far; it names the contents of each
    drain,     \* the drain under way
    heard,     \* what the last finished drain handed out
    primed,    \* the blocks the last prime had the means to prepare
    steady     \* has the drained slot held its block since the drain began?

vars == <<slot, jobs, writing, owed, mixes, drain, heard, primed, steady>>

Window(p, dir) == {p + dir * k : k \in 0..Depth}
Indices == UNION {Window(p, dir) : p \in Blocks, dir \in {-1, 1}}

\* Mutant: a block before zero goes to the first slot.
SlotAt_Clamped(i) == IF i < 0 THEN 0 ELSE i % Capacity

\* slot_at; an index below zero still lands in the array.
SlotAt(i) == ((i % Capacity) + Capacity) % Capacity
Slots     == 0..Capacity - 1

\* Everything a slot publishes under its sequence number: the index and the samples.
Fields == Cells \cup {"index"}

Job == [op : {"publish"}, index : Indices, mix : Nat] \cup [op : {"retire"}, slot : Slots]
Target(job) == IF job.op = "publish" THEN SlotAt(job.index) ELSE job.slot

\* The mixes of a block; what a load returns; a drain between two of its loads.
Mixed   == Indices \X (1..MaxMixes)
Loaded  == Indices \cup Mixed \cup {NoBlock}
Reading == [index : Indices, attempt : 1..Attempts, seq : Nat \cup {NoBlock},
            got : UNION {[D -> Loaded] : D \in SUBSET Fields}, again : Nat \cup {NoBlock}]

\* The two markers are values of their own: k_empty_slot is no block, and silence no samples.
ASSUME MarkerAssumption ==
    /\ NoBlock \notin Int /\ NoBlock \notin Job /\ NoBlock \notin Mixed /\ NoBlock \notin Reading
    /\ \A D \in {Cells, Fields} : Silence \notin [D -> Loaded]

Init ==
    /\ slot = [s \in Slots |-> [seq |-> 0, index |-> NoBlock, samples |-> [c \in Cells |-> NoBlock]]]
    /\ jobs = <<>> /\ writing = NoBlock /\ owed = {}
    /\ mixes = 0
    /\ drain = NoBlock /\ heard = Silence
    /\ primed = {} /\ steady = FALSE

-----------------------------------------------------------------------------
(* The producer.  Every operation runs under the pump's mutex, so one at a *)
(* time; each is a list of slots to retire and then of blocks to mix.      *)

ProducerIdle == jobs = <<>> /\ writing = NoBlock

Retirings(S) == [k \in 1..Cardinality(S) |-> [op |-> "retire", slot |-> SetToSeq(S)[k]]]
Mixings(p, dir) == [k \in 1..Depth + 1 |->
                      [op |-> "publish", index |-> p + dir * (k - 1), mix |-> 0]]
Occupied == {s \in Slots : slot[s].index # NoBlock}

\* prime: mix what the window from the playhead lacks, where all it is mixed
\* from is in the block cache; the cache is the pump's, so any part of it may be.
Prime(p, dir, resident) ==
    /\ ProducerIdle
    /\ jobs' = Mixings(p, dir)
    /\ primed' = resident
    /\ UNCHANGED <<slot, writing, owed, mixes, drain, heard, steady>>

\* reprime: retire the blocks out of the new window, then prime it.
Reprime(p, dir, resident) ==
    /\ ProducerIdle
    /\ jobs' = Retirings({s \in Occupied : slot[s].index \notin Window(p, dir)})
                  \o Mixings(p, dir)
    /\ primed' = resident
    /\ UNCHANGED <<slot, writing, owed, mixes, drain, heard, steady>>

\* invalidate: retire the blocks an edit reaches.
Invalidate(dirty) ==
    /\ ProducerIdle
    /\ jobs' = Retirings({s \in Occupied : slot[s].index \in dirty})
    /\ primed' = primed \ dirty
    /\ UNCHANGED <<slot, writing, owed, mixes, drain, heard, steady>>

\* set_spatial: every prepared block was mixed for the old listener.
SetSpatial ==
    /\ ProducerIdle
    /\ jobs' = Retirings(Occupied)
    /\ primed' = {}
    /\ UNCHANGED <<slot, writing, owed, mixes, drain, heard, steady>>

\* The odd sequence number that opens a write.
Open(job) ==
    LET s == Target(job)
    IN  /\ slot' = [slot EXCEPT ![s].seq = @ + 1]
        /\ owed' = IF job.op = "publish" THEN Fields ELSE {"index"}
        /\ steady' = (steady /\ drain # NoBlock /\ s # SlotAt(drain.index))

\* The loop's next step.  A block with an absent contributor is not mixed, nor
\* is one already prepared; mix_block fills the scratch, which publish_slot copies.
StartJob ==
    /\ writing = NoBlock /\ jobs # <<>>
    /\ jobs' = Tail(jobs)
    /\ LET job == Head(jobs)
       IN  \/ /\ job.op = "publish"
              /\ job.index \notin primed \/ slot[SlotAt(job.index)].index = job.index
              /\ UNCHANGED <<slot, writing, owed, mixes, steady>>
           \/ /\ job.op = "publish"
              /\ job.index \in primed /\ slot[SlotAt(job.index)].index # job.index
              /\ mixes < MaxMixes
              /\ mixes' = mixes + 1
              /\ writing' = [job EXCEPT !.mix = mixes + 1]
              /\ Open(job)
           \/ /\ job.op = "retire"
              /\ writing' = job
              /\ Open(job)
              /\ UNCHANGED mixes
    /\ UNCHANGED <<drain, heard, primed>>

\* publish_slot and retire_slot: the relaxed stores.
Store(f) ==
    /\ writing # NoBlock /\ f \in owed
    /\ owed' = owed \ {f}
    /\ slot' = IF writing.op = "retire" THEN [slot EXCEPT ![writing.slot].index = NoBlock]
               ELSE IF f = "index" THEN [slot EXCEPT ![SlotAt(writing.index)].index = writing.index]
               ELSE [slot EXCEPT ![SlotAt(writing.index)].samples[f] = <<writing.index, writing.mix>>]
    /\ UNCHANGED <<jobs, writing, mixes, drain, heard, primed, steady>>

\* The even sequence number that closes it.
Close ==
    /\ writing # NoBlock /\ owed = {}
    /\ slot' = [slot EXCEPT ![Target(writing)].seq = @ + 1]
    /\ writing' = NoBlock
    /\ UNCHANGED <<jobs, owed, mixes, drain, heard, primed, steady>>

-----------------------------------------------------------------------------
(* The drain: at most Attempts readings of the slot.                       *)

Even(n) == n % 2 = 0
Untouched(s) == Even(slot[s].seq)

Begin(i) ==
    /\ drain = NoBlock
    /\ drain' = [index |-> i, attempt |-> 1, seq |-> NoBlock, got |-> <<>>, again |-> NoBlock]
    /\ steady' = (Untouched(SlotAt(i)) /\ slot[SlotAt(i)].index = i)
    /\ UNCHANGED <<slot, jobs, writing, owed, mixes, heard, primed>>

Finish(h) == heard' = h /\ drain' = NoBlock

\* continue: another attempt, or silence after the last.
Retry == IF drain.attempt = Attempts
         THEN Finish(Silence)
         ELSE /\ drain' = [drain EXCEPT !.attempt = @ + 1, !.seq = NoBlock, !.got = <<>>,
                                        !.again = NoBlock]
              /\ UNCHANGED heard

\* Mutant: the test of the write bit is inverted.
LoadSeq_Inverted ==
    /\ drain # NoBlock /\ drain.seq = NoBlock
    /\ LET n == slot[SlotAt(drain.index)].seq
       IN  \/ ~Even(n) /\ drain' = [drain EXCEPT !.seq = n] /\ UNCHANGED heard
           \/ Even(n) /\ Retry
    /\ UNCHANGED <<slot, jobs, writing, owed, mixes, primed, steady>>

\* Mutant: a slot that is being written is read.
LoadSeq_AcceptsOdd ==
    /\ drain # NoBlock /\ drain.seq = NoBlock
    /\ drain' = [drain EXCEPT !.seq = slot[SlotAt(drain.index)].seq]
    /\ UNCHANGED <<slot, jobs, writing, owed, mixes, heard, primed, steady>>

LoadSeq ==
    /\ drain # NoBlock /\ drain.seq = NoBlock
    /\ LET n == slot[SlotAt(drain.index)].seq
       IN  \/ Even(n) /\ drain' = [drain EXCEPT !.seq = n] /\ UNCHANGED heard
           \/ ~Even(n) /\ Retry
    /\ UNCHANGED <<slot, jobs, writing, owed, mixes, primed, steady>>

\* The loads of the payload: the index first, the samples when it is the one asked for.
Wanted == IF "index" \notin DOMAIN drain.got THEN {"index"}
          ELSE IF drain.got["index"] = drain.index THEN Cells \ DOMAIN drain.got
          ELSE {}

Load(f) ==
    /\ drain # NoBlock /\ drain.seq # NoBlock /\ f \in Wanted
    /\ LET s == SlotAt(drain.index)
           v == IF f = "index" THEN slot[s].index ELSE slot[s].samples[f]
       IN  drain' = [drain EXCEPT !.got = [g \in DOMAIN @ \cup {f} |-> IF g = f THEN v ELSE @[g]]]
    /\ UNCHANGED <<slot, jobs, writing, owed, mixes, heard, primed, steady>>

\* The closing load of the sequence number.  It is an acquire, which orders
\* what follows it and not the relaxed loads before it.
LoadSeqAgain ==
    /\ drain # NoBlock /\ drain.seq # NoBlock /\ drain.again = NoBlock
    /\ LoadsInOrder => Wanted = {}
    /\ drain' = [drain EXCEPT !.again = slot[SlotAt(drain.index)].seq]
    /\ UNCHANGED <<slot, jobs, writing, owed, mixes, heard, primed, steady>>

\* Mutant: what was read is not checked against the second sequence number.
Validate_Unchecked ==
    /\ drain # NoBlock /\ drain.seq # NoBlock /\ drain.again # NoBlock /\ Wanted = {}
    /\ Finish(IF drain.got["index"] = drain.index THEN [c \in Cells |-> drain.got[c]] ELSE Silence)
    /\ UNCHANGED <<slot, jobs, writing, owed, mixes, primed, steady>>

Validate ==
    /\ drain # NoBlock /\ drain.seq # NoBlock /\ drain.again # NoBlock /\ Wanted = {}
    /\ \/ drain.again # drain.seq /\ Retry
       \/ /\ drain.again = drain.seq
          /\ Finish(IF drain.got["index"] = drain.index
                    THEN [c \in Cells |-> drain.got[c]]
                    ELSE Silence)
    /\ UNCHANGED <<slot, jobs, writing, owed, mixes, primed, steady>>

-----------------------------------------------------------------------------
Producer ==
    \/ \E p \in Blocks, dir \in {-1, 1} : \E resident \in SUBSET Window(p, dir) :
          Prime(p, dir, resident) \/ Reprime(p, dir, resident)
    \/ \E dirty \in {{i} : i \in Indices} : Invalidate(dirty)
    \/ SetSpatial
    \/ StartJob
    \/ \E f \in Fields : Store(f)
    \/ Close

Drain ==
    \/ \E i \in Indices : Begin(i)
    \/ LoadSeq
    \/ \E f \in Fields : Load(f)
    \/ LoadSeqAgain
    \/ Validate

Next == Producer \/ Drain

Spec == Init /\ [][Next]_vars

-----------------------------------------------------------------------------
(* Properties.                                                             *)

TypeOK ==
    /\ slot \in [Slots -> [seq : Nat, index : Indices \cup {NoBlock},
                           samples : [Cells -> Mixed \cup {NoBlock}]]]
    /\ jobs \in Seq(Job) /\ writing \in Job \cup {NoBlock}
    /\ owed \subseteq Fields
    /\ mixes \in 0..MaxMixes
    /\ heard \in [Cells -> Mixed \cup {NoBlock}] \cup {Silence}
    /\ primed \subseteq Indices
    /\ steady \in BOOLEAN

\* A drain hands out a block of one mix, of one index: the samples of two
\* mixes that met in a slot are never heard together.
WholeBlock == heard # Silence => \E b \in Mixed : heard = [c \in Cells |-> b]

\* Once a prime is through, every block it could mix is in the ring: with a
\* horizon shorter than the ring no block of the window displaces another,
\* on either side of zero and in either direction of play.
PrimeFillsWindow == ProducerIdle => \A i \in primed : slot[SlotAt(i)].index = i

\* The slots keep their types, and a finished prime has filled its window
\* (LookaheadRing::prime, slot_at).
WindowSound == TypeOK /\ PrimeFillsWindow


\* An underrun has a reason: the block was missing, or its slot was written
\* while it was being read.  A block that stood in the ring all along is heard.
UnderrunExcused ==
    [][drain # NoBlock /\ drain' = NoBlock /\ heard' = Silence => ~steady]_vars

\* The sequence numbers make slots written field by field look like slots
\* written at once: a write retires the slot when it opens and places the
\* block when it closes, and a drain reads where its closing load does.
Standing(s) ==
    IF ~Even(slot[s].seq) \/ slot[s].index = NoBlock THEN NoBlock
    ELSE slot[s].samples[CHOOSE c \in Cells : TRUE]
Confirmed == /\ drain # NoBlock /\ drain.seq # NoBlock /\ drain.again = drain.seq
             /\ "index" \in DOMAIN drain.got /\ drain.got["index"] = drain.index
Sound(h)  == IF h = Silence THEN Silence ELSE h[CHOOSE c \in Cells : TRUE]

Atomic == INSTANCE AtomicRing
            WITH Blocks <- Indices, Mixes <- 1..MaxMixes,
                 held <- [s \in Slots |-> Standing(s)],
                 heard <- IF Confirmed THEN Sound(drain.got) ELSE Sound(heard)
ReadsAtOnce == Atomic!Spec
=============================================================================
