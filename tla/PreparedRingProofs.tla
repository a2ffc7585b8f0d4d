------------------------- MODULE PreparedRingProofs -------------------------
(***************************************************************************)
(* The ring of prepared blocks for every capacity, horizon, set of blocks, *)
(* block size and number of attempts: a finished prime fills its window;   *)
(* and where the closing load of the sequence number comes last, a drain   *)
(* hands out whole blocks, an underrun has its reason, and the ring        *)
(* implements AtomicRing.                                                  *)
(***************************************************************************)
EXTENDS PreparedRing, FiniteSetTheorems, TLAPS

(***************************************************************************)
(* The inductive invariant, in parts.                                      *)
(***************************************************************************)
SlotType == [Slots -> [seq : Nat, index : Indices \cup {NoBlock},
                       samples : [Cells -> Mixed \cup {NoBlock}]]]

DrainType ==
    /\ drain \in Reading \cup {NoBlock}
    /\ drain # NoBlock => \A c \in Cells \cap DOMAIN drain.got : drain.got[c] \in Mixed \cup {NoBlock}

\* A sequence number is odd exactly while its slot is the one being written.
OddIsWriting ==
    \A s \in Slots : Even(slot[s].seq) <=> ~(writing # NoBlock /\ Target(writing) = s)

\* A slot that is not being written is empty or holds one mix of its block.
RestingIsWhole ==
    \A s \in Slots : Even(slot[s].seq) /\ slot[s].index # NoBlock =>
        \E m \in 1..MaxMixes : slot[s].samples = [c \in Cells |-> <<slot[s].index, m>>]

\* What the write under way no longer owes has its value in the slot.
StoredSoFar ==
    writing # NoBlock =>
        /\ writing.op = "retire" =>
              "index" \in owed \/ slot[writing.slot].index = NoBlock
        /\ writing.op = "publish" =>
              /\ writing.mix \in 1..MaxMixes
              /\ "index" \in owed \/ slot[SlotAt(writing.index)].index = writing.index
              /\ \A c \in Cells \ owed :
                    slot[SlotAt(writing.index)].samples[c] = <<writing.index, writing.mix>>

\* All that is left to do is to mix blocks once the first one has its turn,
\* and the blocks to mix and the blocks primed displace none of each other.
JobsInOrder ==
    /\ \A k, l \in 1..Len(jobs) : k < l /\ jobs[k].op = "publish" => jobs[l].op = "publish"
    /\ writing # NoBlock /\ writing.op = "publish" =>
          \A k \in 1..Len(jobs) : jobs[k].op = "publish"
    /\ \A k \in 1..Len(jobs), i \in primed :
          jobs[k].op = "publish" /\ SlotAt(jobs[k].index) = SlotAt(i) => jobs[k].index = i
    /\ \A i \in primed :
          writing # NoBlock /\ writing.op = "publish" /\ SlotAt(writing.index) = SlotAt(i) =>
             writing.index = i

\* A primed block is still to be mixed, is being written, or is in its slot
\* with nothing left to retire that slot.
ToMix(i)   == \E k \in 1..Len(jobs) : jobs[k].op = "publish" /\ jobs[k].index = i
Placing(i) == writing # NoBlock /\ writing.op = "publish" /\ writing.index = i
Kept(i)    == /\ slot[SlotAt(i)].index = i
              /\ \A k \in 1..Len(jobs) : jobs[k].op = "retire" => jobs[k].slot # SlotAt(i)
              /\ ~(writing # NoBlock /\ writing.op = "retire" /\ writing.slot = SlotAt(i))
PrimedIsComing == \A i \in primed : ToMix(i) \/ Placing(i) \/ Kept(i)

WindowInv == TypeOK /\ DrainType /\ JobsInOrder /\ StoredSoFar /\ PrimedIsComing

\* The drain's copy is current for as long as the sequence number it opened
\* with stands, and what the closing load confirms is one mix.
Current(s, f) == IF f = "index" THEN slot[s].index ELSE slot[s].samples[f]
ReadIsSound ==
    drain # NoBlock =>
        /\ drain.seq = NoBlock => drain.got = <<>> /\ drain.again = NoBlock
        /\ drain.seq # NoBlock =>
              /\ Even(drain.seq)
              /\ drain.seq <= slot[SlotAt(drain.index)].seq
              /\ drain.seq = slot[SlotAt(drain.index)].seq =>
                    \A f \in DOMAIN drain.got : drain.got[f] = Current(SlotAt(drain.index), f)
        /\ drain.again # NoBlock =>
              /\ Wanted = {}
              /\ drain.again = drain.seq /\ drain.got["index"] = drain.index =>
                    \E b \in Mixed : \A c \in Cells : drain.got[c] = b

\* A slot that has stood since the drain began still holds the block, and
\* every sequence number the drain loaded is the one it has.
SteadyStands ==
    steady /\ drain # NoBlock =>
        /\ Even(slot[SlotAt(drain.index)].seq)
        /\ slot[SlotAt(drain.index)].index = drain.index
        /\ drain.seq # NoBlock => drain.seq = slot[SlotAt(drain.index)].seq
        /\ drain.again # NoBlock => drain.again = slot[SlotAt(drain.index)].seq

Inv ==
    /\ TypeOK /\ DrainType
    /\ OddIsWriting /\ RestingIsWhole /\ StoredSoFar
    /\ ReadIsSound /\ SteadyStands /\ WholeBlock

-----------------------------------------------------------------------------
(* Facts about the constants and the operators.                            *)

\* The ring has a slot, and block indices are integers.
LEMMA RingFacts ==
  /\ Capacity \in Nat \ {0} /\ Indices \subseteq Int /\ NoBlock \notin Indices
  /\ NoBlock \notin Int /\ NoBlock \notin Job /\ NoBlock \notin Mixed
  /\ \A p \in Blocks, dir \in {-1, 1} : Window(p, dir) \subseteq Indices
<1>1. \A p \in Blocks, dir \in {-1, 1} : Window(p, dir) \subseteq Int
  BY RingAssumption DEF Window
<1> QED
  BY <1>1, RingAssumption, MarkerAssumption DEF Indices

\* A slot is the index modulo the capacity, on either side of zero.
LEMMA SlotAtMod == \A i \in Int : SlotAt(i) \in Slots /\ SlotAt(i) = i % Capacity
<1> SUFFICES ASSUME NEW i \in Int PROVE SlotAt(i) \in Slots /\ SlotAt(i) = i % Capacity
  OBVIOUS
<1> DEFINE r == i % Capacity
           q == (r + Capacity) \div Capacity
           t == (r + Capacity) % Capacity
<1>1. Capacity \in Nat /\ Capacity > 0
  BY RingFacts
<1>2. r \in Int /\ 0 <= r /\ r < Capacity
  BY <1>1
<1>3. q \in Int /\ t \in Int /\ 0 <= t /\ t < Capacity /\ r + Capacity = Capacity * q + t
  BY <1>1, <1>2
<1>4. SlotAt(i) = t
  BY DEF SlotAt
<1> HIDE DEF r, q, t
<1>5. q = 1
  <2>1. CASE q <= 0
    <3>1. Capacity * q <= 0
      BY <2>1, <1>1, <1>3
    <3> QED
      BY <3>1, <1>1, <1>2, <1>3
  <2>2. CASE q >= 2
    <3>1. Capacity * q >= Capacity * 2
      BY <2>2, <1>1, <1>3
    <3> QED
      BY <3>1, <1>1, <1>2, <1>3
  <2> QED
    BY <2>1, <2>2, <1>3
<1> QED
  BY <1>1, <1>2, <1>3, <1>4, <1>5 DEF Slots, r

\* Blocks less than a capacity apart share no slot.
LEMMA SlotAtApart ==
  ASSUME NEW i \in Int, NEW j \in Int, SlotAt(i) = SlotAt(j), i - j < Capacity, j - i < Capacity
  PROVE  i = j
<1> DEFINE a == i \div Capacity
           b == j \div Capacity
           r == i % Capacity
<1>1. Capacity \in Nat /\ Capacity > 0
  BY RingFacts
<1>2. r = j % Capacity
  BY SlotAtMod
<1>3. /\ a \in Int /\ b \in Int /\ r \in Int
      /\ i = Capacity * a + r
  BY <1>1
<1>4. j = Capacity * b + r
  BY <1>1, <1>2
<1> HIDE DEF a, b, r
<1>5. a = b
  <2>1. CASE a - b >= 1
    <3>1. Capacity * (a - b) >= Capacity
      BY <2>1, <1>1, <1>3
    <3>2. Capacity * (a - b) = Capacity * a - Capacity * b
      BY <1>1, <1>3
    <3> QED
      BY <3>1, <3>2, <1>1, <1>3, <1>4
  <2>2. CASE b - a >= 1
    <3>1. Capacity * (b - a) >= Capacity
      BY <2>2, <1>1, <1>3
    <3>2. Capacity * (b - a) = Capacity * b - Capacity * a
      BY <1>1, <1>3
    <3> QED
      BY <3>1, <3>2, <1>1, <1>3, <1>4
  <2> QED
    BY <2>1, <2>2, <1>3
<1> QED
  BY <1>3, <1>4, <1>5

\* With a horizon shorter than the ring, no block of a window displaces another.
LEMMA WindowApart ==
  ASSUME NEW p \in Blocks, NEW dir \in {-1, 1}, NEW i \in Window(p, dir), NEW j \in Window(p, dir),
         SlotAt(i) = SlotAt(j)
  PROVE  i = j
<1>1. PICK k \in 0..Depth, l \in 0..Depth : i = p + dir * k /\ j = p + dir * l
  BY DEF Window
<1>2. i \in Int /\ j \in Int /\ i - j < Capacity /\ j - i < Capacity
  BY <1>1, RingAssumption
<1> QED
  BY <1>2, SlotAtApart

\* A step of a sequence number changes its parity.
LEMMA EvenStep == \A n \in Nat : Even(n + 1) <=> ~Even(n)
  BY DEF Even

\* The slots to retire, in the order of SetToSeq, are slots of the set.
LEMMA RetiringsFacts ==
  ASSUME NEW S \in SUBSET Slots
  PROVE  /\ Retirings(S) \in Seq(Job)
         /\ \A k \in 1..Len(Retirings(S)) :
               Retirings(S)[k].op = "retire" /\ Retirings(S)[k].slot \in S
<1>1. IsFiniteSet(S)
  <2>1. IsFiniteSet(Slots)
    BY FS_Interval, RingFacts, 0 \in Int, Capacity - 1 \in Int DEF Slots
  <2> QED
    BY <2>1, FS_Subset
<1>2. Cardinality(S) \in Nat /\ SetToSeq(S) \in [1..Cardinality(S) -> S]
  <2>1. PICK f : f \in Bijection(1..Cardinality(S), S)
    BY <1>1, FS_CardinalityType DEF ExistsBijection
  <2>2. f \in [1..Cardinality(S) -> S] /\ IsInjective(f)
    BY <2>1 DEF Bijection, Injection, IsInjective
  <2> QED
    BY <1>1, <2>2, FS_CardinalityType DEF SetToSeq
<1>3. \A k \in 1..Cardinality(S) : SetToSeq(S)[k] \in S
  BY <1>2
<1> DEFINE n == Cardinality(S)
           at(k) == [op |-> "retire", slot |-> SetToSeq(S)[k]]
<1>4. \A k \in 1..n : at(k) \in Job
  BY <1>3 DEF Job
<1>5. Retirings(S) = [k \in 1..n |-> at(k)]
  BY DEF Retirings
<1>6. \A k \in 1..n : at(k).op = "retire" /\ at(k).slot \in S
  BY <1>3
<1> HIDE DEF n, at
<1>7. Retirings(S) \in Seq(Job) /\ Len(Retirings(S)) = n
  BY <1>2, <1>4, <1>5 DEF n
<1> QED
  BY <1>5, <1>6, <1>7

\* The blocks to mix are the blocks of the window.
LEMMA MixingsFacts ==
  ASSUME NEW p \in Blocks, NEW dir \in {-1, 1}
  PROVE  /\ Mixings(p, dir) \in Seq(Job)
         /\ \A k \in 1..Len(Mixings(p, dir)) :
               Mixings(p, dir)[k].op = "publish" /\ Mixings(p, dir)[k].index \in Window(p, dir)
         /\ \A i \in Window(p, dir) : \E k \in 1..Len(Mixings(p, dir)) : Mixings(p, dir)[k].index = i
<1>1. \A k \in 1..Depth + 1 : p + dir * (k - 1) \in Window(p, dir)
  <2> SUFFICES ASSUME NEW k \in 1..Depth + 1 PROVE k - 1 \in 0..Depth
    BY DEF Window
  <2> QED
    BY RingAssumption
<1> DEFINE at(k) == [op |-> "publish", index |-> p + dir * (k - 1), mix |-> 0]
           n == Depth + 1
<1>2. \A k \in 1..n : at(k) \in Job /\ at(k).op = "publish" /\ at(k).index = p + dir * (k - 1)
  BY <1>1, RingFacts DEF Job
<1>3. \A i \in Window(p, dir) : \E k \in 1..Depth + 1 : p + dir * (k - 1) = i
  <2> SUFFICES ASSUME NEW l \in 0..Depth
               PROVE  \E k \in 1..Depth + 1 : p + dir * (k - 1) = p + dir * l
    BY DEF Window
  <2>1. l + 1 \in 1..Depth + 1 /\ (l + 1) - 1 = l
    BY RingAssumption
  <2> QED
    BY <2>1
<1>4. Mixings(p, dir) = [k \in 1..n |-> at(k)]
  BY DEF Mixings
<1> HIDE DEF at
<1>5. Mixings(p, dir) \in Seq(Job) /\ Len(Mixings(p, dir)) = n
  BY <1>2, <1>4, RingAssumption
<1>6. \A k \in 1..n : Mixings(p, dir)[k].op = "publish" /\ Mixings(p, dir)[k].index = p + dir * (k - 1)
  BY <1>2, <1>4
<1>7. \A k \in 1..n : Mixings(p, dir)[k].index \in Window(p, dir)
  BY <1>1, <1>6
<1>8. \A i \in Window(p, dir) : \E k \in 1..n : Mixings(p, dir)[k].index = i
  BY <1>3, <1>6, Zenon
<1> QED
  BY <1>5, <1>6, <1>7, <1>8

\* A job names a slot, and a block where it publishes one.
LEMMA JobFacts ==
  \A job \in Job : /\ job.op \in {"publish", "retire"} /\ Target(job) \in Slots
                   /\ job.op = "publish" => /\ job.index \in Indices /\ Target(job) = SlotAt(job.index)
                                            /\ SlotAt(job.index) \in Slots
                   /\ job.op = "retire" => job.slot \in Slots /\ Target(job) = job.slot
  BY RingFacts, SlotAtMod DEF Job, Target

\* The next job is a job, and the others keep their order.
LEMMA NextJob ==
  ASSUME jobs \in Seq(Job), jobs # <<>>
  PROVE  /\ Head(jobs) \in Job /\ Head(jobs) = jobs[1] /\ Tail(jobs) \in Seq(Job)
         /\ 1 \in 1..Len(jobs) /\ Len(jobs) \in Nat /\ Len(Tail(jobs)) = Len(jobs) - 1
         /\ \A k \in 1..Len(Tail(jobs)) : k + 1 \in 1..Len(jobs) /\ Tail(jobs)[k] = jobs[k + 1]
         /\ \A k \in 1..Len(jobs) : k = 1 \/ (k - 1 \in 1..Len(Tail(jobs)) /\ Tail(jobs)[k - 1] = jobs[k])
  OBVIOUS

\* Opening and closing a write count the slot's sequence number and nothing else.
LEMMA Bump ==
  ASSUME slot \in SlotType, NEW t \in Slots, slot' = [slot EXCEPT ![t].seq = @ + 1]
  PROVE  /\ slot' \in SlotType
         /\ \A s \in Slots :
               /\ slot'[s].index = slot[s].index /\ slot'[s].samples = slot[s].samples
               /\ slot[s].seq \in Nat
               /\ slot'[s].seq = (IF s = t THEN slot[s].seq + 1 ELSE slot[s].seq)
  BY DEF SlotType

\* Each step of the producer, by the operation or the store it is.
LEMMA ProducerCases ==
  ASSUME Producer
  PROVE  \/ \E p \in Blocks, dir \in {-1, 1} : \E resident \in SUBSET Window(p, dir) :
               Prime(p, dir, resident) \/ Reprime(p, dir, resident)
         \/ \E dirty \in SUBSET Indices : Invalidate(dirty)
         \/ SetSpatial
         \/ StartJob
         \/ \E f \in Fields : Store(f)
         \/ Close
  BY DEF Producer

-----------------------------------------------------------------------------
(* Types.                                                                  *)
LEMMA ProducerTypes ==
  ASSUME TypeOK, StoredSoFar, Producer
  PROVE  TypeOK'
<1>1. ASSUME NEW p \in Blocks, NEW dir \in {-1, 1}, NEW resident \in SUBSET Window(p, dir),
             Prime(p, dir, resident)
      PROVE  TypeOK'
  BY <1>1, MixingsFacts, RingFacts DEF TypeOK, Prime
<1>2. ASSUME NEW p \in Blocks, NEW dir \in {-1, 1}, NEW resident \in SUBSET Window(p, dir),
             Reprime(p, dir, resident)
      PROVE  TypeOK'
  <2>1. jobs' \in Seq(Job)
    BY <1>2, MixingsFacts, RetiringsFacts DEF Reprime, Occupied
  <2> QED
    BY <1>2, <2>1, RingFacts DEF TypeOK, Reprime
<1>3. ASSUME NEW dirty \in SUBSET Indices, Invalidate(dirty)
      PROVE  TypeOK'
  <2>1. jobs' \in Seq(Job)
    BY <1>3, RetiringsFacts DEF Invalidate, Occupied
  <2> QED
    BY <1>3, <2>1 DEF TypeOK, Invalidate
<1>4. ASSUME SetSpatial PROVE TypeOK'
  <2>1. jobs' \in Seq(Job)
    BY <1>4, RetiringsFacts DEF SetSpatial, Occupied
  <2> QED
    BY <1>4, <2>1 DEF TypeOK, SetSpatial
<1>5. ASSUME StartJob PROVE TypeOK'
  <2> DEFINE job == Head(jobs)
  <2>1. job \in Job /\ jobs' \in Seq(Job)
    BY <1>5, NextJob DEF StartJob, TypeOK
  <2>2. CASE UNCHANGED <<slot, writing, owed, mixes, steady>>
    BY <1>5, <2>1, <2>2 DEF StartJob, TypeOK
  <2>3. CASE Open(job) /\ ~UNCHANGED <<slot, writing, owed, mixes, steady>>
    <3>1. slot' \in SlotType
      BY <2>1, <2>3, JobFacts, Bump DEF Open, TypeOK, SlotType
    <3>2. owed' \subseteq Fields /\ steady' \in BOOLEAN
      BY <2>3 DEF Open, Fields
    <3>3. writing' \in Job \cup {NoBlock} /\ mixes' \in 0..MaxMixes
      <4>1. CASE job.op = "retire"
        BY <1>5, <2>1, <2>3, <4>1 DEF StartJob, TypeOK
      <4>2. CASE job.op = "publish"
        <5>1. mixes' = mixes + 1 /\ mixes < MaxMixes /\ writing' = [job EXCEPT !.mix = mixes + 1]
          BY <1>5, <2>3, <4>2 DEF StartJob
        <5>2. job \in [op : {"publish"}, index : Indices, mix : Nat]
          BY <2>1, <4>2 DEF Job
        <5> HIDE DEF job
        <5> QED
          BY <5>1, <5>2, RingAssumption DEF TypeOK, Job
      <4> QED
        BY <2>1, <4>1, <4>2, JobFacts
    <3> QED
      BY <1>5, <2>1, <3>1, <3>2, <3>3 DEF StartJob, TypeOK, SlotType
  <2> QED
    BY <1>5, <2>2, <2>3 DEF StartJob
<1>6. ASSUME NEW f \in Fields, Store(f) PROVE TypeOK'
  <2>1. writing \in Job
    BY <1>6 DEF Store, TypeOK
  <2>2. slot' \in SlotType
    <3>1. CASE writing.op = "retire"
      BY <1>6, <2>1, <3>1, JobFacts DEF Store, TypeOK, SlotType
    <3>2. CASE writing.op = "publish"
      <4>1. writing.index \in Indices /\ SlotAt(writing.index) \in Slots
        BY <2>1, <3>2, JobFacts
      <4>2. <<writing.index, writing.mix>> \in Mixed
        BY <1>6, <3>2, <4>1 DEF Store, StoredSoFar, Mixed
      <4>3. CASE f = "index"
        BY <1>6, <3>2, <4>1, <4>3 DEF Store, TypeOK, SlotType
      <4>4. CASE f \in Cells /\ f # "index"
        BY <1>6, <3>2, <4>1, <4>2, <4>4 DEF Store, TypeOK, SlotType
      <4> QED
        BY <4>3, <4>4 DEF Fields
    <3> QED
      BY <2>1, <3>1, <3>2, JobFacts
  <2> QED
    BY <1>6, <2>2 DEF Store, TypeOK, SlotType
<1>7. ASSUME Close PROVE TypeOK'
  <2>1. writing \in Job /\ Target(writing) \in Slots
    BY <1>7, JobFacts DEF Close, TypeOK
  <2>2. slot' \in SlotType
    BY <1>7, <2>1, Bump DEF Close, TypeOK, SlotType
  <2> QED
    BY <1>7, <2>2 DEF Close, TypeOK, SlotType
<1> QED
  BY <1>1, <1>2, <1>3, <1>4, <1>5, <1>6, <1>7, ProducerCases

LEMMA DrainTypes ==
  ASSUME TypeOK, DrainType, Drain
  PROVE  TypeOK' /\ DrainType'
<1> USE RingFacts
<1> DEFINE Got == UNION {[D -> Loaded] : D \in SUBSET Fields}
<1>1. DOMAIN <<>> = {} /\ <<>> \in Got
  <2>1. <<>> \in [{} -> Loaded] /\ DOMAIN <<>> = {}
    OBVIOUS
  <2> QED
    BY <2>1
<1>2. ASSUME Retry, drain # NoBlock, UNCHANGED <<slot, jobs, writing, owed, mixes, primed, steady>>
      PROVE  TypeOK' /\ DrainType'
  <2>1. drain \in Reading
    BY <1>2 DEF DrainType
  <2>2. CASE drain.attempt = Attempts
    BY <1>2, <2>2 DEF Retry, Finish, TypeOK, DrainType
  <2>3. CASE drain.attempt # Attempts
    <3>1. drain' = [drain EXCEPT !.attempt = @ + 1, !.seq = NoBlock, !.got = <<>>, !.again = NoBlock]
      BY <1>2, <2>3 DEF Retry
    <3>2. drain.attempt + 1 \in 1..Attempts
      BY <2>1, <2>3, RingAssumption DEF Reading
    <3>3. drain' \in Reading /\ DOMAIN drain'.got = {}
      BY <2>1, <3>1, <3>2, <1>1 DEF Reading
    <3> QED
      BY <1>2, <2>3, <3>3 DEF Retry, TypeOK, DrainType
  <2> QED
    BY <2>2, <2>3
<1>3. ASSUME NEW i \in Indices, Begin(i) PROVE TypeOK' /\ DrainType'
  <2>1. 1 \in 1..Attempts
    BY RingAssumption
  <2>2. drain' \in Reading /\ DOMAIN drain'.got = {}
    BY <1>1, <1>3, <2>1 DEF Begin, Reading
  <2> QED
    BY <1>3, <2>2 DEF Begin, TypeOK, DrainType
<1>4. ASSUME LoadSeq PROVE TypeOK' /\ DrainType'
  <2>1. drain \in Reading /\ slot[SlotAt(drain.index)].seq \in Nat
    BY <1>4, SlotAtMod DEF LoadSeq, DrainType, Reading, TypeOK
  <2>2. CASE drain' = [drain EXCEPT !.seq = slot[SlotAt(drain.index)].seq] /\ UNCHANGED heard
    <3>1. drain' \in Reading /\ drain'.got = drain.got
      BY <2>1, <2>2 DEF Reading
    <3> QED
      BY <1>4, <2>2, <3>1 DEF LoadSeq, TypeOK, DrainType
  <2> QED
    BY <1>2, <1>4, <2>2 DEF LoadSeq
<1>5. ASSUME NEW f \in Fields, Load(f) PROVE TypeOK' /\ DrainType'
  <2> DEFINE s == SlotAt(drain.index)
             v == IF f = "index" THEN slot[s].index ELSE slot[s].samples[f]
             got == [g \in DOMAIN drain.got \cup {f} |-> IF g = f THEN v ELSE drain.got[g]]
  <2>1. drain \in Reading /\ s \in Slots
    BY <1>5, SlotAtMod DEF Load, DrainType, Reading
  <2>2. drain' = [drain EXCEPT !.got = got]
    BY <1>5 DEF Load
  <2>3. v \in Loaded /\ (f \in Cells => v \in Mixed \cup {NoBlock})
    BY <2>1, RingAssumption DEF Fields, TypeOK, Loaded
  <2>4. PICK D \in SUBSET Fields : drain.got \in [D -> Loaded]
    BY <2>1 DEF Reading
  <2> HIDE DEF s, v
  <2>5. got \in [D \cup {f} -> Loaded]
    BY <2>3, <2>4
  <2>6. drain' \in Reading /\ drain'.got = got
    BY <2>1, <2>2, <2>5 DEF Reading
  <2>7. \A c \in Cells \cap DOMAIN got : got[c] \in Mixed \cup {NoBlock}
    BY <1>5, <2>3 DEF DrainType, Load
  <2> QED
    BY <1>5, <2>6, <2>7 DEF Load, TypeOK, DrainType
<1>6. ASSUME LoadSeqAgain PROVE TypeOK' /\ DrainType'
  <2>1. drain \in Reading /\ slot[SlotAt(drain.index)].seq \in Nat
    BY <1>6, SlotAtMod DEF LoadSeqAgain, DrainType, Reading, TypeOK
  <2>2. drain' \in Reading /\ drain'.got = drain.got
    BY <1>6, <2>1 DEF LoadSeqAgain, Reading
  <2> QED
    BY <1>6, <2>2 DEF LoadSeqAgain, TypeOK, DrainType
<1>7. ASSUME Validate PROVE TypeOK' /\ DrainType'
  <2>1. CASE Retry
    BY <1>2, <1>7, <2>1 DEF Validate
  <2>2. CASE Finish(IF drain.got["index"] = drain.index THEN [c \in Cells |-> drain.got[c]] ELSE Silence)
    <3>1. drain.got["index"] = drain.index => Cells \subseteq DOMAIN drain.got
      BY <1>7 DEF Validate, Wanted
    <3>2. heard' \in [Cells -> Mixed \cup {NoBlock}] \cup {Silence}
      BY <1>7, <2>2, <3>1 DEF Finish, DrainType, Validate
    <3> QED
      BY <1>7, <2>2, <3>2 DEF Validate, Finish, TypeOK, DrainType
  <2> QED
    BY <1>7, <2>1, <2>2 DEF Validate
<1> QED
  BY <1>3, <1>4, <1>5, <1>6, <1>7 DEF Drain

-----------------------------------------------------------------------------
(* A finished prime has filled its window.                                 *)

\* What the producer's operations leave it to do: slots to retire whose block
\* is not primed or is mixed again, and then blocks of one window.
LEMMA OperationJobs ==
  ASSUME TypeOK, ProducerIdle, PrimedIsComing, UNCHANGED <<slot, writing>>,
         \/ \E p \in Blocks, dir \in {-1, 1} : \E resident \in SUBSET Window(p, dir) :
               Prime(p, dir, resident) \/ Reprime(p, dir, resident)
         \/ \E dirty \in SUBSET Indices : Invalidate(dirty)
         \/ SetSpatial
  PROVE  JobsInOrder' /\ PrimedIsComing'
<1>0. writing = NoBlock /\ jobs = <<>> /\ \A i \in primed : slot[SlotAt(i)].index = i
  BY DEF ProducerIdle, PrimedIsComing, ToMix, Placing, Kept
<1>1. ASSUME NEW p \in Blocks, NEW dir \in {-1, 1}, NEW resident \in SUBSET Window(p, dir),
             NEW S \in SUBSET Slots, primed' = resident,
             jobs' = Retirings(S) \o Mixings(p, dir) \/ jobs' = Mixings(p, dir)
      PROVE  JobsInOrder' /\ PrimedIsComing'
  <2> DEFINE R == IF jobs' = Mixings(p, dir) THEN <<>> ELSE Retirings(S)
             M == Mixings(p, dir)
  <2>1. /\ R \in Seq(Job) /\ Len(R) \in Nat /\ \A k \in 1..Len(R) : R[k].op = "retire"
    BY RetiringsFacts
  <2>2. /\ M \in Seq(Job) /\ Len(M) \in Nat
        /\ \A k \in 1..Len(M) : M[k].op = "publish" /\ M[k].index \in Window(p, dir)
        /\ \A i \in Window(p, dir) : \E k \in 1..Len(M) : M[k].index = i
    BY MixingsFacts
  <2>3. jobs' = R \o M
    BY <1>1, <2>1, <2>2
  <2> HIDE DEF R, M
  <2>4. /\ Len(jobs') = Len(R) + Len(M)
        /\ \A k \in 1..Len(jobs') : IF k <= Len(R) THEN k \in 1..Len(R) /\ jobs'[k] = R[k]
                                  ELSE k - Len(R) \in 1..Len(M) /\ jobs'[k] = M[k - Len(R)]
        /\ \A k \in 1..Len(M) : k + Len(R) \in 1..Len(jobs') /\ jobs'[k + Len(R)] = M[k]
    BY <2>1, <2>2, <2>3
  <2>5. \A k \in 1..Len(jobs') : jobs'[k].op = "publish" <=> k > Len(R)
    <3> SUFFICES ASSUME NEW k \in 1..Len(jobs') PROVE jobs'[k].op = "publish" <=> k > Len(R)
      OBVIOUS
    <3>1. CASE k <= Len(R)
      BY <2>1, <2>4, <3>1
    <3>2. CASE k > Len(R)
      BY <2>1, <2>2, <2>4, <3>2
    <3> QED
      BY <2>1, <2>4, <3>1, <3>2
  <2>6. \A k \in 1..Len(jobs') : jobs'[k].op = "publish" => jobs'[k].index \in Window(p, dir)
    BY <2>1, <2>2, <2>4, <2>5
  <2>7. \A i \in Window(p, dir) : ToMix(i)'
    BY <2>2, <2>4 DEF ToMix
  <2>8. \A i \in resident, k \in 1..Len(jobs') :
           jobs'[k].op = "publish" /\ SlotAt(jobs'[k].index) = SlotAt(i) => jobs'[k].index = i
    BY <2>6, WindowApart
  <2>9. \A k, l \in 1..Len(jobs') : k < l /\ jobs'[k].op = "publish" => jobs'[l].op = "publish"
    BY <2>1, <2>2, <2>4, <2>5
  <2> QED
    BY <1>0, <1>1, <2>7, <2>8, <2>9 DEF JobsInOrder, PrimedIsComing
<1>2. ASSUME NEW S \in SUBSET Slots, jobs' = Retirings(S), primed' \subseteq primed,
             \A s \in S : slot[s].index \notin primed'
      PROVE  JobsInOrder' /\ PrimedIsComing'
  <2>1. \A k \in 1..Len(jobs') : jobs'[k].op = "retire" /\ jobs'[k].slot \in S
    BY <1>2, RetiringsFacts
  <2>2. \A i \in primed' : Kept(i)'
    BY <1>0, <1>2, <2>1 DEF Kept
  <2> QED
    BY <1>0, <2>1, <2>2 DEF JobsInOrder, PrimedIsComing
<1>3. ASSUME NEW p \in Blocks, NEW dir \in {-1, 1}, NEW resident \in SUBSET Window(p, dir),
             Prime(p, dir, resident) \/ Reprime(p, dir, resident)
      PROVE  JobsInOrder' /\ PrimedIsComing'
  BY <1>1, <1>3 DEF Prime, Reprime, Occupied
<1>4. ASSUME NEW dirty \in SUBSET Indices, Invalidate(dirty)
      PROVE  JobsInOrder' /\ PrimedIsComing'
  BY <1>2, <1>4 DEF Invalidate, Occupied
<1>5. ASSUME SetSpatial
      PROVE  JobsInOrder' /\ PrimedIsComing'
  BY <1>2, <1>5 DEF SetSpatial, Occupied
<1> QED
  BY <1>3, <1>4, <1>5

\* Opening a write owes everything, each store pays for one field.
LEMMA StoredStep ==
  ASSUME TypeOK, StoredSoFar, Next
  PROVE  StoredSoFar'
<1>1. CASE StartJob
  <2> DEFINE job == Head(jobs)
  <2>1. job \in Job /\ writing = NoBlock
    BY <1>1, NextJob DEF StartJob, TypeOK
  <2>2. CASE UNCHANGED writing
    BY <2>1, <2>2 DEF StoredSoFar
  <2>3. CASE job.op = "retire" /\ writing' = job /\ Open(job)
    BY <2>1, <2>3 DEF Open, StoredSoFar
  <2>4. CASE job.op = "publish" /\ mixes < MaxMixes /\ writing' = [job EXCEPT !.mix = mixes + 1] /\ Open(job)
    <3>1. job \in [op : {"publish"}, index : Indices, mix : Nat]
      BY <2>1, <2>4 DEF Job
    <3>2. writing'.op = "publish" /\ writing'.mix \in 1..MaxMixes
      BY <2>4, <3>1, RingAssumption DEF TypeOK
    <3>3. owed' = Cells \cup {"index"}
      BY <2>4 DEF Open, Fields
    <3> QED
      BY <3>2, <3>3 DEF StoredSoFar
  <2> QED
    BY <1>1, <2>2, <2>3, <2>4 DEF StartJob
<1>2. ASSUME NEW f \in Fields, Store(f) PROVE StoredSoFar'
  <2>1. writing \in Job /\ writing # NoBlock /\ writing' = writing /\ owed' = owed \ {f}
    BY <1>2 DEF Store, TypeOK
  <2>2. CASE writing.op = "retire"
    BY <1>2, <2>1, <2>2, JobFacts DEF Store, StoredSoFar, TypeOK
  <2>3. CASE writing.op = "publish"
    <3> DEFINE t == SlotAt(writing.index)
    <3>1. t \in Slots /\ writing.mix \in 1..MaxMixes
      BY <2>1, <2>3, JobFacts DEF StoredSoFar
    <3>2. CASE f = "index"
      <4>1. slot' = [slot EXCEPT ![t].index = writing.index]
        BY <1>2, <2>3, <3>2 DEF Store
      <4>2. slot'[t].index = writing.index /\ slot'[t].samples = slot[t].samples
        BY <3>1, <4>1 DEF TypeOK
      <4> QED
        BY <2>1, <2>3, <3>1, <3>2, <4>2, RingAssumption DEF StoredSoFar
    <3>3. CASE f # "index"
      <4>1. slot' = [slot EXCEPT ![t].samples[f] = <<writing.index, writing.mix>>] /\ f \in Cells
        BY <1>2, <2>3, <3>3 DEF Store, Fields
      <4>2. /\ slot'[t].index = slot[t].index
            /\ \A c \in Cells : slot'[t].samples[c] =
                  (IF c = f THEN <<writing.index, writing.mix>> ELSE slot[t].samples[c])
        BY <3>1, <4>1 DEF TypeOK
      <4> QED
        BY <2>1, <2>3, <3>1, <3>3, <4>2 DEF StoredSoFar
    <3> QED
      BY <3>2, <3>3
  <2> QED
    BY <2>1, <2>2, <2>3, JobFacts
<1>3. CASE Close
  BY <1>3 DEF Close, StoredSoFar
<1>4. CASE UNCHANGED <<slot, writing, owed>>
  BY <1>4 DEF StoredSoFar
<1> QED
  BY <1>1, <1>2, <1>3, <1>4
     DEF Next, Producer, Drain, Prime, Reprime, Invalidate, SetSpatial, Begin, LoadSeq, Load, LoadSeqAgain,
         Validate

\* Taking up the next job.
LEMMA StartJobKeepsWindow ==
  ASSUME TypeOK, JobsInOrder, PrimedIsComing, StartJob
  PROVE  JobsInOrder' /\ PrimedIsComing'
<1> DEFINE job == Head(jobs)
<1>1. /\ job \in Job /\ job = jobs[1] /\ writing = NoBlock /\ jobs' = Tail(jobs) /\ primed' = primed
      /\ 1 \in 1..Len(jobs) /\ Len(jobs) \in Nat /\ Len(jobs') = Len(jobs) - 1
      /\ \A k \in 1..Len(jobs') : k + 1 \in 1..Len(jobs) /\ jobs'[k] = jobs[k + 1]
      /\ \A k \in 1..Len(jobs) : k = 1 \/ (k - 1 \in 1..Len(jobs') /\ jobs'[k - 1] = jobs[k])
  BY NextJob DEF StartJob, TypeOK
<1>2. \A s \in Slots : slot'[s].index = slot[s].index
  <2>1. CASE UNCHANGED slot
    BY <2>1
  <2>2. CASE Open(job)
    BY <1>1, <2>2, JobFacts, Bump DEF Open, TypeOK, SlotType
  <2> QED
    BY <2>1, <2>2 DEF StartJob
<1>3. /\ \A k, l \in 1..Len(jobs') : k < l /\ jobs'[k].op = "publish" => jobs'[l].op = "publish"
      /\ \A k \in 1..Len(jobs'), i \in primed :
           jobs'[k].op = "publish" /\ SlotAt(jobs'[k].index) = SlotAt(i) => jobs'[k].index = i
      /\ job.op = "publish" => \A k \in 1..Len(jobs') : jobs'[k].op = "publish"
      /\ job.op = "publish" => \A i \in primed : SlotAt(job.index) = SlotAt(i) => job.index = i
  BY <1>1 DEF JobsInOrder
<1>4. \A i \in primed : SlotAt(i) \in Slots
  BY RingFacts, SlotAtMod DEF TypeOK
<1>5. \A i \in primed : ToMix(i) => ToMix(i)' \/ (job.op = "publish" /\ job.index = i)
  BY <1>1 DEF ToMix
<1>6. \A i \in primed : Kept(i) =>
         /\ slot'[SlotAt(i)].index = i
         /\ \A k \in 1..Len(jobs') : jobs'[k].op = "retire" => jobs'[k].slot # SlotAt(i)
         /\ job.op = "retire" => job.slot # SlotAt(i)
  BY <1>1, <1>2, <1>4 DEF Kept
<1>7. CASE job.op = "retire"
  <2>1. writing' = job
    BY <1>7 DEF StartJob
  <2> QED
    BY <1>1, <1>3, <1>5, <1>6, <1>7, <2>1 DEF JobsInOrder, PrimedIsComing, Placing, Kept
<1>8. CASE job.op = "publish" /\ UNCHANGED <<slot, writing>> /\
           (job.index \notin primed \/ slot[SlotAt(job.index)].index = job.index)
  <2>1. JobsInOrder'
    BY <1>1, <1>3, <1>8 DEF JobsInOrder
  <2>2. \A i \in primed : job.index = i => Kept(i)'
    BY <1>1, <1>3, <1>8 DEF Kept
  <2>3. \A i \in primed : Kept(i) => Kept(i)'
    BY <1>1, <1>6, <1>8 DEF Kept
  <2> QED
    BY <1>1, <1>5, <2>1, <2>2, <2>3 DEF PrimedIsComing, Placing
<1>9. CASE job.op = "publish" /\ writing' = [job EXCEPT !.mix = mixes + 1]
  <2>1. writing'.op = "publish" /\ writing'.index = job.index
    BY <1>1, <1>9 DEF Job
  <2>2. JobsInOrder'
    BY <1>1, <1>3, <1>9, <2>1 DEF JobsInOrder
  <2>3. writing' # NoBlock
    <3>1. job \in [op : {"publish"}, index : Indices, mix : Nat]
      BY <1>1, <1>9 DEF Job
    <3>2. writing' \in [op : {"publish"}, index : Indices, mix : Nat]
      BY <1>9, <3>1, RingAssumption DEF TypeOK
    <3> QED
      BY <3>2, RingFacts DEF Job
  <2>4. \A i \in primed : Kept(i) => Kept(i)'
    BY <1>6, <2>1 DEF Kept
  <2>5. \A i \in primed : job.index = i => Placing(i)'
    BY <2>1, <2>3 DEF Placing
  <2> QED
    BY <1>1, <1>5, <2>2, <2>4, <2>5 DEF PrimedIsComing, Placing
<1> QED
  BY <1>1, <1>7, <1>8, <1>9, JobFacts DEF StartJob

\* Storing a field.
LEMMA StoreKeepsWindow ==
  ASSUME TypeOK, JobsInOrder, PrimedIsComing, NEW f \in Fields, Store(f)
  PROVE  JobsInOrder' /\ PrimedIsComing'
<1>1. writing \in Job /\ writing # NoBlock /\ UNCHANGED <<jobs, writing, primed>>
  BY DEF Store, TypeOK
<1>2. JobsInOrder'
  BY <1>1 DEF JobsInOrder
<1>3. \A i \in primed : (ToMix(i) => ToMix(i)') /\ (Placing(i) => Placing(i)')
  BY <1>1 DEF ToMix, Placing
<1>4. ASSUME NEW i \in primed, Kept(i) PROVE slot'[SlotAt(i)].index = i
  <2>1. SlotAt(i) \in Slots
    BY RingFacts, SlotAtMod DEF TypeOK
  <2>2. CASE writing.op = "retire"
    BY <1>1, <1>4, <2>1, <2>2, JobFacts DEF Store, Kept, TypeOK
  <2>3. CASE writing.op = "publish"
    <3>1. SlotAt(writing.index) \in Slots
      BY <1>1, <2>3, JobFacts
    <3>2. SlotAt(writing.index) = SlotAt(i) => writing.index = i
      BY <1>1, <2>3 DEF JobsInOrder
    <3>3. CASE f = "index"
      BY <1>4, <2>1, <2>3, <3>1, <3>2, <3>3 DEF Store, Kept, TypeOK
    <3>4. CASE f # "index"
      BY <1>4, <2>1, <2>3, <3>1, <3>4 DEF Store, Kept, TypeOK
    <3> QED
      BY <3>3, <3>4
  <2> QED
    BY <1>1, <2>2, <2>3, JobFacts
<1>5. \A i \in primed : Kept(i) => Kept(i)'
  BY <1>1, <1>4 DEF Kept
<1> QED
  BY <1>1, <1>2, <1>3, <1>5 DEF PrimedIsComing

\* Closing the write of a primed block puts it in its slot for good.
LEMMA CloseKeepsWindow ==
  ASSUME TypeOK, JobsInOrder, StoredSoFar, PrimedIsComing, Close
  PROVE  JobsInOrder' /\ PrimedIsComing'
<1>1. /\ writing \in Job /\ writing # NoBlock /\ writing' = NoBlock /\ owed = {}
      /\ UNCHANGED <<jobs, primed>>
  BY DEF Close, TypeOK
<1>2. \A s \in Slots : slot'[s].index = slot[s].index
  BY <1>1, JobFacts, Bump DEF Close, TypeOK, SlotType
<1>3. JobsInOrder'
  BY <1>1 DEF JobsInOrder
<1>4. ASSUME NEW i \in primed PROVE (ToMix(i) \/ Placing(i) \/ Kept(i))'
  <2>1. SlotAt(i) \in Slots
    BY RingFacts, SlotAtMod DEF TypeOK
  <2>2. CASE ToMix(i)
    BY <1>1, <2>2 DEF ToMix
  <2>3. CASE Placing(i)
    <3>1. slot[SlotAt(i)].index = i
      BY <1>1, <2>3 DEF Placing, StoredSoFar
    <3>2. \A k \in 1..Len(jobs) : jobs[k].op = "publish"
      BY <2>3 DEF Placing, JobsInOrder
    <3> QED
      BY <1>1, <1>2, <2>1, <3>1, <3>2 DEF Kept
  <2>4. CASE Kept(i)
    BY <1>1, <1>2, <2>1, <2>4 DEF Kept
  <2> QED
    BY <2>2, <2>3, <2>4 DEF PrimedIsComing
<1> QED
  BY <1>1, <1>3, <1>4 DEF PrimedIsComing

LEMMA WindowInit == Init => WindowInv
<1> SUFFICES ASSUME Init PROVE WindowInv
  OBVIOUS
<1>1. slot \in SlotType
  BY DEF Init, SlotType
<1>2. TypeOK /\ DrainType
  <2>1. jobs \in Seq(Job) /\ mixes \in 0..MaxMixes
    BY RingAssumption DEF Init
  <2>2. DrainType
    BY DEF Init, DrainType
  <2> QED
    BY <1>1, <2>1, <2>2 DEF Init, TypeOK, SlotType
<1> QED
  BY <1>2 DEF Init, WindowInv, JobsInOrder, StoredSoFar, PrimedIsComing

LEMMA WindowStep == WindowInv /\ [Next]_vars => WindowInv'
<1> SUFFICES ASSUME WindowInv, [Next]_vars PROVE WindowInv'
  OBVIOUS
<1> USE DEF WindowInv
<1>1. CASE UNCHANGED vars
  BY <1>1 DEF vars, TypeOK, DrainType, JobsInOrder, StoredSoFar, PrimedIsComing, ToMix, Placing, Kept
<1>2. CASE Producer
  <2>1. TypeOK' /\ StoredSoFar'
    BY <1>2, ProducerTypes, StoredStep DEF Next
  <2>2. DrainType'
    BY <1>2 DEF Producer, Prime, Reprime, Invalidate, SetSpatial, StartJob, Store, Close, DrainType
  <2>3. JobsInOrder' /\ PrimedIsComing'
    <3>1. CASE StartJob
      BY <3>1, StartJobKeepsWindow
    <3>2. CASE \E f \in Fields : Store(f)
      BY <3>2, StoreKeepsWindow
    <3>3. CASE Close
      BY <3>3, CloseKeepsWindow
    <3>4. CASE \/ \E p \in Blocks, dir \in {-1, 1} : \E resident \in SUBSET Window(p, dir) :
                     Prime(p, dir, resident) \/ Reprime(p, dir, resident)
               \/ \E dirty \in SUBSET Indices : Invalidate(dirty)
               \/ SetSpatial
      <4>1. ProducerIdle /\ UNCHANGED <<slot, writing>>
        BY <3>4 DEF Prime, Reprime, Invalidate, SetSpatial
      <4> QED
        BY <3>4, <4>1, OperationJobs
    <3> QED
      BY <1>2, <3>1, <3>2, <3>3, <3>4, ProducerCases
  <2> QED
    BY <2>1, <2>2, <2>3
<1>3. CASE Drain
  <2>1. TypeOK' /\ DrainType' /\ StoredSoFar'
    BY <1>3, DrainTypes, StoredStep DEF Next
  <2>2. UNCHANGED <<slot, jobs, writing, primed>>
    BY <1>3 DEF Drain, Begin, LoadSeq, Load, LoadSeqAgain, Validate
  <2> QED
    BY <2>1, <2>2 DEF JobsInOrder, PrimedIsComing, ToMix, Placing, Kept
<1> QED
  BY <1>1, <1>2, <1>3 DEF Next

\* Every state is of its type, and a finished prime has filled its window, on either
\* side of zero and in either direction of play (LookaheadRing::prime, slot_at).
THEOREM WindowFilled == Spec => []WindowSound
<1>1. WindowInv => WindowSound
  BY DEF WindowInv, WindowSound, PrimeFillsWindow, ProducerIdle, PrimedIsComing, ToMix, Placing, Kept
<1> QED
  BY <1>1, WindowInit, WindowStep, PTL DEF Spec

-----------------------------------------------------------------------------
(* The slots look whole to a reader that sees the same even number twice.  *)

\* A job is skipped, or it opens the write of its slot.
LEMMA StartJobEffect ==
  ASSUME TypeOK, StartJob, ~UNCHANGED <<slot, writing, owed, mixes, steady>>
  PROVE  /\ writing = NoBlock /\ writing' \in Job /\ writing' # NoBlock /\ Target(writing') \in Slots
         /\ slot' = [slot EXCEPT ![Target(writing')].seq = @ + 1]
         /\ steady' = (steady /\ drain # NoBlock /\ Target(writing') # SlotAt(drain.index))
         /\ drain' = drain /\ heard' = heard
<1> DEFINE job == Head(jobs)
<1>1. job \in Job /\ writing = NoBlock /\ drain' = drain /\ heard' = heard
  BY NextJob DEF StartJob, TypeOK
<1>2. Open(job)
  BY DEF StartJob
<1>3. writing' \in Job /\ Target(writing') = Target(job)
  <2>1. CASE job.op = "retire"
    BY <1>1, <2>1 DEF StartJob
  <2>2. CASE job.op = "publish"
    <3>1. mixes' = mixes + 1 /\ mixes < MaxMixes /\ writing' = [job EXCEPT !.mix = mixes + 1]
      BY <2>2 DEF StartJob
    <3>2. job \in [op : {"publish"}, index : Indices, mix : Nat]
      BY <1>1, <2>2 DEF Job
    <3> HIDE DEF job
    <3>3. /\ writing' \in [op : {"publish"}, index : Indices, mix : Nat]
          /\ writing'.index = job.index /\ writing'.op = "publish"
      BY <3>1, <3>2, RingAssumption DEF TypeOK
    <3> QED
      BY <2>2, <3>3 DEF Job, Target
  <2> QED
    BY <1>1, <2>1, <2>2, JobFacts
<1> QED
  BY <1>1, <1>2, <1>3, JobFacts, RingFacts DEF Open

\* A store changes the slot being written, and not its sequence number.
LEMMA StoreEffect ==
  ASSUME TypeOK, NEW f \in Fields, Store(f)
  PROVE  /\ writing \in Job /\ writing # NoBlock /\ Target(writing) \in Slots
         /\ \A s \in Slots : slot'[s].seq = slot[s].seq /\ (s # Target(writing) => slot'[s] = slot[s])
         /\ UNCHANGED <<writing, drain, heard, steady>>
<1>1. /\ writing \in Job /\ writing # NoBlock /\ Target(writing) \in Slots
      /\ UNCHANGED <<writing, drain, heard, steady>>
  BY JobFacts DEF Store, TypeOK
<1>2. CASE writing.op = "retire"
  BY <1>1, <1>2, JobFacts DEF Store, TypeOK
<1>3. CASE writing.op = "publish"
  <2>1. CASE f = "index"
    BY <1>1, <1>3, <2>1, JobFacts DEF Store, TypeOK
  <2>2. CASE f # "index"
    BY <1>1, <1>3, <2>2, JobFacts DEF Store, TypeOK
  <2> QED
    BY <2>1, <2>2
<1> QED
  BY <1>1, <1>2, <1>3, JobFacts

\* Closing a write makes its number even.
LEMMA CloseEffect ==
  ASSUME TypeOK, Close
  PROVE  /\ writing \in Job /\ writing # NoBlock /\ Target(writing) \in Slots
         /\ slot' = [slot EXCEPT ![Target(writing)].seq = @ + 1]
         /\ writing' = NoBlock /\ UNCHANGED <<drain, heard, steady>>
  BY JobFacts DEF Close, TypeOK

\* The producer's steps keep the slots at rest whole.
LEMMA SlotsStep ==
  ASSUME TypeOK, OddIsWriting, RestingIsWhole, StoredSoFar, Next
  PROVE  OddIsWriting' /\ RestingIsWhole'
<1>1. CASE UNCHANGED <<slot, writing>>
  BY <1>1 DEF OddIsWriting, RestingIsWhole
<1>2. CASE StartJob /\ ~UNCHANGED <<slot, writing, owed, mixes, steady>>
  <2> DEFINE t == Target(writing')
  <2>1. /\ writing = NoBlock /\ writing' # NoBlock /\ t \in Slots
        /\ slot' = [slot EXCEPT ![t].seq = @ + 1]
    BY <1>2, StartJobEffect
  <2> HIDE DEF t
  <2>2. \A s \in Slots : /\ slot'[s].index = slot[s].index /\ slot'[s].samples = slot[s].samples
                         /\ slot[s].seq \in Nat
                         /\ slot'[s].seq = (IF s = t THEN slot[s].seq + 1 ELSE slot[s].seq)
    BY <2>1, Bump DEF TypeOK, SlotType
  <2>3. \A s \in Slots : Even(slot[s].seq)
    BY <2>1 DEF OddIsWriting
  <2>4. \A s \in Slots : Even(slot'[s].seq) <=> s # t
    BY <2>1, <2>2, <2>3, EvenStep
  <2>5. OddIsWriting'
    BY <2>1, <2>4 DEF OddIsWriting, t
  <2>6. RestingIsWhole'
    BY <2>2, <2>3, <2>4 DEF RestingIsWhole
  <2> QED
    BY <2>5, <2>6
<1>3. ASSUME NEW f \in Fields, Store(f) PROVE OddIsWriting' /\ RestingIsWhole'
  <2>1. /\ writing # NoBlock /\ Target(writing) \in Slots /\ writing' = writing
        /\ \A s \in Slots : slot'[s].seq = slot[s].seq /\ (s # Target(writing) => slot'[s] = slot[s])
    BY <1>3, StoreEffect
  <2>2. OddIsWriting'
    BY <2>1 DEF OddIsWriting
  <2>3. RestingIsWhole'
    BY <2>1 DEF OddIsWriting, RestingIsWhole
  <2> QED
    BY <2>2, <2>3
<1>4. CASE Close
  <2> DEFINE t == Target(writing)
  <2>1. /\ writing \in Job /\ writing # NoBlock /\ t \in Slots /\ writing' = NoBlock /\ owed = {}
        /\ slot' = [slot EXCEPT ![t].seq = @ + 1]
    BY <1>4, CloseEffect DEF Close
  <2>2. \A s \in Slots : /\ slot'[s].index = slot[s].index /\ slot'[s].samples = slot[s].samples
                         /\ slot[s].seq \in Nat
                         /\ slot'[s].seq = (IF s = t THEN slot[s].seq + 1 ELSE slot[s].seq)
    BY <2>1, Bump DEF TypeOK, SlotType
  <2>3. \A s \in Slots : Even(slot[s].seq) <=> s # t
    BY <2>1 DEF OddIsWriting
  <2>4. \A s \in Slots : Even(slot'[s].seq)
    BY <2>2, <2>3, EvenStep
  <2>5. OddIsWriting'
    BY <2>1, <2>4 DEF OddIsWriting
  <2>6. slot[t].index # NoBlock =>
          \E m \in 1..MaxMixes : slot[t].samples = [c \in Cells |-> <<slot[t].index, m>>]
    <3>1. CASE writing.op = "retire"
      BY <2>1, <3>1, JobFacts DEF StoredSoFar
    <3>2. CASE writing.op = "publish"
      <4>1. /\ writing.mix \in 1..MaxMixes /\ t = SlotAt(writing.index) /\ slot[t].index = writing.index
            /\ \A c \in Cells : slot[t].samples[c] = <<writing.index, writing.mix>>
        BY <2>1, <3>2, JobFacts DEF StoredSoFar
      <4>2. slot[t].samples \in [Cells -> Mixed \cup {NoBlock}]
        BY <2>1 DEF TypeOK
      <4> HIDE DEF t
      <4>3. slot[t].samples = [c \in Cells |-> <<slot[t].index, writing.mix>>]
        BY <4>1, <4>2
      <4> QED
        BY <4>1, <4>3
    <3> QED
      BY <2>1, <3>1, <3>2, JobFacts
  <2> HIDE DEF t
  <2>7. RestingIsWhole'
    BY <2>2, <2>3, <2>6 DEF RestingIsWhole
  <2> QED
    BY <2>5, <2>7
<1> QED
  BY <1>1, <1>2, <1>3, <1>4
     DEF Next, Producer, Drain, Prime, Reprime, Invalidate, SetSpatial, Begin, LoadSeq, Load, LoadSeqAgain,
         Validate

\* The producer cannot deceive a drain under way: to change what it read, it
\* has to move the sequence number first.
LEMMA ProducerKeepsReads ==
  ASSUME Inv, Producer
  PROVE  ReadIsSound' /\ SteadyStands' /\ WholeBlock'
<1> USE DEF Inv
<1> DEFINE s == SlotAt(drain.index)
<1>1. UNCHANGED <<drain, heard>>
  BY DEF Producer, Prime, Reprime, Invalidate, SetSpatial, StartJob, Store, Close
<1>2. drain # NoBlock => s \in Slots /\ drain.seq \in Nat \cup {NoBlock}
  BY SlotAtMod, RingFacts DEF DrainType, Reading
<1>3. WholeBlock'
  BY <1>1 DEF WholeBlock
<1>4. CASE UNCHANGED <<slot, steady>>
  BY <1>1, <1>3, <1>4 DEF ReadIsSound, SteadyStands, Wanted, Current
<1>5. ASSUME NEW t \in Slots, slot' = [slot EXCEPT ![t].seq = @ + 1],
             steady' /\ drain # NoBlock => steady /\ s # t
      PROVE  ReadIsSound' /\ SteadyStands'
  <2>1. \A r \in Slots : /\ slot'[r].index = slot[r].index /\ slot'[r].samples = slot[r].samples
                         /\ slot[r].seq \in Nat
                         /\ slot'[r].seq = (IF r = t THEN slot[r].seq + 1 ELSE slot[r].seq)
    BY <1>5, Bump DEF TypeOK, SlotType
  <2>2. SteadyStands'
    BY <1>1, <1>2, <1>5, <2>1 DEF SteadyStands
  <2>3. ASSUME drain # NoBlock, drain.seq # NoBlock
        PROVE  /\ drain.seq <= slot'[s].seq
               /\ drain.seq = slot'[s].seq => drain.seq = slot[s].seq
    BY <1>2, <2>1, <2>3 DEF ReadIsSound
  <2>4. ReadIsSound'
    BY <1>1, <1>2, <2>1, <2>3 DEF ReadIsSound, Wanted, Current
  <2> QED
    BY <2>2, <2>4
<1>6. CASE StartJob /\ ~UNCHANGED <<slot, writing, owed, mixes, steady>>
  BY <1>3, <1>5, <1>6, StartJobEffect
<1>7. ASSUME NEW f \in Fields, Store(f) PROVE ReadIsSound' /\ SteadyStands'
  <2>1. /\ writing # NoBlock /\ Target(writing) \in Slots /\ UNCHANGED steady
        /\ \A r \in Slots : slot'[r].seq = slot[r].seq /\ (r # Target(writing) => slot'[r] = slot[r])
    BY <1>7, StoreEffect
  <2>2. ~Even(slot[Target(writing)].seq)
    BY <2>1 DEF OddIsWriting
  <2>3. SteadyStands'
    BY <1>1, <1>2, <2>1, <2>2 DEF SteadyStands
  <2>4. drain # NoBlock /\ drain.seq # NoBlock /\ drain.seq = slot[s].seq => slot'[s] = slot[s]
    BY <1>2, <2>1, <2>2 DEF ReadIsSound
  <2>5. ReadIsSound'
    BY <1>1, <1>2, <2>1, <2>4 DEF ReadIsSound, Wanted, Current
  <2> QED
    BY <2>3, <2>5
<1>8. CASE Close
  <2>1. /\ writing # NoBlock /\ Target(writing) \in Slots /\ UNCHANGED steady
        /\ slot' = [slot EXCEPT ![Target(writing)].seq = @ + 1]
    BY <1>8, CloseEffect
  <2>2. steady /\ drain # NoBlock => s # Target(writing)
    BY <1>2, <2>1 DEF OddIsWriting, SteadyStands
  <2> QED
    BY <1>3, <1>5, <2>1, <2>2
<1> QED
  BY <1>3, <1>4, <1>6, <1>7, <1>8
     DEF Producer, Prime, Reprime, Invalidate, SetSpatial, StartJob

\* The drain's own steps.
LEMMA DrainKeepsReads ==
  ASSUME Inv, LoadsInOrder, Drain
  PROVE  ReadIsSound' /\ SteadyStands' /\ WholeBlock'
<1> USE DEF Inv
<1> DEFINE s == SlotAt(drain.index)
<1>1. UNCHANGED <<slot, writing>>
  BY DEF Drain, Begin, LoadSeq, Load, LoadSeqAgain, Validate
<1>2. drain # NoBlock => /\ drain \in Reading /\ s \in Slots /\ slot[s].seq \in Nat
                         /\ drain.seq \in Nat \cup {NoBlock} /\ drain.again \in Nat \cup {NoBlock}
  BY SlotAtMod, RingFacts DEF DrainType, Reading, TypeOK
<1>3. NoBlock \notin Nat
  BY RingFacts
<1>4. ASSUME drain # NoBlock, Retry, ~steady, UNCHANGED steady
      PROVE  ReadIsSound' /\ SteadyStands' /\ WholeBlock'
  <2>1. SteadyStands'
    BY <1>4 DEF SteadyStands
  <2>2. CASE drain.attempt = Attempts
    BY <1>4, <2>1, <2>2 DEF Retry, Finish, ReadIsSound, WholeBlock
  <2>3. CASE drain.attempt # Attempts
    <3>1. drain' = [drain EXCEPT !.attempt = @ + 1, !.seq = NoBlock, !.got = <<>>, !.again = NoBlock]
          /\ UNCHANGED heard
      BY <1>4, <2>3 DEF Retry
    <3>2. drain'.seq = NoBlock /\ drain'.got = <<>> /\ drain'.again = NoBlock
      BY <1>2, <1>4, <3>1 DEF Reading
    <3> QED
      BY <2>1, <3>1, <3>2 DEF ReadIsSound, WholeBlock
  <2> QED
    BY <2>2, <2>3
<1>5. ASSUME NEW i \in Indices, Begin(i) PROVE ReadIsSound' /\ SteadyStands' /\ WholeBlock'
  <2>1. drain'.index = i /\ drain'.seq = NoBlock /\ drain'.got = <<>> /\ drain'.again = NoBlock
    BY <1>5 DEF Begin
  <2> QED
    BY <1>1, <1>5, <2>1 DEF Begin, Untouched, ReadIsSound, SteadyStands, WholeBlock
<1>6. ASSUME LoadSeq PROVE ReadIsSound' /\ SteadyStands' /\ WholeBlock'
  <2>1. drain # NoBlock /\ drain.seq = NoBlock /\ UNCHANGED steady
    BY <1>6 DEF LoadSeq
  <2>2. drain.got = <<>> /\ drain.again = NoBlock
    BY <2>1 DEF ReadIsSound
  <2>3. CASE Even(slot[s].seq) /\ drain' = [drain EXCEPT !.seq = slot[s].seq] /\ UNCHANGED heard
    <3>1. /\ drain'.index = drain.index /\ drain'.seq = slot[s].seq /\ drain'.got = <<>>
          /\ drain'.again = NoBlock
      BY <1>2, <2>1, <2>2, <2>3 DEF Reading
    <3>2. DOMAIN drain'.got = {}
      BY <3>1
    <3>3. ReadIsSound'
      BY <1>1, <1>2, <1>3, <2>1, <2>3, <3>1, <3>2 DEF ReadIsSound
    <3> QED
      BY <1>1, <2>1, <2>3, <3>1, <3>3 DEF SteadyStands, WholeBlock
  <2>4. CASE ~Even(slot[s].seq) /\ Retry
    BY <1>4, <2>1, <2>4 DEF SteadyStands
  <2> QED
    BY <1>6, <2>3, <2>4 DEF LoadSeq
<1>7. ASSUME NEW f \in Fields, Load(f) PROVE ReadIsSound' /\ SteadyStands' /\ WholeBlock'
  <2> DEFINE v == Current(s, f)
             got == [g \in DOMAIN drain.got \cup {f} |-> IF g = f THEN v ELSE drain.got[g]]
  <2>1. /\ drain # NoBlock /\ drain.seq # NoBlock /\ UNCHANGED <<steady, heard>>
        /\ drain' = [drain EXCEPT !.got = got] /\ f \in Wanted
    BY <1>7 DEF Load, Current
  <2>2. /\ drain'.index = drain.index /\ drain'.seq = drain.seq /\ drain'.got = got
        /\ drain'.again = drain.again
    BY <1>2, <2>1 DEF Reading
  <2>3. drain.again = NoBlock
    BY <2>1 DEF ReadIsSound
  <2>4. drain.seq = slot[s].seq => \A g \in DOMAIN got : got[g] = Current(s, g)
    BY <2>1 DEF ReadIsSound
  <2> HIDE DEF v, got
  <2>5. ReadIsSound'
    BY <1>1, <2>1, <2>2, <2>3, <2>4 DEF ReadIsSound, Current
  <2> QED
    BY <1>1, <2>1, <2>2, <2>5 DEF SteadyStands, WholeBlock
<1>8. ASSUME LoadSeqAgain PROVE ReadIsSound' /\ SteadyStands' /\ WholeBlock'
  <2>1. /\ drain # NoBlock /\ drain.seq # NoBlock /\ UNCHANGED <<steady, heard>> /\ Wanted = {}
        /\ drain' = [drain EXCEPT !.again = slot[s].seq]
    BY <1>8 DEF LoadSeqAgain
  <2>2. /\ drain'.index = drain.index /\ drain'.seq = drain.seq /\ drain'.got = drain.got
        /\ drain'.again = slot[s].seq
    BY <1>2, <2>1 DEF Reading
  <2>3. Wanted' = {}
    BY <2>1, <2>2 DEF Wanted
  <2>4. ASSUME drain.seq = slot[s].seq, drain.got["index"] = drain.index
        PROVE  \E b \in Mixed : \A c \in Cells : drain.got[c] = b
    <3>1. /\ "index" \in DOMAIN drain.got /\ Cells \subseteq DOMAIN drain.got
          /\ \A f \in DOMAIN drain.got : drain.got[f] = Current(s, f)
      BY <2>1, <2>4 DEF Wanted, ReadIsSound
    <3>2. slot[s].index = drain.index /\ drain.index \in Indices
      BY <1>2, <2>1, <2>4, <3>1 DEF Current, Reading
    <3>3. Even(slot[s].seq)
      BY <2>1, <2>4 DEF ReadIsSound
    <3>4. PICK m \in 1..MaxMixes : slot[s].samples = [c \in Cells |-> <<drain.index, m>>]
      BY <1>2, <2>1, <3>2, <3>3, RingFacts DEF RestingIsWhole
    <3>5. \A c \in Cells : drain.got[c] = <<drain.index, m>>
      BY <3>1, <3>4, RingAssumption DEF Current
    <3>6. <<drain.index, m>> \in Mixed
      BY <3>2 DEF Mixed
    <3> QED
      BY <3>5, <3>6
  <2>5. ReadIsSound'
    BY <1>1, <2>1, <2>2, <2>3, <2>4 DEF ReadIsSound, Current
  <2> QED
    BY <1>1, <2>1, <2>2, <2>5 DEF SteadyStands, WholeBlock
<1>9. ASSUME Validate PROVE ReadIsSound' /\ SteadyStands' /\ WholeBlock'
  <2>1. drain # NoBlock /\ drain.seq # NoBlock /\ drain.again # NoBlock /\ UNCHANGED steady
    BY <1>9 DEF Validate
  <2>2. CASE drain.again # drain.seq /\ Retry
    BY <1>4, <2>1, <2>2 DEF SteadyStands
  <2>3. CASE /\ drain.again = drain.seq
             /\ Finish(IF drain.got["index"] = drain.index THEN [c \in Cells |-> drain.got[c]] ELSE Silence)
    <3>1. WholeBlock'
      <4>1. CASE drain.got["index"] = drain.index
        <5>1. PICK b \in Mixed : \A c \in Cells : drain.got[c] = b
          BY <2>1, <2>3, <4>1 DEF ReadIsSound
        <5>2. heard' = [c \in Cells |-> b]
          BY <2>3, <4>1, <5>1 DEF Finish
        <5> QED
          BY <5>2 DEF WholeBlock
      <4>2. CASE drain.got["index"] # drain.index
        BY <2>3, <4>2 DEF Finish, WholeBlock
      <4> QED
        BY <4>1, <4>2
    <3> QED
      BY <2>3, <3>1 DEF Finish, ReadIsSound, SteadyStands
  <2> QED
    BY <1>9, <2>2, <2>3 DEF Validate
<1> QED
  BY <1>5, <1>6, <1>7, <1>8, <1>9 DEF Drain

LEMMA InvInit == Init => Inv
<1> SUFFICES ASSUME Init PROVE Inv
  OBVIOUS
<1>1. TypeOK /\ DrainType /\ StoredSoFar
  BY WindowInit DEF WindowInv
<1>2. \A s \in Slots : slot[s].seq = 0 /\ slot[s].index = NoBlock
  BY DEF Init
<1>3. Even(0)
  BY DEF Even
<1> QED
  BY <1>1, <1>2, <1>3 DEF Init, Inv, OddIsWriting, RestingIsWhole, ReadIsSound, SteadyStands, WholeBlock

LEMMA InvStep == LoadsInOrder /\ Inv /\ [Next]_vars => Inv'
<1> SUFFICES ASSUME LoadsInOrder, Inv, [Next]_vars PROVE Inv'
  OBVIOUS
<1>1. CASE UNCHANGED vars
  BY <1>1 DEF Inv, vars, TypeOK, DrainType, OddIsWriting, RestingIsWhole, StoredSoFar, ReadIsSound, SteadyStands,
              WholeBlock, Wanted, Current
<1>2. CASE Producer
  <2>1. DrainType'
    BY <1>2 DEF Inv, Producer, Prime, Reprime, Invalidate, SetSpatial, StartJob, Store, Close, DrainType
  <2> QED
    BY <1>2, <2>1, ProducerTypes, StoredStep, SlotsStep, ProducerKeepsReads DEF Inv, Next
<1>3. CASE Drain
  BY <1>3, DrainTypes, StoredStep, SlotsStep, DrainKeepsReads DEF Inv, Next
<1> QED
  BY <1>1, <1>2, <1>3 DEF Next

\* Where the closing load of the sequence number comes last, a drain hands out a block of
\* one mix (LookaheadRing::drain, publish_slot, retire_slot).
THEOREM BlocksAreWhole ==
  ASSUME LoadsInOrder
  PROVE  Spec => []WholeBlock
<1>1. Inv => WholeBlock
  BY DEF Inv
<1>2. Inv /\ [Next]_vars => Inv'
  BY InvStep
<1> QED
  BY <1>1, <1>2, InvInit, PTL DEF Spec

\* A drain between two of its loads is not a finished one.
LEMMA ReadingOn ==
  ASSUME NEW d \in Reading
  PROVE  /\ \A n \in Nat : [d EXCEPT !.seq = n] # NoBlock /\ [d EXCEPT !.again = n] # NoBlock
         /\ \A D \in SUBSET Fields : \A g \in [D -> Loaded] : [d EXCEPT !.got = g] # NoBlock
<1>1. NoBlock \notin Reading
  BY MarkerAssumption
<1>2. ASSUME NEW n \in Nat PROVE [d EXCEPT !.seq = n] \in Reading /\ [d EXCEPT !.again = n] \in Reading
  BY DEF Reading
<1>3. ASSUME NEW D \in SUBSET Fields, NEW g \in [D -> Loaded] PROVE [d EXCEPT !.got = g] \in Reading
  <2>1. g \in UNION {[E -> Loaded] : E \in SUBSET Fields}
    OBVIOUS
  <2> QED
    BY <2>1 DEF Reading
<1> QED
  BY <1>1, <1>2, <1>3

\* What a drain copied in full is not silence.
LEMMA CopyIsSound ==
  ASSUME DrainType, drain # NoBlock, Wanted = {}, drain.got["index"] = drain.index
  PROVE  /\ DOMAIN drain.got = Fields /\ drain.got # Silence
         /\ [c \in Cells |-> drain.got[c]] # Silence
<1>1. PICK D \in SUBSET Fields : drain.got \in [D -> Loaded]
  BY DEF DrainType, Reading
<1>2. DOMAIN drain.got = Fields
  BY <1>1 DEF Wanted, Fields
<1>3. drain.got \in [Fields -> Loaded]
  BY <1>1, <1>2
<1>4. [c \in Cells |-> drain.got[c]] \in [Cells -> Loaded]
  BY <1>3 DEF Fields
<1> QED
  BY <1>2, <1>3, <1>4, MarkerAssumption

\* A drain of a block that stood in the ring throughout is not an underrun.
LEMMA UnderrunStep ==
  ASSUME Inv, [Next]_vars, drain # NoBlock, drain' = NoBlock, heard' = Silence
  PROVE  ~steady
<1> USE DEF Inv
<1> DEFINE s == SlotAt(drain.index)
<1>1. SUFFICES ASSUME steady PROVE FALSE
  OBVIOUS
<1>2. /\ drain \in Reading /\ s \in Slots /\ slot[s].seq \in Nat
      /\ Even(slot[s].seq) /\ slot[s].index = drain.index
      /\ drain.seq # NoBlock => drain.seq = slot[s].seq
      /\ drain.again # NoBlock => drain.again = slot[s].seq
  BY <1>1, SlotAtMod, RingFacts DEF DrainType, SteadyStands, Reading, TypeOK
<1>3. Drain
  BY DEF Next, Producer, Prime, Reprime, Invalidate, SetSpatial, StartJob, Store, Close, vars
<1>4. ASSUME NEW i \in Indices, Begin(i) PROVE FALSE
  BY <1>4 DEF Begin
<1>5. ASSUME LoadSeq PROVE FALSE
  <2>1. drain' # [drain EXCEPT !.seq = slot[s].seq]
    BY <1>2, ReadingOn
  <2> QED
    BY <1>2, <1>5, <2>1 DEF LoadSeq
<1>6. ASSUME NEW f \in Fields, Load(f) PROVE FALSE
  <2> DEFINE v == IF f = "index" THEN slot[s].index ELSE slot[s].samples[f]
             got == [g \in DOMAIN drain.got \cup {f} |-> IF g = f THEN v ELSE drain.got[g]]
  <2>1. drain' = [drain EXCEPT !.got = got]
    BY <1>6 DEF Load
  <2>2. v \in Loaded
    BY <1>2 DEF Fields, TypeOK, Loaded
  <2>3. PICK D \in SUBSET Fields : drain.got \in [D -> Loaded]
    BY <1>2 DEF Reading
  <2>4. got \in [D \cup {f} -> Loaded]
    BY <2>2, <2>3
  <2> HIDE DEF got
  <2> QED
    BY <1>2, <2>1, <2>4, ReadingOn
<1>7. ASSUME LoadSeqAgain PROVE FALSE
  <2>1. drain' # [drain EXCEPT !.again = slot[s].seq]
    BY <1>2, ReadingOn
  <2> QED
    BY <1>7, <2>1 DEF LoadSeqAgain
<1>8. ASSUME Validate PROVE FALSE
  <2>1. /\ drain.again = drain.seq /\ drain.seq = slot[s].seq /\ drain.seq # NoBlock /\ Wanted = {}
        /\ heard' = IF drain.got["index"] = drain.index THEN [c \in Cells |-> drain.got[c]] ELSE Silence
    BY <1>2, <1>8 DEF Validate, Finish
  <2>2. "index" \in DOMAIN drain.got
    BY <2>1 DEF Wanted
  <2>3. drain.got["index"] = drain.index
    BY <1>2, <2>1, <2>2 DEF ReadIsSound, Current
  <2> QED
    BY <2>1, <2>3, CopyIsSound
<1> QED
  BY <1>3, <1>4, <1>5, <1>6, <1>7, <1>8 DEF Drain

\* An underrun has a reason: the block was missing, or its slot was written while it was
\* being read (LookaheadRing::drain).
THEOREM UnderrunsExcused ==
  ASSUME LoadsInOrder
  PROVE  Spec => UnderrunExcused
<1>1. Inv /\ [Next]_vars => Inv'
  BY InvStep
<1>2. Inv /\ [Next]_vars => [drain # NoBlock /\ drain' = NoBlock /\ heard' = Silence => ~steady]_vars
  BY UnderrunStep
<1> QED
  BY <1>1, <1>2, InvInit, PTL DEF Spec, UnderrunExcused

-----------------------------------------------------------------------------
(* The ring implements AtomicRing.                                         *)

Held    == [s \in Slots |-> Standing(s)]
Hearing == IF Confirmed THEN Sound(drain.got) ELSE Sound(heard)

\* The producer's steps place and retire whole blocks.
LEMMA ProducerIsAtomic ==
  ASSUME Inv, Inv', Producer
  PROVE  Atomic!Next \/ (UNCHANGED Held /\ UNCHANGED Hearing)
<1> USE DEF Inv
<1>1. UNCHANGED Hearing
  <2>1. UNCHANGED <<drain, heard>>
    BY DEF Producer, Prime, Reprime, Invalidate, SetSpatial, StartJob, Store, Close
  <2> QED
    BY <2>1 DEF Hearing, Confirmed, Sound
<1>2. CASE UNCHANGED slot
  BY <1>1, <1>2 DEF Held, Standing
<1>3. CASE StartJob /\ ~UNCHANGED <<slot, writing, owed, mixes, steady>>
  <2> DEFINE t == Target(writing')
  <2>1. /\ writing = NoBlock /\ t \in Slots /\ slot' = [slot EXCEPT ![t].seq = @ + 1]
    BY <1>3, StartJobEffect
  <2> HIDE DEF t
  <2>2. \A s \in Slots : /\ slot'[s].index = slot[s].index /\ slot'[s].samples = slot[s].samples
                         /\ slot[s].seq \in Nat
                         /\ slot'[s].seq = (IF s = t THEN slot[s].seq + 1 ELSE slot[s].seq)
    BY <2>1, Bump DEF TypeOK, SlotType
  <2>3. ~Even(slot'[t].seq)
    BY <2>1, <2>2, EvenStep DEF OddIsWriting
  <2>4. \A s \in Slots : Standing(s)' = IF s = t THEN NoBlock ELSE Standing(s)
    BY <2>1, <2>2, <2>3 DEF Standing
  <2>5. Held' = [Held EXCEPT ![t] = NoBlock]
    BY <2>1, <2>4 DEF Held
  <2>6. Atomic!Retire(t)
    BY <1>1, <2>5 DEF Atomic!Retire, Held, Hearing
  <2> QED
    BY <2>1, <2>6 DEF Atomic!Next
<1>4. ASSUME NEW f \in Fields, Store(f) PROVE UNCHANGED Held
  <2>1. /\ writing # NoBlock /\ Target(writing) \in Slots
        /\ \A r \in Slots : slot'[r].seq = slot[r].seq /\ (r # Target(writing) => slot'[r] = slot[r])
    BY <1>4, StoreEffect
  <2>2. \A r \in Slots : Standing(r)' = Standing(r)
    BY <2>1 DEF OddIsWriting, Standing
  <2> QED
    BY <2>2 DEF Held
<1>5. CASE Close
  <2>0. PICK t \in Slots : t = Target(writing)
    BY <1>5, CloseEffect
  <2>1. /\ writing \in Job /\ writing # NoBlock /\ owed = {}
        /\ slot' = [slot EXCEPT ![t].seq = @ + 1]
    BY <1>5, <2>0, CloseEffect DEF Close
  <2>2. \A s \in Slots : /\ slot'[s].index = slot[s].index /\ slot'[s].samples = slot[s].samples
                         /\ slot[s].seq \in Nat
                         /\ slot'[s].seq = (IF s = t THEN slot[s].seq + 1 ELSE slot[s].seq)
    BY <2>1, Bump DEF TypeOK, SlotType
  <2>3. ~Even(slot[t].seq)
    BY <2>0, <2>1 DEF OddIsWriting
  <2>4. Even(slot'[t].seq)
    BY <2>2, <2>3, EvenStep
  <2>5. \A s \in Slots : s # t => Standing(s)' = Standing(s)
    BY <2>2 DEF Standing
  <2>6. CASE writing.op = "retire"
    <3>1. slot[t].index = NoBlock
      BY <2>0, <2>1, <2>6, JobFacts DEF StoredSoFar
    <3>2. Standing(t)' = NoBlock
      BY <2>2, <3>1 DEF Standing
    <3>3. Standing(t) = NoBlock
      BY <3>1 DEF Standing
    <3>4. UNCHANGED Held
      BY <2>5, <3>2, <3>3 DEF Held
    <3> QED
      BY <1>1, <3>4
  <2>7. CASE writing.op = "publish"
    <3>1. /\ writing.mix \in 1..MaxMixes /\ writing.index \in Indices /\ slot[t].index = writing.index
          /\ \A c \in Cells : slot[t].samples[c] = <<writing.index, writing.mix>>
      BY <2>0, <2>1, <2>7, JobFacts DEF StoredSoFar
    <3>2. (CHOOSE c \in Cells : TRUE) \in Cells
      BY RingAssumption
    <3>3. Standing(t)' = <<writing.index, writing.mix>>
      BY <2>2, <2>4, <3>1, <3>2, RingFacts DEF Standing
    <3>4. Held' = [Held EXCEPT ![t] = <<writing.index, writing.mix>>]
      BY <2>5, <3>3 DEF Held
    <3>5. Atomic!Place(t, writing.index, writing.mix)
      BY <1>1, <3>4 DEF Atomic!Place, Held, Hearing
    <3> QED
      BY <3>1, <3>5 DEF Atomic!Next
  <2> QED
    BY <2>1, <2>6, <2>7, JobFacts
<1> QED
  BY <1>1, <1>2, <1>3, <1>4, <1>5
     DEF Producer, Prime, Reprime, Invalidate, SetSpatial, StartJob

\* A drain hands out, at its closing load, what the slot holds, or at its end nothing.
LEMMA DrainIsAtomic ==
  ASSUME Inv, LoadsInOrder, Drain
  PROVE  Atomic!Next \/ (UNCHANGED Held /\ UNCHANGED Hearing)
<1> USE DEF Inv
<1> DEFINE s == SlotAt(drain.index)
           first == CHOOSE c \in Cells : TRUE
<1>1. UNCHANGED Held
  <2>1. UNCHANGED slot
    BY DEF Drain, Begin, LoadSeq, Load, LoadSeqAgain, Validate
  <2> QED
    BY <2>1 DEF Held, Standing
<1>2. drain # NoBlock => /\ drain \in Reading /\ s \in Slots /\ slot[s].seq \in Nat
  BY SlotAtMod, RingFacts DEF DrainType, Reading, TypeOK
<1>3. first \in Cells /\ NoBlock \notin Nat
  BY RingAssumption, RingFacts
<1>4. ASSUME Hearing' = Silence PROVE Atomic!Next
  <2>1. Atomic!Underrun
    BY <1>1, <1>4 DEF Atomic!Underrun, Held, Hearing
  <2> QED
    BY <2>1 DEF Atomic!Next
<1>5. ASSUME drain # NoBlock, ~Confirmed, Retry PROVE UNCHANGED Hearing \/ Hearing' = Silence
  <2>1. ~Confirmed'
    BY <1>2, <1>5 DEF Retry, Finish, Confirmed, Reading
  <2>2. heard' = heard \/ heard' = Silence
    BY <1>5 DEF Retry, Finish
  <2> QED
    BY <1>5, <2>1, <2>2 DEF Hearing, Sound
<1>6. ASSUME NEW i \in Indices, Begin(i) PROVE UNCHANGED Hearing
  BY <1>6 DEF Begin, Hearing, Confirmed, Sound
<1>7. ASSUME LoadSeq PROVE UNCHANGED Hearing \/ Hearing' = Silence
  <2>1. drain # NoBlock /\ drain.seq = NoBlock /\ drain.again = NoBlock /\ ~Confirmed
    BY <1>7 DEF LoadSeq, ReadIsSound, Confirmed
  <2>2. CASE drain' = [drain EXCEPT !.seq = slot[s].seq] /\ UNCHANGED heard
    <3>1. drain'.seq = slot[s].seq /\ drain'.again = NoBlock
      BY <1>2, <2>1, <2>2 DEF Reading
    <3> QED
      BY <1>2, <1>3, <2>1, <2>2, <3>1 DEF Hearing, Confirmed, Sound
  <2> QED
    BY <1>5, <1>7, <2>1, <2>2 DEF LoadSeq
<1>8. ASSUME NEW f \in Fields, Load(f) PROVE UNCHANGED Hearing
  <2>1. drain # NoBlock /\ drain.seq # NoBlock /\ drain.again = NoBlock /\ UNCHANGED heard
    BY <1>8 DEF Load, ReadIsSound
  <2>2. drain'.seq = drain.seq /\ drain'.again = NoBlock
    BY <1>2, <1>8, <2>1 DEF Load, Reading
  <2> QED
    BY <2>1, <2>2 DEF Hearing, Confirmed, Sound
<1>9. ASSUME LoadSeqAgain PROVE Atomic!Next \/ UNCHANGED Hearing
  <2>1. /\ drain # NoBlock /\ drain.seq # NoBlock /\ drain.again = NoBlock /\ UNCHANGED heard /\ Wanted = {}
        /\ drain' = [drain EXCEPT !.again = slot[s].seq]
    BY <1>9 DEF LoadSeqAgain
  <2>2. /\ drain'.index = drain.index /\ drain'.seq = drain.seq /\ drain'.got = drain.got
        /\ drain'.again = slot[s].seq
    BY <1>2, <2>1 DEF Reading
  <2>3. CASE ~Confirmed'
    BY <2>1, <2>3 DEF Hearing, Confirmed, Sound
  <2>4. CASE Confirmed'
    <3>1. drain.seq = slot[s].seq /\ drain.got["index"] = drain.index
      BY <2>2, <2>4 DEF Confirmed
    <3>2. DOMAIN drain.got = Fields /\ drain.got # Silence
      BY <2>1, <3>1, CopyIsSound
    <3>3. /\ slot[s].index = drain.index /\ drain.index \in Indices /\ Even(slot[s].seq)
          /\ drain.got[first] = slot[s].samples[first]
      BY <1>2, <1>3, <2>1, <3>1, <3>2, RingAssumption DEF ReadIsSound, Current, Reading, Fields
    <3>4. Standing(s) = drain.got[first] /\ Standing(s) # NoBlock
      <4>1. PICK m \in 1..MaxMixes : slot[s].samples = [c \in Cells |-> <<drain.index, m>>]
        BY <1>2, <2>1, <3>3, RingFacts DEF RestingIsWhole
      <4>2. <<drain.index, m>> \in Mixed
        BY <3>3 DEF Mixed
      <4> QED
        BY <1>3, <3>3, <4>1, <4>2, RingFacts DEF Standing
    <3>5. Hearing' = Held[s] /\ Held[s] # NoBlock
      BY <1>2, <2>1, <2>2, <2>4, <3>2, <3>4 DEF Hearing, Sound, Held
    <3>6. Atomic!Hand(s)
      BY <1>1, <3>5 DEF Atomic!Hand, Held, Hearing
    <3> QED
      BY <1>2, <2>1, <3>6 DEF Atomic!Next
  <2> QED
    BY <2>3, <2>4
<1>10. ASSUME Validate PROVE UNCHANGED Hearing \/ Hearing' = Silence
  <2>1. drain # NoBlock /\ drain.seq # NoBlock /\ Wanted = {} /\ "index" \in DOMAIN drain.got
    BY <1>10 DEF Validate, Wanted
  <2>2. CASE drain.again # drain.seq /\ Retry
    BY <1>5, <2>1, <2>2 DEF Confirmed
  <2>3. CASE /\ drain.again = drain.seq
             /\ Finish(IF drain.got["index"] = drain.index THEN [c \in Cells |-> drain.got[c]] ELSE Silence)
    <3>1. drain' = NoBlock /\ ~Confirmed'
      BY <2>3 DEF Finish, Confirmed
    <3>2. CASE drain.got["index"] = drain.index
      <4>1. Confirmed /\ drain.got # Silence /\ [c \in Cells |-> drain.got[c]] # Silence
        BY <2>1, <2>3, <3>2, CopyIsSound DEF Confirmed
      <4>2. heard' = [c \in Cells |-> drain.got[c]]
        BY <2>3, <3>2 DEF Finish
      <4>3. Hearing = drain.got[first] /\ Hearing' = heard'[first]
        BY <3>1, <4>1, <4>2 DEF Hearing, Sound
      <4> QED
        BY <1>3, <4>2, <4>3
    <3>3. CASE drain.got["index"] # drain.index
      BY <2>3, <3>1, <3>3 DEF Finish, Hearing, Sound
    <3> QED
      BY <3>2, <3>3
  <2> QED
    BY <1>10, <2>2, <2>3 DEF Validate
<1> QED
  BY <1>1, <1>4, <1>6, <1>7, <1>8, <1>9, <1>10 DEF Drain

\* The seqlock of the slots implements a ring written and read at once: a drain hands out
\* the block that stands in the ring at its closing load, or silence.
THEOREM RingIsAtomic ==
  ASSUME LoadsInOrder
  PROVE  Spec => ReadsAtOnce
<1>1. Init => Atomic!Init
  BY DEF Init, Atomic!Init, Standing, Confirmed, Sound
<1>2. Inv /\ [Next]_vars => Inv'
  BY InvStep
<1>3. Inv /\ Inv' /\ [Next]_vars => Atomic!Next \/ (UNCHANGED Held /\ UNCHANGED Hearing)
  <2>1. UNCHANGED vars => UNCHANGED Held /\ UNCHANGED Hearing
    BY DEF vars, Held, Hearing, Standing, Confirmed, Sound
  <2> QED
    BY <2>1, ProducerIsAtomic, DrainIsAtomic DEF Next
<1>4. Inv /\ Inv' /\ [Next]_vars => [Atomic!Next]_<<[s \in Slots |-> Standing(s)],
                                     IF Confirmed THEN Sound(drain.got) ELSE Sound(heard)>>
  BY <1>3 DEF Held, Hearing
<1> QED
  BY <1>1, <1>2, <1>4, InvInit, PTL DEF Spec, ReadsAtOnce, Atomic!Spec
=============================================================================
