-------------------------- MODULE ReclamationProofs --------------------------
(***************************************************************************)
(* Theorems about reference counts, the reclaim lists and the drain.       *)
(***************************************************************************)
EXTENDS Reclamation, FiniteSetTheorems, TLAPS

(***************************************************************************)
(* The slots of a list.                                                    *)
(***************************************************************************)
Links == [Slots -> Slots \cup {nil}]

\* S has the slot a and, with a slot, the next.
Closed(f, a, S) == a \in S \cup {nil} /\ \A x \in S : f[x] \in S \cup {nil}

LEMMA ChainIsLeast ==
  ASSUME NEW f, NEW a
  PROVE  /\ Chain(f, a) \subseteq Slots
         /\ \A S \in SUBSET Slots : Closed(f, a, S) => Chain(f, a) \subseteq S
BY DEF Chain, Closed

LEMMA ChainIsClosed ==
  ASSUME NEW f \in Links, NEW a \in Slots \cup {nil}
  PROVE  Closed(f, a, Chain(f, a))
<1>1. a \in Chain(f, a) \cup {nil}
  BY DEF Chain
<1>2. ASSUME NEW x \in Chain(f, a) PROVE f[x] \in Chain(f, a) \cup {nil}
  <2>1. x \in Slots /\ f[x] \in Slots \cup {nil}
    BY <1>2 DEF Chain, Links
  <2>2. ASSUME NEW S \in SUBSET Slots, Closed(f, a, S) PROVE f[x] \in S \cup {nil}
    <3>1. x \in S
      BY <1>2, <2>2, ChainIsLeast
    <3> QED
      BY <2>2, <3>1 DEF Closed
  <2>3. CASE f[x] # nil
    <3>1. f[x] \in Slots
      BY <2>1, <2>3
    <3>2. \A S \in SUBSET Slots :
            a \in S \cup {nil} /\ (\A y \in S : f[y] \in S \cup {nil}) => f[x] \in S
      BY <2>2, <2>3 DEF Closed
    <3> QED
      BY <3>1, <3>2 DEF Chain
  <2> QED
    BY <2>3
<1> QED
  BY <1>1, <1>2 DEF Closed

LEMMA ChainOfNil ==
  ASSUME NEW f
  PROVE  Chain(f, nil) = {}
<1>1. Closed(f, nil, {})
  BY DEF Closed
<1> QED
  BY <1>1, ChainIsLeast

LEMMA ChainFirst ==
  ASSUME NEW f \in Links, NEW a \in Slots
  PROVE  Chain(f, a) = {a} \cup Chain(f, f[a])
<1>1. a # nil /\ f[a] \in Slots \cup {nil}
  BY NilAssumption DEF Links
<1>2. PICK A, N : A = Chain(f, a) /\ N = Chain(f, f[a])
  OBVIOUS
<1>3. Closed(f, a, A) /\ Closed(f, f[a], N) /\ A \subseteq Slots /\ N \subseteq Slots
  BY <1>1, <1>2, ChainIsClosed, ChainIsLeast
<1>4. a \in A /\ f[a] \in A \cup {nil}
  BY <1>1, <1>3 DEF Closed
<1>5. N \subseteq A
  <2>1. Closed(f, f[a], A)
    BY <1>3, <1>4 DEF Closed
  <2> QED
    BY <1>2, <1>3, <2>1, ChainIsLeast
<1>6. A \subseteq {a} \cup N
  <2>1. Closed(f, a, {a} \cup N)
    BY <1>3 DEF Closed
  <2>2. {a} \cup N \in SUBSET Slots
    BY <1>3
  <2> QED
    BY <1>2, <2>1, <2>2, ChainIsLeast
<1> QED
  BY <1>2, <1>4, <1>5, <1>6

\* A list depends on the links of its own slots only.
LEMMA ChainUntouched ==
  ASSUME NEW f \in Links, NEW g \in Links, NEW a \in Slots \cup {nil},
         \A x \in Chain(f, a) : g[x] = f[x]
  PROVE  Chain(g, a) = Chain(f, a)
<1>1. PICK A, N : A = Chain(f, a) /\ N = Chain(g, a)
  OBVIOUS
<1>2. Closed(f, a, A) /\ Closed(g, a, N) /\ A \subseteq Slots /\ N \subseteq Slots
  BY <1>1, ChainIsClosed, ChainIsLeast
<1>3. N \subseteq A
  <2>1. Closed(g, a, A)
    BY <1>1, <1>2 DEF Closed
  <2> QED
    BY <1>1, <1>2, <2>1, ChainIsLeast
<1>4. A \subseteq N
  <2>1. Closed(f, a, N)
    BY <1>1, <1>2, <1>3 DEF Closed
  <2> QED
    BY <1>1, <1>2, <2>1, ChainIsLeast
<1> QED
  BY <1>1, <1>3, <1>4

\* Linking a slot elsewhere leaves alone the lists that it is not on.
LEMMA ChainRelinked ==
  ASSUME NEW f \in Links, NEW g \in Links, NEW q, NEW h, g = [f EXCEPT ![q] = h],
         NEW a \in Slots \cup {nil}, q \notin Chain(f, a)
  PROVE  Chain(g, a) = Chain(f, a)
<1>1. \A x \in Chain(f, a) : g[x] = f[x]
  BY ChainIsLeast DEF Links
<1> QED
  BY <1>1, ChainUntouched

(***************************************************************************)
(* Where dead slots are: L[i] is on the list of store i, thread t is       *)
(* pushing Q[t] or nothing and B[t] is its batch, D is what is dead.       *)
(***************************************************************************)
Placed(L, Q, B, D) ==
  /\ \A i \in Stores : L[i] \subseteq D
  /\ \A t \in Threads : B[t] \subseteq D
  /\ \A t \in Threads : Q[t] = nil \/ Q[t] \in D
  /\ \A s \in D : \/ \E i \in Stores : s \in L[i]
                  \/ \E t \in Threads : s \in B[t] \/ s = Q[t]
  /\ \A i, j \in Stores : i # j => L[i] \cap L[j] = {}
  /\ \A i \in Stores, t \in Threads : Q[t] \notin L[i] /\ L[i] \cap B[t] = {}
  /\ \A t, u \in Threads : Q[t] \notin B[u]
  /\ \A t, u \in Threads : t # u => B[t] \cap B[u] = {}
  /\ \A t, u \in Threads : t # u /\ Q[t] # nil => Q[t] # Q[u]

LEMMA PlacedSame ==
  ASSUME NEW L, NEW Q, NEW B, NEW D, Placed(L, Q, B, D), NEW L2, NEW Q2, NEW B2, nil \notin D,
         \A i \in Stores : L2[i] = L[i],
         \A t \in Threads : Q2[t] = Q[t] /\ B2[t] = B[t]
  PROVE  Placed(L2, Q2, B2, D)
BY DEF Placed

Gains(L, i, q, L2) == \A j \in Stores : L2[j] = IF j = i THEN {q} \cup L[j] ELSE L[j]
Ends(Q, B, t, Q2, B2) ==
  \A u \in Threads : Q2[u] = (IF u = t THEN nil ELSE Q[u]) /\ B2[u] = B[u]

\* The slot being pushed is on the list.
LEMMA PlacedOnList ==
  ASSUME NEW L, NEW Q, NEW B, NEW D, Placed(L, Q, B, D), NEW L2, NEW Q2, NEW B2, nil \notin D,
         NEW i \in Stores, NEW t \in Threads, NEW q, q = Q[t], q # nil,
         Gains(L, i, q, L2), Ends(Q, B, t, Q2, B2)
  PROVE  Placed(L2, Q2, B2, D)
<1> USE DEF Gains, Ends
<1>1. q \in D
  BY DEF Placed
<1>2. /\ \A j \in Stores : L2[j] \subseteq D
      /\ \A u \in Threads : B2[u] \subseteq D
      /\ \A u \in Threads : Q2[u] = nil \/ Q2[u] \in D
  BY <1>1 DEF Placed
<1>3. ASSUME NEW s \in D
      PROVE  \/ \E j \in Stores : s \in L2[j]
             \/ \E u \in Threads : s \in B2[u] \/ s = Q2[u]
  <2>1. CASE s = q
    BY <2>1
  <2>2. CASE s # q
    BY <2>2 DEF Placed
  <2> QED
    BY <2>1, <2>2
<1>4. \A j, k \in Stores : j # k => L2[j] \cap L2[k] = {}
  <2> SUFFICES ASSUME NEW j \in Stores, NEW k \in Stores, j # k PROVE L2[j] \cap L2[k] = {}
    OBVIOUS
  <2>1. L[j] \cap L[k] = {} /\ q \notin L[j] /\ q \notin L[k]
    BY DEF Placed
  <2> QED
    BY <2>1
<1>5. \A j \in Stores, u \in Threads : Q2[u] \notin L2[j] /\ L2[j] \cap B2[u] = {}
  <2> SUFFICES ASSUME NEW j \in Stores, NEW u \in Threads
               PROVE  Q2[u] \notin L2[j] /\ L2[j] \cap B2[u] = {}
    OBVIOUS
  <2>1. nil \notin L[j] /\ Q[u] \notin L[j] /\ L[j] \cap B[u] = {} /\ q \notin B[u]
    BY DEF Placed
  <2>2. u # t => Q[u] # q
    BY DEF Placed
  <2> QED
    BY <2>1, <2>2
<1>6. \A u, v \in Threads : Q2[u] \notin B2[v]
  BY DEF Placed
<1>7. \A u, v \in Threads : u # v => B2[u] \cap B2[v] = {}
  BY DEF Placed
<1>8. \A u, v \in Threads : u # v /\ Q2[u] # nil => Q2[u] # Q2[v]
  BY DEF Placed
<1> QED
  BY <1>2, <1>3, <1>4, <1>5, <1>6, <1>7, <1>8 DEF Placed

Empties(L, i, L2) == \A j \in Stores : L2[j] = IF j = i THEN {} ELSE L[j]
Takes(Q, B, t, b, Q2, B2) ==
  \A u \in Threads : Q2[u] = Q[u] /\ B2[u] = IF u = t THEN b ELSE B[u]

\* A thread that has no batch takes a list for one.
LEMMA PlacedInBatch ==
  ASSUME NEW L, NEW Q, NEW B, NEW D, Placed(L, Q, B, D), NEW L2, NEW Q2, NEW B2, nil \notin D,
         NEW i \in Stores, NEW t \in Threads, B[t] = {},
         Empties(L, i, L2), Takes(Q, B, t, L[i], Q2, B2)
  PROVE  Placed(L2, Q2, B2, D)
<1> USE DEF Empties, Takes
<1>2. /\ \A j \in Stores : L2[j] \subseteq D
      /\ \A u \in Threads : B2[u] \subseteq D
      /\ \A u \in Threads : Q2[u] = nil \/ Q2[u] \in D
  BY DEF Placed
<1>3. ASSUME NEW s \in D
      PROVE  \/ \E j \in Stores : s \in L2[j]
             \/ \E u \in Threads : s \in B2[u] \/ s = Q2[u]
  <2>1. CASE s \in L[i]
    BY <2>1
  <2>2. CASE s \notin L[i]
    BY <2>2 DEF Placed
  <2> QED
    BY <2>1, <2>2
<1>4. \A j, k \in Stores : j # k => L2[j] \cap L2[k] = {}
  BY DEF Placed
<1>5. \A j \in Stores, u \in Threads : Q2[u] \notin L2[j] /\ L2[j] \cap B2[u] = {}
  BY DEF Placed
<1>6. \A u, v \in Threads : Q2[u] \notin B2[v]
  BY DEF Placed
<1>7. \A u, v \in Threads : u # v => B2[u] \cap B2[v] = {}
  BY DEF Placed
<1>8. \A u, v \in Threads : u # v /\ Q2[u] # nil => Q2[u] # Q2[v]
  BY DEF Placed
<1> QED
  BY <1>2, <1>3, <1>4, <1>5, <1>6, <1>7, <1>8 DEF Placed

\* A slot dies and its thread goes on to push it.
LEMMA PlacedDies ==
  ASSUME NEW L, NEW Q, NEW B, NEW D, Placed(L, Q, B, D), NEW L2, NEW Q2, NEW B2, nil \notin D,
         NEW t \in Threads, NEW q, q \notin D, q # nil, Q[t] = nil, NEW D2, D2 = D \cup {q},
         \A i \in Stores : L2[i] = L[i],
         \A u \in Threads : Q2[u] = (IF u = t THEN q ELSE Q[u]) /\ B2[u] = B[u]
  PROVE  Placed(L2, Q2, B2, D2)
<1>2. /\ \A j \in Stores : L2[j] \subseteq D \cup {q}
      /\ \A u \in Threads : B2[u] \subseteq D \cup {q}
      /\ \A u \in Threads : Q2[u] = nil \/ Q2[u] \in D \cup {q}
  BY DEF Placed
<1>3. ASSUME NEW s \in D \cup {q}
      PROVE  \/ \E j \in Stores : s \in L2[j]
             \/ \E u \in Threads : s \in B2[u] \/ s = Q2[u]
  <2>1. CASE s = q
    BY <2>1
  <2>2. CASE s # q
    BY <2>2 DEF Placed
  <2> QED
    BY <2>1, <2>2
<1>4. \A j, k \in Stores : j # k => L2[j] \cap L2[k] = {}
  BY DEF Placed
<1>5. \A j \in Stores, u \in Threads : Q2[u] \notin L2[j] /\ L2[j] \cap B2[u] = {}
  BY DEF Placed
<1>6. \A u, v \in Threads : Q2[u] \notin B2[v]
  BY DEF Placed
<1>7. \A u, v \in Threads : u # v => B2[u] \cap B2[v] = {}
  BY DEF Placed
<1>8. \A u, v \in Threads : u # v /\ Q2[u] # nil => Q2[u] # Q2[v]
  BY DEF Placed
<1> QED
  BY <1>2, <1>3, <1>4, <1>5, <1>6, <1>7, <1>8 DEF Placed

\* A slot of a batch is freed.
LEMMA PlacedFreed ==
  ASSUME NEW L, NEW Q, NEW B, NEW D, Placed(L, Q, B, D), NEW L2, NEW Q2, NEW B2, nil \notin D,
         NEW t \in Threads, NEW s, s \in B[t], NEW D2, D2 = D \ {s},
         \A i \in Stores : L2[i] = L[i],
         \A u \in Threads : Q2[u] = Q[u] /\ B2[u] = B[u] \ {s}
  PROVE  Placed(L2, Q2, B2, D2)
<1>2. /\ \A j \in Stores : L2[j] \subseteq D \ {s}
      /\ \A u \in Threads : B2[u] \subseteq D \ {s}
      /\ \A u \in Threads : Q2[u] = nil \/ Q2[u] \in D \ {s}
  BY DEF Placed
<1>3. \A r \in D \ {s} : \/ \E j \in Stores : r \in L2[j]
                         \/ \E u \in Threads : r \in B2[u] \/ r = Q2[u]
  BY DEF Placed
<1>4. \A j, k \in Stores : j # k => L2[j] \cap L2[k] = {}
  BY DEF Placed
<1>5. \A j \in Stores, u \in Threads : Q2[u] \notin L2[j] /\ L2[j] \cap B2[u] = {}
  BY DEF Placed
<1>6. \A u, v \in Threads : Q2[u] \notin B2[v]
  BY DEF Placed
<1>7. \A u, v \in Threads : u # v => B2[u] \cap B2[v] = {}
  BY DEF Placed
<1>8. \A u, v \in Threads : u # v /\ Q2[u] # nil => Q2[u] # Q2[v]
  BY DEF Placed
<1> QED
  BY <1>2, <1>3, <1>4, <1>5, <1>6, <1>7, <1>8 DEF Placed

(***************************************************************************)
(* The inductive invariant of SlotsSound.                                  *)
(***************************************************************************)
\* The reference finds its record.
Live(r) == r.slot \in Slots /\ r.slot \notin free /\ r.gen = generation[r.slot]

RefsFound ==
  /\ d_current = NoRef \/ Live(d_current)
  /\ \A t \in Clients : \A r \in held[t] : Live(r)
  /\ \A s \in Slots : edge[s] = NoRef \/ Live(edge[s])

Dead == {s \in Slots : s \notin free /\ count[s] = 0}

\* A thread in the middle of a batch, which it may leave to push a child.
HasBatch(th) == \/ th.pc \in {"destruct", "bump", "release"}
                \/ th.pc \in {"enqueue", "cas"} /\ th.then = "bump"

PushedSlot(th) == IF th.pc \in {"enqueue", "cas"} THEN th.slot ELSE nil

ThreadSound(th) ==
  /\ th.pc \in {"enqueue", "cas"} => th.slot \in Slots
  /\ th.pc = "cas" => link[th.slot] = th.expect
  /\ th.pc = "destruct" => th.next = nil
  /\ HasBatch(th) => th.batch \in Slots
  /\ HasBatch(th) /\ th.pc # "destruct" => th.next = link[th.batch]
  /\ ~HasBatch(th) => th.batch = nil /\ th.next = nil

\* What has been freed or destructed refers to nothing.
EdgesCut ==
  /\ \A s \in free : edge[s] = NoRef
  /\ \A t \in Threads : HasBatch(thread[t]) /\ thread[t].pc # "destruct"
                          => edge[thread[t].batch] = NoRef

Lists == [i \in Stores |-> Chain(link, d_reclaim_head[i])]
Pushes == [t \in Threads |-> PushedSlot(thread[t])]
Batches == [t \in Threads |-> Chain(link, thread[t].batch)]

DeadPlaced == Placed(Lists, Pushes, Batches, Dead)

\* No list runs into itself.
Acyclic ==
  \A s \in Dead : (\A t \in Threads : Pushes[t] # s) => s \notin Chain(link, link[s])

SlotsInv ==
  /\ TypeOK /\ RefsFound /\ CountsExact /\ EdgesCut
  /\ \A t \in Threads : ThreadSound(thread[t])
  /\ DeadPlaced /\ Acyclic

LEMMA BatchIsList ==
  ASSUME NEW th \in ThreadState, ThreadSound(th), link \in Links
  PROVE  Batch(th) = Chain(link, th.batch)
<1>1. CASE th.pc = "destruct"
  BY <1>1 DEF Batch
<1>2. CASE HasBatch(th) /\ th.pc # "destruct"
  <2>1. PICK a, n : a = th.batch /\ n = th.next
    OBVIOUS
  <2>2. a \in Slots /\ n = link[a] /\ a # nil
    BY <1>2, <2>1, NilAssumption DEF ThreadSound
  <2>3. Chain(link, a) = {a} \cup Chain(link, n)
    BY <2>2, ChainFirst
  <2>4. Batch(th) = ({a} \ {nil}) \cup Chain(link, n)
    BY <1>2, <2>1 DEF Batch
  <2> QED
    BY <2>1, <2>2, <2>3, <2>4
<1>3. CASE ~ HasBatch(th)
  <2>1. th.batch = nil /\ th.next = nil /\ th.pc # "destruct"
    BY <1>3 DEF ThreadSound, HasBatch
  <2>2. Chain(link, nil) = {}
    BY ChainOfNil
  <2>3. Batch(th) = {}
    BY <2>1, <2>2 DEF Batch
  <2> QED
    BY <2>1, <2>2, <2>3
<1> QED
  BY <1>1, <1>2, <1>3

LEMMA ThreadsAndStores ==
  /\ IsFiniteSet(Clients) /\ IsFiniteSet(Stores)
  /\ Clients \subseteq Threads /\ nil \notin Threads
  /\ Keeper \in Threads /\ Keeper \notin Clients /\ Writer \in Clients
<1>1. Clients \subseteq Threads /\ nil \notin Threads /\ Keeper \in Threads
      /\ Keeper \notin Clients /\ Writer \in Clients
  BY NilAssumption, ThreadsAssumption DEF Threads, Clients
<1>2. IsFiniteSet(Clients)
  BY <1>1, FiniteAssumption, FS_Subset
<1>3. IsFiniteSet(Stores)
  <2>1. 1 \in Int /\ 2 \in Int
    OBVIOUS
  <2>2. IsFiniteSet(1 .. 2)
    BY <2>1, FS_Interval
  <2> QED
    BY <2>2 DEF Stores
<1> QED
  BY <1>1, <1>2, <1>3

LEMMA CountTypes ==
  ASSUME NEW s
  PROVE  /\ IsFiniteSet(Holders(s)) /\ IsFiniteSet(Referrers(s))
         /\ Cardinality(Holders(s)) \in Nat /\ Cardinality(Referrers(s)) \in Nat
<1>1. Holders(s) \subseteq Clients /\ Referrers(s) \subseteq Slots
  BY DEF Holders, Referrers
<1>2. IsFiniteSet(Holders(s)) /\ IsFiniteSet(Referrers(s))
  BY <1>1, FiniteAssumption, ThreadsAndStores, FS_Subset
<1> QED
  BY <1>2, FS_CardinalityType

\* The count of a slot is positive just when something refers to it.
LEMMA CountIsPositive ==
  ASSUME CountsExact, NEW s \in Slots, s \notin free
  PROVE  /\ count[s] \in Nat
         /\ count[s] > 0 <=> Holders(s) # {} \/ Referrers(s) # {} \/ d_current.slot = s
<1>1. PICK a, b, c : /\ a = Cardinality(Holders(s)) /\ b = Cardinality(Referrers(s))
                     /\ c = IF d_current.slot = s THEN 1 ELSE 0
  OBVIOUS
<1>2. count[s] = a + b + c /\ a \in Nat /\ b \in Nat /\ c \in Nat
  BY <1>1, CountTypes DEF CountsExact
<1>3. (a = 0 <=> Holders(s) = {}) /\ (b = 0 <=> Referrers(s) = {})
  BY <1>1, CountTypes, FS_EmptySet
<1>4. c # 0 <=> d_current.slot = s
  BY <1>1
<1>5. count[s] \in Nat /\ (count[s] > 0 <=> a # 0 \/ b # 0 \/ c # 0)
  BY <1>2
<1> QED
  BY <1>3, <1>4, <1>5

LEMMA RefsCount ==
  ASSUME RefsFound, CountsExact
  PROVE  /\ \A t \in Clients : \A r \in held[t] : count[r.slot] \in Nat /\ count[r.slot] > 0
         /\ \A s \in Slots : edge[s] # NoRef => count[edge[s].slot] \in Nat /\ count[edge[s].slot] > 0
         /\ d_current # NoRef => count[d_current.slot] \in Nat /\ count[d_current.slot] > 0
<1>1. ASSUME NEW t \in Clients, NEW r \in held[t]
      PROVE  count[r.slot] \in Nat /\ count[r.slot] > 0
  <2>1. r.slot \in Slots /\ r.slot \notin free
    BY DEF RefsFound, Live
  <2>2. t \in Holders(r.slot)
    BY DEF Holders, HeldSlots
  <2> QED
    BY <2>1, <2>2, CountIsPositive
<1>2. ASSUME NEW s \in Slots, edge[s] # NoRef
      PROVE  count[edge[s].slot] \in Nat /\ count[edge[s].slot] > 0
  <2>1. edge[s].slot \in Slots /\ edge[s].slot \notin free
    BY <1>2 DEF RefsFound, Live
  <2>2. s \in Referrers(edge[s].slot)
    BY DEF Referrers
  <2> QED
    BY <2>1, <2>2, CountIsPositive
<1>3. ASSUME d_current # NoRef
      PROVE  count[d_current.slot] \in Nat /\ count[d_current.slot] > 0
  BY <1>3, CountIsPositive DEF RefsFound, Live
<1> QED
  BY <1>1, <1>2, <1>3

LEMMA SlotsFollow == SlotsInv => SlotsSound
<1> SUFFICES ASSUME SlotsInv PROVE SlotsSound
  OBVIOUS
<1>1. TypeOK /\ RefsFound /\ CountsExact /\ link \in Links
  BY DEF SlotsInv, TypeOK, Links, SlotOrNil
<1>2. RefsAreLive
  <2> SUFFICES ASSUME NEW r \in AllRefs
               PROVE  r.slot \notin free /\ count[r.slot] > 0 /\ generation[r.slot] = r.gen
    BY DEF RefsAreLive
  <2> r # NoRef
    BY DEF AllRefs
  <2>1. CASE r = d_current
    BY <1>1, <2>1, RefsCount DEF RefsFound, Live
  <2>2. CASE \E t \in Clients : r \in held[t]
    BY <1>1, <2>2, RefsCount DEF RefsFound, Live
  <2>3. CASE \E s \in Slots : r = edge[s]
    <3>1. PICK s \in Slots : r = edge[s]
      BY <2>3
    <3>2. count[edge[s].slot] > 0 /\ Live(edge[s])
      BY <1>1, <3>1, RefsCount DEF RefsFound
    <3> QED
      BY <3>1, <3>2 DEF Live
  <2>4. r = d_current \/ (\E t \in Clients : r \in held[t]) \/ (\E s \in Slots : r = edge[s])
    <3>1. \/ r = d_current \/ r \in UNION {held[t] : t \in Clients}
          \/ r \in {edge[s] : s \in Slots}
      BY Zenon DEF AllRefs
    <3>2. r \in UNION {held[t] : t \in Clients} => \E t \in Clients : r \in held[t]
      BY Zenon
    <3>3. r \in {edge[s] : s \in Slots} => \E s \in Slots : r = edge[s]
      BY Zenon
    <3> QED
      BY <3>1, <3>2, <3>3
  <2> QED
    BY <2>1, <2>2, <2>3, <2>4
<1>3. DeadInOnePlace
  <2> SUFFICES ASSUME NEW s \in Slots
               PROVE  Cardinality(OnList(s)) + Cardinality(InPush(s)) + Cardinality(InBatch(s))
                        = IF s \notin free /\ count[s] = 0 THEN 1 ELSE 0
    BY DEF DeadInOnePlace
  <2>1. PICK L, Q, B, D : L = Lists /\ Q = Pushes /\ B = Batches /\ D = Dead
    OBVIOUS
  <2>2. Placed(L, Q, B, D)
    BY <2>1 DEF SlotsInv, DeadPlaced
  <2>3. PICK O, U, V : O = OnList(s) /\ U = InPush(s) /\ V = InBatch(s)
    OBVIOUS
  <2>4. O = {i \in Stores : s \in L[i]}
    BY <2>1, <2>3 DEF OnList, Lists
  <2>5. U = {t \in Threads : s = Q[t]}
    BY <2>1, <2>3, NilAssumption DEF InPush, Pushes, PushedSlot
  <2>6. V = {t \in Threads : s \in B[t]}
    <3>1. \A t \in Threads : Batch(thread[t]) = B[t]
      BY <1>1, <2>1, BatchIsList DEF Batches, SlotsInv, TypeOK
    <3> QED
      BY <2>3, <3>1 DEF InBatch
  <2>7. s \in D <=> s \notin free /\ count[s] = 0
    BY <2>1 DEF Dead
  <2>8. CASE s \notin D
    <3>1. O = {} /\ U = {} /\ V = {}
      BY <2>2, <2>4, <2>5, <2>6, <2>8, NilAssumption DEF Placed
    <3> QED
      BY <2>3, <2>7, <2>8, <3>1, FS_EmptySet
  <2>9. CASE s \in D
    <3>1. CASE \E i \in Stores : s \in L[i]
      <4>1. PICK i \in Stores : O = {i}
        BY <2>2, <2>4, <3>1 DEF Placed
      <4>2. U = {} /\ V = {}
        BY <2>2, <2>5, <2>6, <3>1 DEF Placed
      <4>3. Cardinality(O) = 1 /\ Cardinality(U) = 0 /\ Cardinality(V) = 0
        BY <4>1, <4>2, FS_EmptySet, FS_Singleton
      <4> QED
        BY <2>3, <2>7, <2>9, <4>3
    <3>2. CASE \E t \in Threads : s = Q[t]
      <4>1. PICK t \in Threads : U = {t}
        BY <2>2, <2>5, <3>2, NilAssumption DEF Placed
      <4>2. O = {} /\ V = {}
        BY <2>2, <2>4, <2>6, <3>2 DEF Placed
      <4>3. Cardinality(O) = 0 /\ Cardinality(U) = 1 /\ Cardinality(V) = 0
        BY <4>1, <4>2, FS_EmptySet, FS_Singleton
      <4> QED
        BY <2>3, <2>7, <2>9, <4>3
    <3>3. CASE \E t \in Threads : s \in B[t]
      <4>1. PICK t \in Threads : V = {t}
        BY <2>2, <2>6, <3>3 DEF Placed
      <4>2. O = {} /\ U = {}
        BY <2>2, <2>4, <2>5, <3>3 DEF Placed
      <4>3. Cardinality(O) = 0 /\ Cardinality(U) = 0 /\ Cardinality(V) = 1
        BY <4>1, <4>2, FS_EmptySet, FS_Singleton
      <4> QED
        BY <2>3, <2>7, <2>9, <4>3
    <3> QED
      BY <2>2, <2>9, <3>1, <3>2, <3>3 DEF Placed
  <2> QED
    BY <2>8, <2>9
<1> QED
  BY <1>1, <1>2, <1>3 DEF SlotsSound, SlotsInv

LEMMA SlotsInit == Init => SlotsInv
<1> SUFFICES ASSUME Init PROVE SlotsInv
  OBVIOUS
<1>1. Idle \in ThreadState /\ [Idle EXCEPT !.pc = "start"] \in ThreadState
  <2>1. nil \in SlotOrNil /\ 1 \in Stores
    BY DEF SlotOrNil, Stores
  <2>2. Idle \in ThreadState
    BY <2>1 DEF Idle, ThreadState
  <2> QED
    BY <2>2 DEF ThreadState
<1>2. thread \in [Threads -> ThreadState]
  BY <1>1 DEF Init
<1>3. NoRef \in RefType /\ free = Slots /\ creates \in 0 .. MaxCreates
  BY MaxCreatesAssumption DEF NoRef, RefType, SlotOrNil, Init
<1>4. TypeOK
  BY <1>2, <1>3 DEF Init, TypeOK, SlotOrNil
<1>5. \A t \in Threads : thread[t].pc \in {"idle", "start"} /\ thread[t].batch = nil
                         /\ thread[t].next = nil
  BY DEF Init, Idle
<1>6. RefsFound /\ CountsExact /\ EdgesCut /\ Dead = {} /\ Slots \ free = {}
  BY <1>3, <1>5 DEF Init, RefsFound, CountsExact, EdgesCut, Dead, HasBatch
<1>7. \A t \in Threads : ThreadSound(thread[t])
  BY <1>5 DEF ThreadSound, HasBatch
<1>8. DeadPlaced
  <2>1. PICK L, Q, B, D : L = Lists /\ Q = Pushes /\ B = Batches /\ D = Dead
    OBVIOUS
  <2>2. Chain(link, nil) = {}
    BY ChainOfNil
  <2>3. \A i \in Stores : L[i] = {}
    BY <2>1, <2>2 DEF Lists, Init
  <2>4. \A t \in Threads : Q[t] = nil /\ B[t] = {}
    BY <1>5, <2>1, <2>2 DEF Pushes, PushedSlot, Batches
  <2>5. Placed(L, Q, B, D)
    BY <1>6, <2>1, <2>3, <2>4 DEF Placed
  <2> QED
    BY <2>1, <2>5 DEF DeadPlaced
<1>9. Acyclic
  BY <1>6 DEF Acyclic
<1> QED
  BY <1>4, <1>6, <1>7, <1>8, <1>9 DEF SlotsInv

\* A thread that neither pushes nor has a batch.
Resting(th) == /\ th.pc \notin {"enqueue", "cas", "destruct", "bump", "release"}
               /\ th.batch = nil /\ th.next = nil

LEMMA RestingIsSound ==
  ASSUME NEW th
  PROVE  /\ Resting(th) => ThreadSound(th) /\ PushedSlot(th) = nil /\ ~ HasBatch(th)
         /\ ThreadSound(th) /\ th.pc \notin {"enqueue", "cas", "destruct", "bump", "release"}
              => Resting(th)
BY DEF Resting, ThreadSound, PushedSlot, HasBatch

LEMMA DeadIsNotNil == nil \notin Dead /\ Dead \subseteq Slots
BY NilAssumption DEF Dead

\* Neither the lists nor what is dead changes.
LEMMA PlacesKept ==
  ASSUME SlotsInv, UNCHANGED lists, Dead' = Dead,
         \A t \in Threads : /\ PushedSlot(thread'[t]) = PushedSlot(thread[t])
                            /\ thread'[t].batch = thread[t].batch
  PROVE  DeadPlaced' /\ Acyclic'
<1>1. link' = link /\ d_reclaim_head' = d_reclaim_head
  BY DEF lists
<1>2. PICK L, Q, B, D : L = Lists /\ Q = Pushes /\ B = Batches /\ D = Dead
  OBVIOUS
<1>3. PICK L2, Q2, B2, D2 : L2 = Lists' /\ Q2 = Pushes' /\ B2 = Batches' /\ D2 = Dead'
  OBVIOUS
<1>4. \A i \in Stores : L2[i] = L[i]
  BY <1>1, <1>2, <1>3 DEF Lists
<1>5. \A t \in Threads : Q2[t] = Q[t]
  BY <1>2, <1>3 DEF Pushes
<1>6. \A t \in Threads : B2[t] = B[t]
  BY <1>1, <1>2, <1>3 DEF Batches
<1>7. Placed(L, Q, B, D)
  BY <1>2 DEF SlotsInv, DeadPlaced
<1>8. nil \notin D
  BY <1>2, DeadIsNotNil
<1>9. Placed(L2, Q2, B2, D)
  BY <1>4, <1>5, <1>6, <1>7, <1>8, PlacedSame
<1>10. DeadPlaced'
  BY <1>2, <1>3, <1>9 DEF DeadPlaced
<1>11. Acyclic'
  <2>1. \A s \in D : (\A t \in Threads : Q[t] # s) => s \notin Chain(link, link[s])
    BY <1>2 DEF SlotsInv, Acyclic
  <2>2. \A s \in D2 : (\A t \in Threads : Q2[t] # s) => s \notin Chain(link', link'[s])
    BY <1>1, <1>2, <1>3, <1>5, <2>1
  <2> QED
    BY <1>3, <2>2 DEF Acyclic
<1> QED
  BY <1>10, <1>11

\* Threads that neither push nor have a batch go on.
LEMMA RestingStep ==
  ASSUME SlotsInv, UNCHANGED <<lists, free, count, edge>>,
         \A t \in Threads : thread'[t] = thread[t] \/ (Resting(thread[t]) /\ Resting(thread'[t]))
  PROVE  DeadPlaced' /\ Acyclic' /\ EdgesCut' /\ \A t \in Threads : ThreadSound(thread[t])'
<1>1. ASSUME NEW t \in Threads
      PROVE  /\ PushedSlot(thread'[t]) = PushedSlot(thread[t])
             /\ thread'[t].batch = thread[t].batch
             /\ HasBatch(thread'[t]) => thread'[t] = thread[t]
             /\ ThreadSound(thread[t])'
  <2>1. CASE thread'[t] = thread[t]
    <3>1. ThreadSound(thread[t]) /\ link' = link
      BY DEF SlotsInv, lists
    <3> QED
      BY <2>1, <3>1 DEF ThreadSound
  <2>2. CASE Resting(thread[t]) /\ Resting(thread'[t])
    BY <2>2 DEF Resting, PushedSlot, ThreadSound, HasBatch
  <2> QED
    BY <2>1, <2>2
<1>2. Dead' = Dead
  BY DEF Dead
<1>3. DeadPlaced' /\ Acyclic'
  BY <1>1, <1>2, PlacesKept
<1>4. EdgesCut'
  BY <1>1 DEF SlotsInv, EdgesCut
<1> QED
  BY <1>1, <1>3, <1>4

\* The slot q dies and thread t goes on to push it.
LEMMA PlacesDie ==
  ASSUME SlotsInv, UNCHANGED lists, NEW q \in Slots \ Dead, Dead' = Dead \cup {q},
         NEW t \in Threads, \A u \in Threads : u # t => thread'[u] = thread[u],
         PushedSlot(thread[t]) = nil, PushedSlot(thread'[t]) = q,
         thread'[t].batch = thread[t].batch, ThreadSound(thread[t])'
  PROVE  DeadPlaced' /\ Acyclic' /\ \A u \in Threads : ThreadSound(thread[u])'
<1>1. link' = link /\ d_reclaim_head' = d_reclaim_head
  BY DEF lists
<1>2. PICK L, Q, B, D : L = Lists /\ Q = Pushes /\ B = Batches /\ D = Dead
  OBVIOUS
<1>3. PICK L2, Q2, B2, D2 : L2 = Lists' /\ Q2 = Pushes' /\ B2 = Batches' /\ D2 = Dead'
  OBVIOUS
<1>4. \A i \in Stores : L2[i] = L[i]
  BY <1>1, <1>2, <1>3 DEF Lists
<1>5. ASSUME NEW u \in Threads PROVE ThreadSound(thread[u])'
  <2>1. ThreadSound(thread[u])
    BY DEF SlotsInv
  <2> QED
    BY <1>1, <2>1 DEF ThreadSound
<1>6. \A u \in Threads : Q2[u] = IF u = t THEN q ELSE Q[u]
  BY <1>2, <1>3 DEF Pushes
<1>7. \A u \in Threads : B2[u] = B[u]
  BY <1>1, <1>2, <1>3 DEF Batches
<1>8. Placed(L, Q, B, D) /\ nil \notin D /\ q # nil /\ Q[t] = nil /\ q \notin D
  BY <1>2, NilAssumption, DeadIsNotNil DEF SlotsInv, DeadPlaced, Pushes
<1>9. Placed(L2, Q2, B2, D2)
  <2>1. \A u \in Threads : Q2[u] = (IF u = t THEN q ELSE Q[u]) /\ B2[u] = B[u]
    BY <1>6, <1>7
  <2>2. D2 = D \cup {q}
    BY <1>2, <1>3
  <2> QED
    BY <1>4, <1>8, <2>1, <2>2, PlacedDies
<1>10. DeadPlaced'
  BY <1>3, <1>9 DEF DeadPlaced
<1>11. Acyclic'
  <2>1. \A s \in D : (\A u \in Threads : Q[u] # s) => s \notin Chain(link, link[s])
    BY <1>2 DEF SlotsInv, Acyclic
  <2>2. ASSUME NEW s \in D2, \A u \in Threads : Q2[u] # s
        PROVE  s \notin Chain(link', link'[s])
    <3>1. s # q /\ s \in D
      BY <1>2, <1>3, <1>6, <2>2
    <3>2. \A u \in Threads : Q[u] # s
      <4>1. s # nil
        BY <1>8, <3>1
      <4> QED
        BY <1>6, <1>8, <2>2, <4>1
    <3> QED
      BY <1>1, <2>1, <3>1, <3>2
  <2> QED
    BY <1>3, <2>2 DEF Acyclic
<1> QED
  BY <1>5, <1>10, <1>11

\* Besides, references stay as they are.
LEMMA QuietStep ==
  ASSUME SlotsInv, UNCHANGED <<columns, lists, refs>>, TypeOK',
         \A t \in Threads : thread'[t] = thread[t] \/ (Resting(thread[t]) /\ Resting(thread'[t]))
  PROVE  SlotsInv'
<1>1. UNCHANGED <<lists, free, count, edge, generation, d_current, held>>
  BY DEF columns, refs
<1>2. DeadPlaced' /\ Acyclic' /\ EdgesCut' /\ \A t \in Threads : ThreadSound(thread[t])'
  BY <1>1, RestingStep
<1>3. RefsFound'
  BY <1>1 DEF SlotsInv, RefsFound, Live
<1>4. CountsExact'
  BY <1>1 DEF SlotsInv, CountsExact, Holders, HeldSlots, Referrers
<1> QED
  BY <1>2, <1>3, <1>4 DEF SlotsInv

\* What a step makes of one thread.
LEMMA ThreadSteps ==
  ASSUME thread \in [Threads -> ThreadState], NEW t \in Threads, NEW x \in ThreadState,
         thread' = [thread EXCEPT ![t] = x]
  PROVE  /\ thread' \in [Threads -> ThreadState] /\ thread'[t] = x
         /\ \A u \in Threads : u # t => thread'[u] = thread[u]
OBVIOUS

(***************************************************************************)
(* Steps that move no slot.                                                *)
(***************************************************************************)
NoSlotMoves ==
  \/ run \/ period \/ tick \/ exit \/ poke \/ request_stop
  \/ \E t \in Clients : lock(t) \/ unlock(t) \/ drain_and_quiesce(t) \/ flush(t) \/ flush_wakes(t)

\* The threads at rest.  Those that neither push nor have a batch are.
Rest == {th \in ThreadState : Resting(th)}
Settled(ths) ==
  /\ ths \in [Threads -> ThreadState]
  /\ \A t \in Threads : \/ ths[t].pc \in {"enqueue", "cas", "destruct", "bump", "release"}
                        \/ ths[t] \in Rest

Away == {"idle", "lock", "waiting", "recheck", "start", "parked", "notified", "elapsed", "exited"}
Calm == Away \cup {"exchange", "quiet"}
\* Those that have not begun to drain.
Fresh == {th \in Rest : th.pc \in Away \/ (th.pc = "exchange" /\ th.store = 1)}

\* Only threads at rest go on, and are fresh then.
Undisturbed(ths, ths2) ==
  /\ Settled(ths2)
  /\ \A t \in Threads : ths2[t] = ths[t] \/ (ths[t] \in Rest /\ ths2[t] \in Fresh)

LEMMA SettledNow == SlotsInv => Settled(thread)
BY DEF SlotsInv, TypeOK, Settled, Rest, Resting, ThreadSound, HasBatch

LEMMA IdleRests ==
  /\ Idle \in Fresh /\ Parked \in Fresh
  /\ \A p \in Away : [Idle EXCEPT !.pc = p] \in Fresh
<1>1. Idle \in ThreadState
  <2>1. nil \in SlotOrNil /\ 1 \in Stores
    BY DEF SlotOrNil, Stores
  <2> QED
    BY <2>1 DEF Idle, ThreadState
<1>2. ASSUME NEW p \in Away PROVE [Idle EXCEPT !.pc = p] \in Fresh
  <2>1. [Idle EXCEPT !.pc = p] \in ThreadState
    BY <1>1 DEF ThreadState, Away
  <2>2. Resting([Idle EXCEPT !.pc = p]) /\ [Idle EXCEPT !.pc = p].pc = p
    BY DEF Idle, Away, Resting
  <2> QED
    BY <2>1, <2>2 DEF Rest, Fresh
<1>3. Resting(Idle) /\ Idle.pc \in Away
  BY DEF Idle, Resting, Away
<1>4. "parked" \in Away
  BY DEF Away
<1> QED
  BY <1>1, <1>2, <1>3, <1>4 DEF Rest, Fresh, Parked

LEMMA RestGoesOn ==
  ASSUME NEW th \in Rest
  PROVE  /\ Draining(th) \in Fresh
         /\ \A p \in Away : [th EXCEPT !.pc = p] \in Fresh
         /\ \A j \in {"tick", "exit"} : [Draining(th) EXCEPT !.job = j] \in Fresh
         /\ th.pc \in Away => [th EXCEPT !.ticked = TRUE] \in Fresh
<1>1. 1 \in Stores
  BY DEF Stores
<1>2. th \in ThreadState /\ Resting(th)
  BY DEF Rest
<1>3. Draining(th) \in Fresh
  BY <1>1, <1>2 DEF Rest, Resting, ThreadState, Draining, Fresh
<1>4. \A p \in Away : [th EXCEPT !.pc = p] \in Fresh
  BY <1>2 DEF Rest, Resting, ThreadState, Away, Fresh
<1>5. \A j \in {"tick", "exit"} : [Draining(th) EXCEPT !.job = j] \in Fresh
  BY <1>1, <1>2 DEF Rest, Resting, ThreadState, Draining, Fresh
<1>6. th.pc \in Away => [th EXCEPT !.ticked = TRUE] \in Fresh
  BY <1>2 DEF Rest, Resting, ThreadState, Fresh
<1> QED
  BY <1>3, <1>4, <1>5, <1>6

\* One thread at rest goes on.
LEMMA OneRests ==
  ASSUME NEW ths, Settled(ths), NEW t \in Threads, ths[t] \in Rest, NEW x \in Fresh
  PROVE  Undisturbed(ths, [ths EXCEPT ![t] = x])
BY DEF Undisturbed, Settled, Rest, Fresh

LEMMA UndisturbedTwice ==
  ASSUME NEW a, NEW b, NEW c, Undisturbed(a, b), Undisturbed(b, c)
  PROVE  Undisturbed(a, c)
BY DEF Undisturbed, Fresh

LEMMA ManyRest ==
  ASSUME NEW ths, Settled(ths)
  PROVE  /\ Undisturbed(ths, Progressed(ths)) /\ Undisturbed(ths, Ticked(ths))
         /\ Undisturbed(ths, Notified(ths)) /\ Undisturbed(ths, ths)
<1>1. "waiting" \in Away /\ "recheck" \in Away /\ "notified" \in Away /\ Keeper \in Threads
  BY DEF Away, Threads
<1>2. Undisturbed(ths, ths)
  BY DEF Undisturbed
<1>3. \A t \in Threads : ths[t].pc \in {"waiting", "recheck", "parked"} => ths[t] \in Rest
  BY DEF Settled
<1>4. Undisturbed(ths, Progressed(ths))
  <2>1. \A t \in Threads : Progressed(ths)[t] = IF ths[t].pc = "waiting" THEN [ths[t] EXCEPT !.pc = "recheck"] ELSE ths[t]
    BY DEF Progressed
  <2>2. \A t \in Threads : ths[t].pc = "waiting" => [ths[t] EXCEPT !.pc = "recheck"] \in Fresh
    BY <1>1, <1>3, RestGoesOn
  <2>3. Progressed(ths) \in [Threads -> ThreadState]
    BY <2>2 DEF Settled, Progressed, Rest, Fresh
  <2> QED
    BY <1>3, <2>1, <2>2, <2>3 DEF Undisturbed, Settled, Fresh
<1>5. Undisturbed(ths, Ticked(ths))
  <2>1. \A t \in Threads : Ticked(ths)[t] = IF ths[t].pc \in {"waiting", "recheck"} THEN [ths[t] EXCEPT !.ticked = TRUE] ELSE ths[t]
    BY DEF Ticked
  <2>2. \A t \in Threads : ths[t].pc \in {"waiting", "recheck"} => [ths[t] EXCEPT !.ticked = TRUE] \in Fresh
    BY <1>1, <1>3, RestGoesOn
  <2>3. Ticked(ths) \in [Threads -> ThreadState]
    BY <2>2 DEF Settled, Ticked, Rest, Fresh
  <2> QED
    BY <1>3, <2>1, <2>2, <2>3 DEF Undisturbed, Settled, Fresh
<1>6. Undisturbed(ths, Notified(ths))
  <2>1. CASE ths[Keeper].pc = "parked"
    <3>1. PICK x : x = [ths[Keeper] EXCEPT !.pc = "notified"]
      OBVIOUS
    <3>2. Notified(ths) = [ths EXCEPT ![Keeper] = x]
      BY <2>1, <3>1 DEF Notified
    <3>3. ths[Keeper] \in Rest
      BY <1>1, <1>3, <2>1
    <3>4. x \in Fresh
      BY <1>1, <3>1, <3>3, RestGoesOn
    <3>5. Undisturbed(ths, [ths EXCEPT ![Keeper] = x])
      BY <1>1, <3>3, <3>4, OneRests
    <3> QED
      BY <3>2, <3>5
  <2>2. CASE ths[Keeper].pc # "parked"
    <3>1. ths[Keeper] \in ThreadState
      BY <1>1 DEF Settled
    <3>2. [ths[Keeper] EXCEPT !.pc = ths[Keeper].pc] = ths[Keeper]
      BY <3>1 DEF ThreadState
    <3>3. Notified(ths) = [ths EXCEPT ![Keeper] = [ths[Keeper] EXCEPT !.pc = ths[Keeper].pc]]
      BY <2>2 DEF Notified
    <3>4. Notified(ths) = ths
      BY <3>2, <3>3 DEF Settled
    <3> QED
      BY <1>2, <3>4
  <2> QED
    BY <2>1, <2>2
<1> QED
  BY <1>2, <1>4, <1>5, <1>6

\* The threads after such a step.
LEMMA NoSlotMovesRests ==
  ASSUME SlotsInv, NoSlotMoves
  PROVE  Undisturbed(thread, thread')
<1>1. Settled(thread) /\ Clients \subseteq Threads /\ Keeper \in Threads
  BY SettledNow, ThreadsAndStores
<1>2. \A t \in Threads : thread[t].pc \in Calm => thread[t] \in Rest
  BY <1>1 DEF Settled, Calm, Away
<1>3. \A t \in Threads, x \in Fresh :
        thread[t].pc \in Calm => Undisturbed(thread, [thread EXCEPT ![t] = x])
  BY <1>1, <1>2, OneRests
<1>4. CASE run
  <2>1. thread[Keeper].pc \in Calm
    BY <1>4 DEF run, Calm, Away
  <2>2. PICK x : x = Check(thread[Keeper], thread[Keeper].pc = "elapsed")
    OBVIOUS
  <2>3. x \in Fresh
    <3>1. thread[Keeper] \in Rest
      BY <1>1, <1>2, <2>1
    <3>2. "parked" \in Away
      BY DEF Away
    <3> QED
      BY <2>2, <3>1, <3>2, RestGoesOn DEF Check
  <2>4. thread' = [thread EXCEPT ![Keeper] = x]
    BY <1>4, <2>2 DEF run
  <2> QED
    BY <1>1, <1>3, <2>1, <2>3, <2>4
<1>5. CASE period
  <2>1. thread[Keeper].pc \in Calm /\ "elapsed" \in Away
    BY <1>5 DEF period, Calm, Away
  <2>2. [thread[Keeper] EXCEPT !.pc = "elapsed"] \in Fresh
    BY <1>1, <1>2, <2>1, RestGoesOn
  <2>3. thread' = [thread EXCEPT ![Keeper] = [thread[Keeper] EXCEPT !.pc = "elapsed"]]
    BY <1>5 DEF period
  <2> QED
    BY <1>1, <1>3, <2>1, <2>2, <2>3
<1>6. CASE tick
  <2>1. thread[Keeper].pc \in Calm
    BY <1>6 DEF tick, Calm, Away
  <2>2. PICK a, b : a = [thread EXCEPT ![Keeper] = Parked] /\ b = Ticked(a)
    OBVIOUS
  <2>3. Undisturbed(thread, a)
    BY <1>1, <1>3, <2>1, <2>2, IdleRests
  <2>4. Undisturbed(a, b)
    BY <2>2, <2>3, ManyRest DEF Undisturbed
  <2>5. Undisturbed(b, Progressed(b)) /\ thread' = Progressed(b)
    BY <1>6, <2>2, <2>4, ManyRest DEF Undisturbed, tick
  <2> QED
    BY <2>3, <2>4, <2>5, UndisturbedTwice
<1>7. CASE exit
  <2>1. thread[Keeper].pc \in Calm /\ "exited" \in Away
    BY <1>7 DEF exit, Calm, Away
  <2>2. [Idle EXCEPT !.pc = "exited"] \in Fresh
    BY <2>1, IdleRests
  <2> QED
    BY <1>1, <1>3, <1>7, <2>1, <2>2 DEF exit
<1>8. CASE poke
  BY <1>1, <1>8, ManyRest DEF poke
<1>9. CASE request_stop
  <2>1. PICK a : a = Notified(thread)
    OBVIOUS
  <2>2. Undisturbed(thread, a)
    BY <1>1, <2>1, ManyRest
  <2>3. Undisturbed(a, Progressed(a)) /\ thread' = Progressed(a)
    BY <1>9, <2>1, <2>2, ManyRest DEF Undisturbed, request_stop
  <2> QED
    BY <2>2, <2>3, UndisturbedTwice
<1>10. ASSUME NEW t \in Clients, lock(t) \/ unlock(t) \/ drain_and_quiesce(t) \/ flush_wakes(t)
       PROVE  Undisturbed(thread, thread')
  <2>1. thread[t].pc \in Calm /\ t \in Threads /\ "lock" \in Away /\ "waiting" \in Away
    BY <1>1, <1>10 DEF lock, unlock, drain_and_quiesce, flush_wakes, Calm, Away
  <2>2. thread[t] \in Rest
    BY <1>2, <2>1
  <2>3. Draining(thread[t]) \in Fresh /\ [thread[t] EXCEPT !.pc = "lock"] \in Fresh
        /\ [thread[t] EXCEPT !.pc = "waiting"] \in Fresh
    BY <2>1, <2>2, RestGoesOn
  <2>4. \E x \in Fresh : thread' = [thread EXCEPT ![t] = x]
    BY <1>10, <2>3, IdleRests DEF lock, unlock, drain_and_quiesce, flush_wakes
  <2> QED
    BY <1>3, <2>1, <2>4
<1>11. ASSUME NEW t \in Clients, flush(t) PROVE Undisturbed(thread, thread')
  <2>1. thread[t].pc \in Calm /\ t \in Threads /\ "waiting" \in Away
    BY <1>1, <1>11 DEF flush, Calm, Away
  <2>2. PICK a : a = IF d_stop THEN thread
                     ELSE [thread EXCEPT ![t] = [Idle EXCEPT !.pc = "waiting"]]
    OBVIOUS
  <2>3. Undisturbed(thread, a)
    <3>1. [Idle EXCEPT !.pc = "waiting"] \in Fresh
      BY <2>1, IdleRests
    <3> QED
      BY <1>1, <1>3, <2>1, <2>2, <3>1, ManyRest
  <2>4. Undisturbed(a, Notified(a)) /\ thread' = Notified(a)
    BY <1>11, <2>2, <2>3, ManyRest DEF Undisturbed, flush
  <2> QED
    BY <2>3, <2>4, UndisturbedTwice
<1> QED
  BY <1>4, <1>5, <1>6, <1>7, <1>8, <1>9, <1>10, <1>11 DEF NoSlotMoves

LEMMA NoSlotMovesStep ==
  ASSUME SlotsInv, NoSlotMoves
  PROVE  SlotsInv'
<1>1. Undisturbed(thread, thread') /\ Clients \subseteq Threads /\ Keeper \in Threads
  BY NoSlotMovesRests, ThreadsAndStores
<1>2. UNCHANGED <<columns, lists, refs, creates>>
  BY DEF NoSlotMoves, run, period, tick, exit, poke, request_stop, lock, unlock,
         drain_and_quiesce, flush, flush_wakes
<1>3. thread' \in [Threads -> ThreadState]
  BY <1>1 DEF Undisturbed, Settled
<1>4. d_mutex' \in Threads \cup {nil} /\ d_stop' \in BOOLEAN /\ d_poke' \in BOOLEAN
  <2>1. d_mutex \in Threads \cup {nil} /\ d_stop \in BOOLEAN /\ d_poke \in BOOLEAN
    BY DEF SlotsInv, TypeOK
  <2>2. /\ d_mutex' \in {d_mutex, nil, Keeper} \/ \E t \in Clients : d_mutex' = t
        /\ d_stop' \in {d_stop, TRUE}
    BY DEF NoSlotMoves, run, period, tick, exit, poke, request_stop, lock, unlock,
           drain_and_quiesce, flush, flush_wakes, flags
  <2>3. d_poke' \in {d_poke, TRUE} \/ \E x : d_poke' = (d_poke /\ x # "tick")
    BY DEF NoSlotMoves, run, period, tick, exit, poke, request_stop, lock, unlock,
           drain_and_quiesce, flush, flush_wakes, flags
  <2> QED
    BY <1>1, <2>1, <2>2, <2>3
<1>5. due' \in [Clients -> SUBSET RefType]
  <2>1. due \in [Clients -> SUBSET RefType] /\ generation \in [Slots -> Nat]
    BY DEF SlotsInv, TypeOK
  <2>2. {Ref(s) : s \in Doomed} \subseteq RefType
    BY <2>1 DEF Doomed, Ref, RefType, SlotOrNil
  <2>3. \/ due' = due
        \/ \E t \in Clients : due' = [due EXCEPT ![t] = {}] \/ due' = [due EXCEPT ![t] = due[t]]
                              \/ due' = [due EXCEPT ![t] = {Ref(s) : s \in Doomed}]
    BY DEF NoSlotMoves, run, period, tick, exit, poke, request_stop, lock, unlock,
           drain_and_quiesce, flush, flush_wakes
  <2> QED
    BY <2>1, <2>2, <2>3
<1>6. TypeOK'
  BY <1>2, <1>3, <1>4, <1>5 DEF SlotsInv, TypeOK, columns, lists, refs
<1>7. \A t \in Threads : thread'[t] = thread[t] \/ (Resting(thread[t]) /\ Resting(thread'[t]))
  BY <1>1 DEF Undisturbed, Rest, Fresh
<1> QED
  BY <1>2, <1>6, <1>7, QuietStep

(***************************************************************************)
(* Steps on references.                                                    *)
(***************************************************************************)
LEMMA OneMore ==
  ASSUME NEW S, IsFiniteSet(S), NEW x, NEW T, T = S \cup {x}, x \notin S
  PROVE  Cardinality(T) = Cardinality(S) + 1 /\ Cardinality(S) \in Nat
BY FS_AddElement, FS_CardinalityType

LEMMA OneLess ==
  ASSUME NEW S, IsFiniteSet(S), NEW x, NEW T, T = S \ {x}, x \in S
  PROVE  Cardinality(T) = Cardinality(S) - 1 /\ Cardinality(S) \in Nat
BY FS_RemoveElement, FS_CardinalityType

LEMMA HoldersTaken ==
  ASSUME held \in [Clients -> SUBSET RefType], NEW t \in Clients, NEW r \in RefType,
         r.slot \notin HeldSlots(t), held' = [held EXCEPT ![t] = @ \cup {r}], NEW s
  PROVE  Cardinality(Holders(s)') = Cardinality(Holders(s)) + (IF s = r.slot THEN 1 ELSE 0)
<1>1. PICK H, K : H = Holders(s) /\ K = Holders(s)'
  OBVIOUS
<1>2. IsFiniteSet(H) /\ Cardinality(H) \in Nat
  BY <1>1, CountTypes
<1>3. \A u \in Clients : s \in HeldSlots(u)' <=> s \in HeldSlots(u) \/ (u = t /\ s = r.slot)
  BY DEF HeldSlots
<1>4. CASE s = r.slot
  <2>1. K = H \cup {t} /\ t \notin H
    BY <1>1, <1>3, <1>4 DEF Holders
  <2>2. Cardinality(K) = Cardinality(H) + 1
    BY <1>2, <2>1, OneMore
  <2> QED
    BY <1>1, <1>4, <2>2
<1>5. CASE s # r.slot
  <2>1. K = H
    BY <1>1, <1>3, <1>5 DEF Holders
  <2> QED
    BY <1>1, <1>2, <1>5, <2>1
<1> QED
  BY <1>4, <1>5

LEMMA HoldersDropped ==
  ASSUME held \in [Clients -> SUBSET RefType], RefsFound, NEW t \in Clients, NEW r \in held[t],
         held' = [held EXCEPT ![t] = @ \ {r}], NEW s
  PROVE  Cardinality(Holders(s)') = Cardinality(Holders(s)) - (IF s = r.slot THEN 1 ELSE 0)
<1>1. PICK H, K : H = Holders(s) /\ K = Holders(s)'
  OBVIOUS
<1>2. IsFiniteSet(H) /\ Cardinality(H) \in Nat
  BY <1>1, CountTypes
<1>3. ASSUME NEW p \in held[t], p.slot = r.slot PROVE p = r
  <2>1. p \in RefType /\ r \in RefType /\ p.gen = r.gen
    BY <1>3 DEF RefsFound, Live
  <2> QED
    BY <1>3, <2>1 DEF RefType
<1>4. \A u \in Clients : s \in HeldSlots(u)' <=> s \in HeldSlots(u) /\ ~(u = t /\ s = r.slot)
  BY <1>3 DEF HeldSlots
<1>5. CASE s = r.slot
  <2>1. K = H \ {t} /\ t \in H
    BY <1>1, <1>4, <1>5 DEF Holders, HeldSlots
  <2>2. Cardinality(K) = Cardinality(H) - 1
    BY <1>2, <2>1, OneLess
  <2> QED
    BY <1>1, <1>5, <2>2
<1>6. CASE s # r.slot
  <2>1. K = H
    BY <1>1, <1>4, <1>6 DEF Holders
  <2> QED
    BY <1>1, <1>2, <1>6, <2>1
<1> QED
  BY <1>5, <1>6

LEMMA TakeRef ==
  ASSUME SlotsInv, NEW t \in Clients, NEW r \in RefType, Live(r), count[r.slot] > 0,
         r.slot \notin HeldSlots(t),
         count' = [count EXCEPT ![r.slot] = @ + 1], held' = [held EXCEPT ![t] = @ \cup {r}],
         UNCHANGED <<generation, edge, free, lists, d_current, thread, d_mutex, flags, creates, due>>
  PROVE  SlotsInv'
<1>1. TypeOK
  BY DEF SlotsInv
<1>2. r.slot \in Slots /\ r.slot \notin free
  BY DEF Live
<1>3. \A s \in Slots : count[s] \in Nat /\ count'[s] = count[s] + (IF s = r.slot THEN 1 ELSE 0)
  BY <1>1, <1>2 DEF TypeOK
<1>4. TypeOK'
  BY <1>1, <1>2 DEF TypeOK, lists, flags
<1>5. RefsFound'
  BY <1>1 DEF SlotsInv, RefsFound, Live, TypeOK
<1>6. CountsExact'
  <2> SUFFICES ASSUME NEW s \in Slots, s \notin free'
               PROVE  count'[s] = Cardinality(Holders(s)') + Cardinality(Referrers(s)')
                                  + (IF d_current'.slot = s THEN 1 ELSE 0)
    BY DEF CountsExact
  <2>1. Referrers(s)' = Referrers(s) /\ d_current' = d_current /\ s \notin free
    BY DEF Referrers
  <2>2. Cardinality(Holders(s)') = Cardinality(Holders(s)) + (IF s = r.slot THEN 1 ELSE 0)
    BY <1>1, HoldersTaken DEF TypeOK
  <2>3. count[s] = Cardinality(Holders(s)) + Cardinality(Referrers(s))
                   + (IF d_current.slot = s THEN 1 ELSE 0)
    BY <2>1 DEF SlotsInv, CountsExact
  <2>4. Cardinality(Holders(s)) \in Nat /\ Cardinality(Referrers(s)) \in Nat
    BY CountTypes
  <2> QED
    BY <1>3, <2>1, <2>2, <2>3, <2>4
<1>7. Dead' = Dead
  BY <1>3 DEF Dead
<1>8. DeadPlaced' /\ Acyclic'
  BY <1>7, PlacesKept
<1>9. EdgesCut' /\ \A u \in Threads : ThreadSound(thread[u])'
  BY DEF SlotsInv, EdgesCut, ThreadSound, lists
<1> QED
  BY <1>4, <1>5, <1>6, <1>8, <1>9 DEF SlotsInv

LEMMA PinStep ==
  ASSUME SlotsInv, NEW t \in Clients, pin(t)
  PROVE  SlotsInv'
<1>1. Live(d_current) /\ count[d_current.slot] > 0 /\ d_current \in RefType
  BY RefsCount DEF SlotsInv, RefsFound, pin, TypeOK
<1> QED
  BY <1>1, TakeRef DEF pin

LEMMA ResolveStep ==
  ASSUME SlotsInv, NEW t \in Clients, NEW p \in held[t], resolve(t, p)
  PROVE  SlotsInv'
<1>1. p.slot \in Slots
  BY DEF SlotsInv, RefsFound, Live
<1>2. PICK r : r = edge[p.slot]
  OBVIOUS
<1>3. Live(r) /\ count[r.slot] > 0 /\ r \in RefType
  BY <1>1, <1>2, RefsCount DEF SlotsInv, RefsFound, resolve, TypeOK
<1>4. r.slot \notin HeldSlots(t) /\ count' = [count EXCEPT ![r.slot] = @ + 1]
      /\ held' = [held EXCEPT ![t] = @ \cup {r}]
  BY <1>2 DEF resolve
<1> QED
  BY <1>3, <1>4, TakeRef DEF resolve

LEMMA BatchIsDead ==
  ASSUME SlotsInv, NEW t \in Threads, HasBatch(thread[t])
  PROVE  thread[t].batch \in Dead
<1>1. PICK a : a = thread[t].batch
  OBVIOUS
<1>2. a \in Slots /\ link \in Links
  BY <1>1 DEF SlotsInv, ThreadSound, TypeOK, Links, SlotOrNil
<1>3. a \in Chain(link, a)
  BY <1>2, ChainFirst
<1>4. Chain(link, a) = Batches[t]
  BY <1>1 DEF Batches
<1>5. Batches[t] \subseteq Dead
  BY DEF SlotsInv, DeadPlaced, Placed
<1> QED
  BY <1>1, <1>3, <1>4, <1>5

LEMMA CreateStep ==
  ASSUME SlotsInv, NEW s \in Slots, NEW child \in held[Writer] \cup {NoRef}, create(s, child)
  PROVE  SlotsInv'
<1>1. TypeOK /\ Writer \in Clients /\ s \in free /\ nil \notin Slots
  BY ThreadsAndStores, NilAssumption DEF SlotsInv, create
<1>2. child = NoRef \/ (Live(child) /\ count[child.slot] > 0)
  BY <1>1, RefsCount DEF SlotsInv, RefsFound
<1>3. child \in RefType /\ child.slot # s /\ NoRef.slot = nil
  BY <1>1, <1>2 DEF TypeOK, Live, NoRef, RefType, SlotOrNil
<1>4. /\ edge' = [edge EXCEPT ![s] = child] /\ free' = free \ {s}
      /\ held' = [held EXCEPT ![Writer] = @ \cup {Ref(s)}]
      /\ UNCHANGED <<generation, lists, d_current, thread, d_mutex, flags, due>>
  BY DEF create
<1>5. \A x \in Slots : /\ count[x] \in Nat
                       /\ count'[x] = IF x = s THEN 1
                                      ELSE count[x] + IF x = child.slot THEN 1 ELSE 0
  BY <1>1 DEF TypeOK, create
<1>6. /\ \A t \in Clients : s \notin HeldSlots(t)
      /\ \A x \in Slots : edge[x].slot # s
      /\ d_current.slot # s
      /\ edge[s].slot = nil
  BY <1>1, <1>3 DEF SlotsInv, RefsFound, Live, HeldSlots, EdgesCut
<1>7. TypeOK'
  <2>1. count' \in [Slots -> Nat]
    <3>1. DOMAIN count' = Slots /\ count' = [x \in Slots |-> count'[x]]
      BY DEF create
    <3> QED
      BY <1>5, <3>1
  <2>2. Ref(s) \in RefType /\ edge' \in [Slots -> RefType]
    BY <1>1, <1>3, <1>4 DEF TypeOK, Ref, RefType, SlotOrNil
  <2>3. creates' \in 0 .. MaxCreates
    BY <1>1, MaxCreatesAssumption DEF create, TypeOK
  <2> QED
    BY <1>1, <1>4, <2>1, <2>2, <2>3 DEF TypeOK, lists, flags
<1>8. RefsFound'
  <2>1. Live(Ref(s))'
    BY <1>1, <1>4 DEF Live, Ref
  <2>2. \A r : Live(r) => Live(r)'
    BY <1>1, <1>4 DEF Live
  <2>3. Ref(s)' = Ref(s)
    BY <1>4 DEF Ref
  <2>4. \A t \in Clients : \A r \in held'[t] : r \in held[t] \/ r = Ref(s)
    BY <1>1, <1>4 DEF TypeOK
  <2>5. \A x \in Slots : edge'[x] = edge[x] \/ edge'[x] = child
    BY <1>1, <1>4 DEF TypeOK
  <2> QED
    BY <1>2, <1>4, <2>1, <2>2, <2>3, <2>4, <2>5 DEF SlotsInv, RefsFound
<1>9. CountsExact'
  <2> SUFFICES ASSUME NEW x \in Slots, x \notin free'
               PROVE  count'[x] = Cardinality(Holders(x)') + Cardinality(Referrers(x)')
                                  + (IF d_current'.slot = x THEN 1 ELSE 0)
    BY DEF CountsExact
  <2>1. Cardinality(Holders(x)') = Cardinality(Holders(x)) + (IF x = s THEN 1 ELSE 0)
    <3>1. Ref(s).slot = s /\ Ref(s) \in RefType
      BY <1>1 DEF Ref, TypeOK, RefType, SlotOrNil
    <3>2. PICK r : r = Ref(s)
      OBVIOUS
    <3>3. r.slot = s /\ r \in RefType /\ held' = [held EXCEPT ![Writer] = @ \cup {r}]
          /\ r.slot \notin HeldSlots(Writer)
      BY <1>1, <1>4, <1>6, <3>1, <3>2
    <3> QED
      BY <1>1, <3>3, HoldersTaken DEF TypeOK
  <2>2. Cardinality(Referrers(x)') = Cardinality(Referrers(x)) + (IF x = child.slot THEN 1 ELSE 0)
    <3>1. PICK H, K : H = Referrers(x) /\ K = Referrers(x)'
      OBVIOUS
    <3>2. IsFiniteSet(H) /\ Cardinality(H) \in Nat
      BY <3>1, CountTypes
    <3>3. \A p \in Slots : edge'[p] = IF p = s THEN child ELSE edge[p]
      BY <1>1, <1>4 DEF TypeOK
    <3>4. CASE x = child.slot
      <4>1. K = H \cup {s} /\ s \notin H
        BY <1>1, <1>6, <3>1, <3>3, <3>4 DEF Referrers
      <4>2. Cardinality(K) = Cardinality(H) + 1
        BY <3>2, <4>1, OneMore
      <4> QED
        BY <3>1, <3>4, <4>2
    <3>5. CASE x # child.slot
      <4>1. K = H
        BY <1>1, <1>6, <3>1, <3>3, <3>5 DEF Referrers
      <4> QED
        BY <3>1, <3>2, <3>5, <4>1
    <3> QED
      BY <3>4, <3>5
  <2>3. d_current' = d_current
    BY <1>4
  <2>4. Cardinality(Holders(x)) \in Nat /\ Cardinality(Referrers(x)) \in Nat
    BY CountTypes
  <2>5. CASE x = s
    <3>1. Holders(s) = {} /\ Referrers(s) = {}
      BY <1>6 DEF Holders, Referrers
    <3>2. Cardinality(Holders(x)) = 0 /\ Cardinality(Referrers(x)) = 0
      BY <2>5, <3>1, FS_EmptySet
    <3>3. d_current'.slot # x /\ child.slot # x
      BY <1>3, <1>6, <2>3, <2>5
    <3> QED
      BY <1>5, <2>1, <2>2, <2>5, <3>2, <3>3
  <2>6. CASE x # s
    <3>1. x \notin free
      BY <1>4, <2>6
    <3>2. count[x] = Cardinality(Holders(x)) + Cardinality(Referrers(x))
                     + (IF d_current.slot = x THEN 1 ELSE 0)
      BY <3>1 DEF SlotsInv, CountsExact
    <3>3. Cardinality(Holders(x)') = Cardinality(Holders(x))
      BY <2>1, <2>4, <2>6
    <3> QED
      BY <1>5, <2>2, <2>3, <2>4, <2>6, <3>2, <3>3
  <2> QED
    BY <2>5, <2>6
<1>10. Dead' = Dead
  <2>1. \A x \in Slots : x = child.slot => count[x] > 0
    BY <1>1, <1>2, <1>3
  <2>2. \A x \in Slots : x # s => (count'[x] = 0 <=> count[x] = 0) /\ (x \in free' <=> x \in free)
    BY <1>4, <1>5, <2>1
  <2> QED
    BY <1>1, <1>5, <2>2 DEF Dead
<1>11. DeadPlaced' /\ Acyclic'
  BY <1>4, <1>10, PlacesKept
<1>12. \A t \in Threads : ThreadSound(thread[t])'
  BY <1>4 DEF SlotsInv, ThreadSound, lists
<1>13. EdgesCut'
  <2>1. \A x \in Slots : x # s => edge'[x] = edge[x]
    BY <1>1, <1>4 DEF TypeOK
  <2>2. \A x \in free' : edge'[x] = NoRef
    BY <1>1, <1>4, <2>1 DEF SlotsInv, EdgesCut, TypeOK
  <2>3. ASSUME NEW t \in Threads, HasBatch(thread[t]), thread[t].pc # "destruct"
        PROVE  edge'[thread[t].batch] = NoRef
    <3>1. thread[t].batch \in Dead
      BY <2>3, BatchIsDead
    <3>2. thread[t].batch \in Slots /\ thread[t].batch # s
      BY <1>1, <3>1 DEF Dead
    <3> QED
      BY <2>1, <2>3, <3>2 DEF SlotsInv, EdgesCut
  <2> QED
    BY <1>4, <2>2, <2>3 DEF EdgesCut
<1> QED
  BY <1>7, <1>8, <1>9, <1>11, <1>12, <1>13 DEF SlotsInv

\* A client drops a count.
LEMMA ReleaseSteps ==
  ASSUME SlotsInv, NEW t \in Clients, thread[t].pc = "idle", NEW s \in Slots \ free, count[s] > 0,
         NEW then \in {"idle", "lock"}, release_index(t, s, then),
         UNCHANGED <<generation, edge, free, lists>>
  PROVE  /\ thread' \in [Threads -> ThreadState] /\ count' \in [Slots -> Nat]
         /\ \A x \in Slots : count'[x] = count[x] - (IF x = s THEN 1 ELSE 0)
         /\ DeadPlaced' /\ Acyclic' /\ EdgesCut' /\ \A u \in Threads : ThreadSound(thread[u])'
<1>1. TypeOK /\ t \in Threads /\ link' = link
  BY ThreadsAndStores DEF SlotsInv, lists
<1>2. /\ count' = [count EXCEPT ![s] = @ - 1]
      /\ \A x \in Slots : count[x] \in Nat
  BY <1>1 DEF release_index, TypeOK
<1>3. \A x \in Slots : count'[x] = count[x] - (IF x = s THEN 1 ELSE 0)
  BY <1>1, <1>2 DEF TypeOK
<1>4. count' \in [Slots -> Nat]
  BY <1>1, <1>2 DEF TypeOK
<1>5. PICK th : th = thread[t]
  OBVIOUS
<1>6. th \in ThreadState /\ Resting(th) /\ thread \in [Threads -> ThreadState] /\ s # nil
  BY <1>1, <1>5, NilAssumption DEF TypeOK, SlotsInv, ThreadSound, HasBatch, Resting
<1>7. PICK x : x = IF count[s] = 1 THEN Enqueue(th, s, then) ELSE [th EXCEPT !.pc = then]
  OBVIOUS
<1>8. x \in ThreadState
  BY <1>6, <1>7 DEF ThreadState, Enqueue, SlotOrNil
<1>9. thread' = [thread EXCEPT ![t] = x]
  BY <1>5, <1>7 DEF release_index
<1>10. thread' \in [Threads -> ThreadState] /\ thread'[t] = x
       /\ \A u \in Threads : u # t => thread'[u] = thread[u]
  BY <1>1, <1>6, <1>8, <1>9, ThreadSteps
<1>11. x.batch = nil /\ x.next = nil /\ ~ HasBatch(x) /\ PushedSlot(th) = nil
  BY <1>6, <1>7 DEF Resting, Enqueue, ThreadState, HasBatch, PushedSlot
<1>12. ThreadSound(thread[t])'
  BY <1>6, <1>7, <1>10, <1>11 DEF ThreadSound, Enqueue, ThreadState
<1>13. DeadPlaced' /\ Acyclic' /\ \A u \in Threads : ThreadSound(thread[u])'
  <2>1. CASE count[s] = 1
    <3>1. PushedSlot(thread'[t]) = s
      BY <1>6, <1>7, <1>10, <2>1 DEF PushedSlot, Enqueue, ThreadState
    <3>2. Dead' = Dead \cup {s} /\ s \in Slots \ Dead
      BY <1>2, <1>3, <2>1 DEF Dead
    <3>3. PushedSlot(thread[t]) = nil /\ thread'[t].batch = thread[t].batch
      BY <1>5, <1>6, <1>10, <1>11 DEF Resting
    <3> QED
      BY <1>1, <1>10, <1>12, <3>1, <3>2, <3>3, PlacesDie
  <2>2. CASE count[s] # 1
    <3>1. Dead' = Dead
      BY <1>2, <1>3, <2>2 DEF Dead
    <3>2. PushedSlot(x) = nil
      BY <1>6, <1>7, <2>2 DEF PushedSlot, ThreadState
    <3>3. \A u \in Threads : /\ PushedSlot(thread'[u]) = PushedSlot(thread[u])
                             /\ thread'[u].batch = thread[u].batch
      BY <1>5, <1>6, <1>10, <1>11, <3>2 DEF Resting
    <3>4. DeadPlaced' /\ Acyclic'
      BY <3>1, <3>3, PlacesKept
    <3>5. \A u \in Threads : u # t => ThreadSound(thread[u])'
      BY <1>1, <1>10 DEF SlotsInv, ThreadSound
    <3> QED
      BY <1>12, <3>4, <3>5
  <2> QED
    BY <2>1, <2>2
<1>14. EdgesCut'
  BY <1>10, <1>11 DEF SlotsInv, EdgesCut
<1> QED
  BY <1>3, <1>4, <1>10, <1>13, <1>14

LEMMA ResetStep ==
  ASSUME SlotsInv, NEW t \in Clients, NEW r \in held[t], reset(t, r)
  PROVE  SlotsInv'
<1>1. TypeOK /\ Live(r) /\ count[r.slot] \in Nat /\ count[r.slot] > 0
  BY RefsCount DEF SlotsInv, RefsFound
<1>2. PICK s : s = r.slot
  OBVIOUS
<1>3. s \in Slots \ free /\ count[s] > 0 /\ thread[t].pc = "idle" /\ release_index(t, s, "idle")
  BY <1>1, <1>2 DEF Live, reset
<1>4. UNCHANGED <<generation, edge, free, lists, d_current, d_mutex, flags, creates, due>>
      /\ held' = [held EXCEPT ![t] = @ \ {r}]
  BY DEF reset
<1>5. /\ thread' \in [Threads -> ThreadState] /\ count' \in [Slots -> Nat]
      /\ \A x \in Slots : count'[x] = count[x] - (IF x = s THEN 1 ELSE 0)
      /\ DeadPlaced' /\ Acyclic' /\ EdgesCut' /\ \A u \in Threads : ThreadSound(thread[u])'
  BY <1>3, <1>4, ReleaseSteps
<1>6. TypeOK'
  BY <1>1, <1>4, <1>5 DEF TypeOK, lists, flags
<1>7. RefsFound'
  BY <1>1, <1>4 DEF SlotsInv, RefsFound, Live, TypeOK
<1>8. CountsExact'
  <2> SUFFICES ASSUME NEW x \in Slots, x \notin free'
               PROVE  count'[x] = Cardinality(Holders(x)') + Cardinality(Referrers(x)')
                                  + (IF d_current'.slot = x THEN 1 ELSE 0)
    BY DEF CountsExact
  <2>1. Referrers(x)' = Referrers(x) /\ d_current' = d_current /\ x \notin free
    BY <1>4 DEF Referrers
  <2>2. Cardinality(Holders(x)') = Cardinality(Holders(x)) - (IF x = s THEN 1 ELSE 0)
    BY <1>1, <1>2, <1>4, HoldersDropped DEF SlotsInv, TypeOK
  <2>3. count[x] = Cardinality(Holders(x)) + Cardinality(Referrers(x))
                   + (IF d_current.slot = x THEN 1 ELSE 0)
    BY <2>1 DEF SlotsInv, CountsExact
  <2>4. Cardinality(Holders(x)) \in Nat /\ Cardinality(Referrers(x)) \in Nat
    BY CountTypes
  <2> QED
    BY <1>5, <2>1, <2>2, <2>3, <2>4
<1> QED
  BY <1>5, <1>6, <1>7, <1>8 DEF SlotsInv

LEMMA PublishStep ==
  ASSUME SlotsInv, NEW r \in held[Writer], publish(r)
  PROVE  SlotsInv'
<1>1. TypeOK /\ Live(r) /\ Writer \in Clients /\ Writer \in Threads /\ r \in RefType
  BY ThreadsAndStores DEF SlotsInv, RefsFound, TypeOK
<1>2. UNCHANGED <<generation, edge, free, lists, d_mutex, flags, creates, due>>
      /\ held' = [held EXCEPT ![Writer] = @ \ {r}] /\ d_current' = r
      /\ thread[Writer].pc = "idle"
  BY DEF publish
<1>3. PICK o : o = d_current.slot
  OBVIOUS
<1>4. /\ thread' \in [Threads -> ThreadState] /\ count' \in [Slots -> Nat]
      /\ \A x \in Slots : count'[x] = count[x] - (IF x = o THEN 1 ELSE 0)
      /\ DeadPlaced' /\ Acyclic' /\ EdgesCut' /\ \A u \in Threads : ThreadSound(thread[u])'
  <2>1. CASE d_current = NoRef
    <3>1. PICK x : x = [thread[Writer] EXCEPT !.pc = "lock"]
      OBVIOUS
    <3>2. thread' = [thread EXCEPT ![Writer] = x] /\ count' = count
      BY <2>1, <3>1 DEF publish
    <3>3. thread[Writer] \in ThreadState /\ Resting(thread[Writer])
      BY <1>1, <1>2 DEF SlotsInv, TypeOK, ThreadSound, HasBatch, Resting
    <3>4. x \in ThreadState /\ Resting(x)
      BY <3>1, <3>3 DEF ThreadState, Resting
    <3>5. thread' \in [Threads -> ThreadState] /\ thread'[Writer] = x
          /\ \A u \in Threads : u # Writer => thread'[u] = thread[u]
      BY <1>1, <3>2, <3>4, ThreadSteps DEF TypeOK
    <3>6. DeadPlaced' /\ Acyclic' /\ EdgesCut' /\ \A u \in Threads : ThreadSound(thread[u])'
      BY <1>2, <3>2, <3>3, <3>4, <3>5, RestingStep
    <3>7. \A x1 \in Slots : x1 # o /\ count[x1] \in Nat
      BY <1>1, <1>3, <2>1, NilAssumption DEF NoRef, TypeOK
    <3>8. \A x1 \in Slots : count'[x1] = count[x1] - (IF x1 = o THEN 1 ELSE 0)
      BY <3>2, <3>7
    <3> QED
      BY <1>1, <3>2, <3>5, <3>6, <3>8 DEF TypeOK
  <2>2. CASE d_current # NoRef
    <3>1. o \in Slots \ free /\ count[o] > 0
      BY <1>3, <2>2, RefsCount DEF SlotsInv, RefsFound, Live
    <3>2. release_index(Writer, o, "lock")
      BY <1>3, <2>2 DEF publish
    <3> QED
      BY <1>1, <1>2, <3>1, <3>2, ReleaseSteps
  <2> QED
    BY <2>1, <2>2
<1>5. TypeOK'
  BY <1>1, <1>2, <1>4 DEF TypeOK, lists, flags
<1>6. RefsFound'
  BY <1>1, <1>2 DEF SlotsInv, RefsFound, Live, TypeOK
<1>7. CountsExact'
  <2> SUFFICES ASSUME NEW x \in Slots, x \notin free'
               PROVE  count'[x] = Cardinality(Holders(x)') + Cardinality(Referrers(x)')
                                  + (IF d_current'.slot = x THEN 1 ELSE 0)
    BY DEF CountsExact
  <2>1. Referrers(x)' = Referrers(x) /\ x \notin free
    BY <1>2 DEF Referrers
  <2>2. Cardinality(Holders(x)') = Cardinality(Holders(x)) - (IF x = r.slot THEN 1 ELSE 0)
    BY <1>1, <1>2, HoldersDropped DEF SlotsInv, TypeOK
  <2>3. count[x] = Cardinality(Holders(x)) + Cardinality(Referrers(x)) + (IF o = x THEN 1 ELSE 0)
    BY <1>3, <2>1 DEF SlotsInv, CountsExact
  <2>4. Cardinality(Holders(x)) \in Nat /\ Cardinality(Referrers(x)) \in Nat
    BY CountTypes
  <2> QED
    BY <1>2, <1>4, <2>1, <2>2, <2>3, <2>4
<1> QED
  BY <1>4, <1>5, <1>6, <1>7 DEF SlotsInv

(***************************************************************************)
(* Pushes.                                                                 *)
(***************************************************************************)
LEMMA ChainFrom ==
  ASSUME NEW f \in Links, NEW a \in Slots \cup {nil}, NEW x \in Chain(f, a)
  PROVE  f[x] \in Slots \cup {nil} /\ Chain(f, f[x]) \subseteq Chain(f, a)
<1>1. PICK A, b : A = Chain(f, a) /\ b = f[x]
  OBVIOUS
<1>2. Closed(f, a, A) /\ A \subseteq Slots /\ b \in Slots \cup {nil}
  BY <1>1, ChainIsClosed, ChainIsLeast DEF Links
<1>3. Closed(f, b, A)
  BY <1>1, <1>2 DEF Closed
<1> QED
  BY <1>1, <1>2, <1>3, ChainIsLeast

\* A dead slot that is not being pushed is on a list of such.
LEMMA DeadOnChain ==
  ASSUME SlotsInv, NEW s \in Dead, \A t \in Threads : Pushes[t] # s
  PROVE  \E a \in Slots \cup {nil} :
           s \in Chain(link, a) /\ \A t \in Threads : Pushes[t] \notin Chain(link, a)
<1>1. PICK L, Q, B, D : L = Lists /\ Q = Pushes /\ B = Batches /\ D = Dead
  OBVIOUS
<1>2. Placed(L, Q, B, D) /\ s \in D /\ \A t \in Threads : Q[t] # s
  BY <1>1 DEF SlotsInv, DeadPlaced
<1>3. CASE \E i \in Stores : s \in L[i]
  <2>1. PICK i \in Stores : s \in L[i]
    BY <1>3
  <2>2. PICK a : a = d_reclaim_head[i]
    OBVIOUS
  <2>3. a \in Slots \cup {nil} /\ L[i] = Chain(link, a)
    BY <1>1, <2>2 DEF Lists, SlotsInv, TypeOK, SlotOrNil
  <2>4. \A t \in Threads : Q[t] \notin L[i]
    BY <1>2 DEF Placed
  <2> QED
    BY <1>1, <2>1, <2>3, <2>4
<1>4. CASE \E u \in Threads : s \in B[u]
  <2>1. PICK u \in Threads : s \in B[u]
    BY <1>4
  <2>2. PICK a : a = thread[u].batch
    OBVIOUS
  <2>3. a \in Slots \cup {nil} /\ B[u] = Chain(link, a)
    BY <1>1, <2>2 DEF Batches, SlotsInv, TypeOK, ThreadState, SlotOrNil
  <2>4. \A t \in Threads : Q[t] \notin B[u]
    BY <1>2 DEF Placed
  <2> QED
    BY <1>1, <2>1, <2>3, <2>4
<1> QED
  BY <1>2, <1>3, <1>4 DEF Placed

\* The thread links its slot to the head h it found.
LEMMA LinkStep ==
  ASSUME SlotsInv, NEW t \in Threads, thread[t].pc \in {"enqueue", "cas"}, NEW h \in SlotOrNil,
         NEW x, x = [thread[t] EXCEPT !.pc = "cas", !.expect = h],
         thread' = [thread EXCEPT ![t] = x], link' = [link EXCEPT ![thread[t].slot] = h],
         UNCHANGED <<columns, d_reclaim_head, refs, d_mutex, flags, creates, due>>
  PROVE  SlotsInv' /\ Lists' = Lists
<1>1. PICK q : q = thread[t].slot
  OBVIOUS
<1>2. TypeOK /\ thread[t] \in ThreadState /\ q \in Slots /\ nil \notin Slots
  BY <1>1, NilAssumption DEF SlotsInv, TypeOK, ThreadSound
<1>3. link \in Links /\ link' = [link EXCEPT ![q] = h] /\ link' \in Links
  BY <1>1, <1>2 DEF TypeOK, Links, SlotOrNil
<1>4. /\ x \in ThreadState /\ x.pc = "cas" /\ x.slot = q /\ x.expect = h
      /\ x.batch = thread[t].batch /\ x.next = thread[t].next /\ x.then = thread[t].then
  BY <1>1, <1>2 DEF ThreadState
<1>5. thread' \in [Threads -> ThreadState] /\ thread'[t] = x
      /\ \A u \in Threads : u # t => thread'[u] = thread[u]
  BY <1>2, <1>4, ThreadSteps DEF TypeOK
<1>6. UNCHANGED <<generation, count, edge, free, d_current, held, d_reclaim_head>>
  BY DEF columns, refs
<1>7. TypeOK'
  BY <1>2, <1>3, <1>5, <1>6 DEF TypeOK, flags, Links, SlotOrNil
<1>8. RefsFound' /\ CountsExact' /\ Dead' = Dead
  BY <1>6 DEF SlotsInv, RefsFound, Live, CountsExact, Holders, HeldSlots, Referrers, Dead
<1>9. \A u \in Threads : /\ thread'[u].batch = thread[u].batch
                         /\ PushedSlot(thread'[u]) = PushedSlot(thread[u])
                         /\ HasBatch(thread'[u]) <=> HasBatch(thread[u])
                         /\ thread'[u].pc = "destruct" <=> thread[u].pc = "destruct"
  BY <1>1, <1>4, <1>5 DEF PushedSlot, HasBatch
<1>10. EdgesCut'
  BY <1>6, <1>9 DEF SlotsInv, EdgesCut
<1>11. PICK L, Q, B, D : L = Lists /\ Q = Pushes /\ B = Batches /\ D = Dead
  OBVIOUS
<1>12. Placed(L, Q, B, D) /\ nil \notin D /\ Q[t] = q
  BY <1>1, <1>11, DeadIsNotNil DEF SlotsInv, DeadPlaced, Pushes, PushedSlot
<1>13. ASSUME NEW a \in Slots \cup {nil}, q \notin Chain(link, a)
       PROVE  Chain(link', a) = Chain(link, a)
  <2>1. PICK f, g : f = link /\ g = link'
    OBVIOUS
  <2>2. f \in Links /\ g \in Links /\ g = [f EXCEPT ![q] = h] /\ q \notin Chain(f, a)
    BY <1>3, <1>13, <2>1
  <2>3. Chain(g, a) = Chain(f, a)
    BY <2>2, ChainRelinked
  <2> QED
    BY <2>1, <2>3
<1>14. PICK L2, Q2, B2 : L2 = Lists' /\ Q2 = Pushes' /\ B2 = Batches'
  OBVIOUS
<1>15. ASSUME NEW i \in Stores PROVE L2[i] = L[i]
  <2>1. PICK a : a = d_reclaim_head[i]
    OBVIOUS
  <2>2. a \in Slots \cup {nil} /\ L[i] = Chain(link, a) /\ L2[i] = Chain(link', a)
    BY <1>2, <1>6, <1>11, <1>14, <2>1 DEF Lists, TypeOK, SlotOrNil
  <2>3. q \notin L[i]
    BY <1>12 DEF Placed
  <2> QED
    BY <1>13, <2>2, <2>3
<1>16. ASSUME NEW u \in Threads PROVE B2[u] = B[u] /\ thread[u].batch # q /\ Q2[u] = Q[u]
  <2>1. PICK a : a = thread[u].batch
    OBVIOUS
  <2>2. a \in Slots \cup {nil} /\ B[u] = Chain(link, a) /\ B2[u] = Chain(link', a)
    BY <1>2, <1>9, <1>11, <1>14, <2>1 DEF Batches, TypeOK, ThreadState, SlotOrNil
  <2>3. q \notin B[u]
    BY <1>12 DEF Placed
  <2>4. a # q
    BY <1>2, <1>3, <2>2, <2>3, ChainFirst
  <2>5. Q2[u] = Q[u]
    BY <1>9, <1>11, <1>14 DEF Pushes
  <2> QED
    BY <1>13, <2>1, <2>2, <2>3, <2>4, <2>5
<1>17. DeadPlaced'
  <2>1. Placed(L2, Q2, B2, D)
    BY <1>12, <1>15, <1>16, PlacedSame
  <2> QED
    BY <1>8, <1>11, <1>14, <2>1 DEF DeadPlaced
<1>18. ASSUME NEW u \in Threads PROVE ThreadSound(thread[u])'
  <2>1. ThreadSound(thread[u]) /\ thread[u].batch # q /\ thread[u] \in ThreadState
    BY <1>2, <1>16 DEF SlotsInv, TypeOK
  <2>2. thread[u].batch \in Slots => link'[thread[u].batch] = link[thread[u].batch]
    BY <1>3, <2>1 DEF Links
  <2>3. CASE u = t
    <3>1. link'[q] = h
      BY <1>2, <1>3 DEF Links
    <3> QED
      BY <1>2, <1>4, <1>5, <1>9, <2>1, <2>2, <2>3, <3>1 DEF ThreadSound
  <2>4. CASE u # t
    <3>1. thread[u].pc = "cas" => thread[u].slot # q /\ thread[u].slot \in Slots
      <4>1. Q[u] # q
        BY <1>2, <1>12, <2>4 DEF Placed
      <4> QED
        BY <1>11, <2>1, <4>1 DEF Pushes, PushedSlot, ThreadSound
    <3>2. thread[u].pc = "cas" => link'[thread[u].slot] = link[thread[u].slot]
      BY <1>3, <3>1 DEF Links
    <3> QED
      BY <1>5, <2>1, <2>2, <2>4, <3>2 DEF ThreadSound
  <2> QED
    BY <2>3, <2>4
<1>19. Acyclic'
  <2>1. ASSUME NEW s \in D, \A u \in Threads : Q2[u] # s PROVE s \notin Chain(link', link'[s])
    <3>1. \A u \in Threads : Q[u] # s
      BY <1>16, <2>1
    <3>2. PICK a \in Slots \cup {nil} : s \in Chain(link, a) /\ q \notin Chain(link, a)
      BY <1>11, <1>12, <3>1, DeadOnChain
    <3>3. PICK b : b = link[s]
      OBVIOUS
    <3>4. b \in Slots \cup {nil} /\ q \notin Chain(link, b)
      BY <1>3, <3>2, <3>3, ChainFrom
    <3>5. s # q /\ s \in Slots
      BY <1>11, <1>12, <3>1 DEF Dead
    <3>6. link'[s] = b
      BY <1>3, <3>3, <3>5 DEF Links
    <3>7. s \notin Chain(link, b)
      BY <1>11, <3>1, <3>3 DEF SlotsInv, Acyclic
    <3> QED
      BY <1>13, <3>4, <3>6, <3>7
  <2> QED
    BY <1>8, <1>11, <1>14, <2>1 DEF Acyclic
<1>20. Lists' = Lists
  BY <1>11, <1>14, <1>15 DEF Lists
<1> QED
  BY <1>7, <1>8, <1>10, <1>17, <1>18, <1>19, <1>20 DEF SlotsInv

\* The thread's slot becomes the head.
LEMMA SwingStep ==
  ASSUME SlotsInv, NEW t \in Threads, compare_exchange(t),
         d_reclaim_head[StoreOf(thread[t].slot)] = thread[t].expect
  PROVE  SlotsInv' /\ \A j \in Stores : Lists'[j] \subseteq Lists[j] \cup {thread[t].slot}
<1>1. PICK q, i, th : q = thread[t].slot /\ i = StoreOf(q) /\ th = thread[t]
  OBVIOUS
<1>2. TypeOK /\ th \in ThreadState /\ th.pc = "cas" /\ q \in Slots /\ nil \notin Slots
      /\ th.slot = q /\ i \in Stores
  BY <1>1, NilAssumption DEF SlotsInv, TypeOK, ThreadSound, compare_exchange, StoreOf, Stores
<1>3. link \in Links /\ link[q] = d_reclaim_head[i]
  BY <1>1, <1>2 DEF TypeOK, Links, SlotOrNil, SlotsInv, ThreadSound
<1>4. PICK x : x = Pushed(th)
  OBVIOUS
<1>5. /\ x \in ThreadState /\ x.pc = th.then /\ x.batch = th.batch /\ x.next = th.next
      /\ x.pc \in {"idle", "lock", "bump"}
  BY <1>2, <1>4 DEF ThreadState, Pushed, SlotOrNil
<1>6. /\ thread' = [thread EXCEPT ![t] = x]
      /\ d_reclaim_head' = [d_reclaim_head EXCEPT ![i] = q] /\ link' = link
      /\ UNCHANGED <<columns, refs, d_mutex, flags, creates, due>>
  BY <1>1, <1>4 DEF compare_exchange
<1>7. thread' \in [Threads -> ThreadState] /\ thread'[t] = x
      /\ \A u \in Threads : u # t => thread'[u] = thread[u]
  BY <1>2, <1>5, <1>6, ThreadSteps DEF TypeOK
<1>8. UNCHANGED <<generation, count, edge, free, d_current, held>>
  BY <1>6 DEF columns, refs
<1>9. TypeOK'
  <2>1. d_reclaim_head' \in [Stores -> SlotOrNil]
    BY <1>2, <1>6 DEF TypeOK, SlotOrNil
  <2> QED
    BY <1>2, <1>6, <1>7, <1>8, <2>1 DEF TypeOK, flags
<1>10. RefsFound' /\ CountsExact' /\ Dead' = Dead
  BY <1>8 DEF SlotsInv, RefsFound, Live, CountsExact, Holders, HeldSlots, Referrers, Dead
<1>11. (HasBatch(x) <=> HasBatch(th)) /\ x.pc # "destruct" /\ th.pc # "destruct"
       /\ PushedSlot(x) = nil
  BY <1>2, <1>5 DEF HasBatch, PushedSlot
<1>12. EdgesCut'
  BY <1>1, <1>5, <1>7, <1>8, <1>11 DEF SlotsInv, EdgesCut
<1>13. ASSUME NEW u \in Threads PROVE ThreadSound(thread[u])'
  <2>1. ThreadSound(thread[u])
    BY DEF SlotsInv
  <2>2. CASE u = t
    BY <1>1, <1>5, <1>6, <1>7, <1>11, <2>1, <2>2 DEF ThreadSound
  <2>3. CASE u # t
    BY <1>6, <1>7, <2>1, <2>3 DEF ThreadSound
  <2> QED
    BY <2>2, <2>3
<1>14. PICK L, Q, B, D : L = Lists /\ Q = Pushes /\ B = Batches /\ D = Dead
  OBVIOUS
<1>15. PICK L2, Q2, B2 : L2 = Lists' /\ Q2 = Pushes' /\ B2 = Batches'
  OBVIOUS
<1>16. Placed(L, Q, B, D) /\ nil \notin D /\ Q[t] = q
  BY <1>1, <1>2, <1>14, DeadIsNotNil DEF SlotsInv, DeadPlaced, Pushes, PushedSlot
<1>17. ASSUME NEW j \in Stores PROVE L2[j] = IF j = i THEN {q} \cup L[j] ELSE L[j]
  <2>1. L2[j] = Chain(link, d_reclaim_head'[j]) /\ L[j] = Chain(link, d_reclaim_head[j])
    BY <1>6, <1>14, <1>15 DEF Lists
  <2>2. CASE j = i
    <3>1. d_reclaim_head'[j] = q
      BY <1>2, <1>6, <2>2 DEF TypeOK
    <3>2. Chain(link, q) = {q} \cup Chain(link, link[q])
      BY <1>2, <1>3, ChainFirst
    <3> QED
      BY <1>3, <2>1, <2>2, <3>1, <3>2
  <2>3. CASE j # i
    <3>1. d_reclaim_head'[j] = d_reclaim_head[j]
      BY <1>2, <1>6, <2>3 DEF TypeOK
    <3> QED
      BY <2>1, <2>3, <3>1
  <2> QED
    BY <2>2, <2>3
<1>18. ASSUME NEW u \in Threads
       PROVE  Q2[u] = (IF u = t THEN nil ELSE Q[u]) /\ B2[u] = B[u]
  <2>1. Q2[u] = IF u = t THEN nil ELSE Q[u]
    BY <1>7, <1>11, <1>14, <1>15 DEF Pushes
  <2>2. B2[u] = B[u]
    BY <1>1, <1>5, <1>6, <1>7, <1>14, <1>15 DEF Batches
  <2> QED
    BY <2>1, <2>2
<1>19. DeadPlaced'
  <2>1. q # nil /\ q = Q[t]
    BY <1>2, <1>16
  <2>3. Gains(L, i, q, L2)
    BY <1>17 DEF Gains
  <2>4. Ends(Q, B, t, Q2, B2)
    BY <1>18 DEF Ends
  <2>5. Placed(L, Q, B, D) /\ nil \notin D /\ i \in Stores
    BY <1>2, <1>16
  <2>2. Placed(L2, Q2, B2, D)
    BY <2>1, <2>3, <2>4, <2>5, PlacedOnList
  <2> QED
    BY <1>10, <1>14, <1>15, <2>2 DEF DeadPlaced
<1>20. Acyclic'
  <2>1. ASSUME NEW s \in D, \A u \in Threads : Q2[u] # s PROVE s \notin Chain(link, link[s])
    <3>1. CASE s = q
      <4>1. q \notin L[i] /\ L[i] = Chain(link, link[q])
        BY <1>2, <1>3, <1>14, <1>16 DEF Placed, Lists
      <4> QED
        BY <3>1, <4>1
    <3>2. CASE s # q
      <4>1. \A u \in Threads : Q[u] # s
        BY <1>16, <1>18, <2>1, <3>2
      <4> QED
        BY <1>14, <4>1 DEF SlotsInv, Acyclic
    <3> QED
      BY <3>1, <3>2
  <2> QED
    BY <1>6, <1>10, <1>14, <1>15, <2>1 DEF Acyclic
<1>21. \A j \in Stores : Lists'[j] \subseteq Lists[j] \cup {thread[t].slot}
  BY <1>1, <1>14, <1>15, <1>17
<1> QED
  BY <1>9, <1>10, <1>12, <1>13, <1>19, <1>20, <1>21 DEF SlotsInv

LEMMA PushStep ==
  ASSUME SlotsInv, NEW t \in Threads, Push(t)
  PROVE  /\ SlotsInv' /\ thread[t].pc \in {"enqueue", "cas"}
         /\ \E x \in ThreadState :
              /\ thread' = [thread EXCEPT ![t] = x]
              /\ \/ \E h : x = [thread[t] EXCEPT !.pc = "cas", !.expect = h] /\ Lists' = Lists
                 \/ /\ x = Pushed(thread[t])
                    /\ \A j \in Stores : Lists'[j] \subseteq Lists[j] \cup {thread[t].slot}
<1>1. PICK h : h = d_reclaim_head[StoreOf(thread[t].slot)]
  OBVIOUS
<1>2. h \in SlotOrNil /\ thread[t] \in ThreadState /\ thread \in [Threads -> ThreadState]
  BY <1>1 DEF SlotsInv, TypeOK, StoreOf, Stores
<1>3. PICK x : x = [thread[t] EXCEPT !.pc = "cas", !.expect = h]
  OBVIOUS
<1>4. x \in ThreadState
  BY <1>2, <1>3 DEF ThreadState
<1>5. CASE enqueue_reclaim(t)
  <2>1. thread' = [thread EXCEPT ![t] = x] /\ thread[t].pc = "enqueue"
    BY <1>1, <1>2, <1>3, <1>5 DEF enqueue_reclaim
  <2>2. SlotsInv' /\ Lists' = Lists
    BY <1>1, <1>2, <1>3, <1>5, <2>1, LinkStep DEF enqueue_reclaim
  <2> QED
    BY <1>3, <1>4, <2>1, <2>2
<1>6. CASE compare_exchange(t) /\ h # thread[t].expect
  <2>1. [thread[t] EXCEPT !.expect = h] = x
    BY <1>2, <1>3, <1>6 DEF compare_exchange, ThreadState
  <2>2. thread' = [thread EXCEPT ![t] = x] /\ thread[t].pc = "cas"
    BY <1>1, <1>2, <1>6, <2>1 DEF compare_exchange
  <2>3. SlotsInv' /\ Lists' = Lists
    BY <1>1, <1>2, <1>3, <1>6, <2>2, LinkStep DEF compare_exchange
  <2> QED
    BY <1>3, <1>4, <2>2, <2>3
<1>7. CASE compare_exchange(t) /\ h = thread[t].expect
  <2>1. PICK y : y = Pushed(thread[t])
    OBVIOUS
  <2>2. y \in ThreadState
    BY <1>2, <2>1 DEF ThreadState, Pushed, SlotOrNil
  <2>3. thread' = [thread EXCEPT ![t] = y] /\ thread[t].pc = "cas"
    BY <1>1, <1>7, <2>1 DEF compare_exchange
  <2>4. SlotsInv' /\ \A j \in Stores : Lists'[j] \subseteq Lists[j] \cup {thread[t].slot}
    BY <1>1, <1>7, SwingStep
  <2> QED
    BY <2>1, <2>2, <2>3, <2>4
<1> QED
  BY <1>5, <1>6, <1>7 DEF Push

(***************************************************************************)
(* The drain.                                                              *)
(***************************************************************************)
LEMMA NextStoreRests ==
  ASSUME NEW th \in Rest
  PROVE  NextStore(th) \in Rest
<1>1. Draining(th) \in Rest
  BY RestGoesOn DEF Fresh
<1>2. [th EXCEPT !.pc = "exchange", !.store = 2] \in Rest /\ [th EXCEPT !.pc = "quiet"] \in Rest
  <2>1. 2 \in Stores
    BY DEF Stores
  <2> QED
    BY <2>1 DEF Rest, Resting, ThreadState
<1> QED
  BY <1>1, <1>2 DEF NextStore

LEMMA DetachStep ==
  ASSUME SlotsInv, NEW t \in Threads, drain_pending(t)
  PROVE  SlotsInv'
<1>1. PICK th, i, h : th = thread[t] /\ i = th.store /\ h = d_reclaim_head[i]
  OBVIOUS
<1>2. TypeOK /\ th.pc = "exchange" /\ th \in Rest /\ th \in ThreadState /\ i \in Stores
  BY <1>1, SettledNow DEF SlotsInv, TypeOK, drain_pending, Settled, ThreadState
<1>3. th.batch = nil /\ th.next = nil /\ h \in SlotOrNil
  BY <1>1, <1>2 DEF Rest, Resting, TypeOK
<1>4. /\ d_reclaim_head' = [d_reclaim_head EXCEPT ![i] = nil] /\ link' = link
      /\ UNCHANGED <<columns, refs, d_mutex, flags, creates, due>>
  BY <1>1 DEF drain_pending
<1>5. UNCHANGED <<generation, count, edge, free, d_current, held>>
  BY <1>4 DEF columns, refs
<1>6. d_reclaim_head' \in [Stores -> SlotOrNil]
  BY <1>2, <1>4 DEF TypeOK, SlotOrNil
<1>7. CASE h = nil
  <2>1. PICK x : x = NextStore(th)
    OBVIOUS
  <2>2. thread' = [thread EXCEPT ![t] = x] /\ x \in Rest /\ x \in ThreadState
    BY <1>1, <1>2, <1>7, <2>1, NextStoreRests DEF drain_pending, Rest
  <2>3. thread' \in [Threads -> ThreadState] /\ thread'[t] = x
        /\ \A u \in Threads : u # t => thread'[u] = thread[u]
    BY <1>2, <2>2, ThreadSteps DEF TypeOK
  <2>4. d_reclaim_head' = d_reclaim_head
    BY <1>1, <1>2, <1>4, <1>7 DEF TypeOK
  <2>5. TypeOK'
    BY <1>2, <1>4, <1>5, <1>6, <2>3 DEF TypeOK, flags
  <2>6. \A u \in Threads : thread'[u] = thread[u] \/ (Resting(thread[u]) /\ Resting(thread'[u]))
    BY <1>1, <1>2, <2>2, <2>3 DEF Rest
  <2>7. UNCHANGED <<columns, lists, refs>>
    BY <1>4, <2>4 DEF lists
  <2> QED
    BY <2>5, <2>6, <2>7, QuietStep
<1>8. CASE h # nil
  <2>1. PICK x : x = [th EXCEPT !.pc = "destruct", !.batch = h, !.progressed = TRUE]
    OBVIOUS
  <2>2. /\ x \in ThreadState /\ x.pc = "destruct" /\ x.batch = h /\ x.next = nil
        /\ PushedSlot(x) = nil /\ PushedSlot(th) = nil
    BY <1>2, <1>3, <2>1 DEF ThreadState, PushedSlot
  <2>3. thread' = [thread EXCEPT ![t] = x]
    BY <1>1, <1>8, <2>1 DEF drain_pending
  <2>4. thread' \in [Threads -> ThreadState] /\ thread'[t] = x
        /\ \A u \in Threads : u # t => thread'[u] = thread[u]
    BY <1>2, <2>2, <2>3, ThreadSteps DEF TypeOK
  <2>5. TypeOK'
    BY <1>2, <1>4, <1>5, <1>6, <2>4 DEF TypeOK, flags
  <2>6. RefsFound' /\ CountsExact' /\ Dead' = Dead
    BY <1>5 DEF SlotsInv, RefsFound, Live, CountsExact, Holders, HeldSlots, Referrers, Dead
  <2>7. EdgesCut'
    BY <1>5, <2>2, <2>4 DEF SlotsInv, EdgesCut
  <2>8. ASSUME NEW u \in Threads PROVE ThreadSound(thread[u])'
    <3>1. ThreadSound(x)
      BY <1>3, <1>8, <2>2 DEF ThreadSound, HasBatch, SlotOrNil
    <3>2. ThreadSound(thread[u])
      BY DEF SlotsInv
    <3> QED
      BY <1>4, <2>4, <3>1, <3>2 DEF ThreadSound
  <2>9. PICK L, Q, B, D : L = Lists /\ Q = Pushes /\ B = Batches /\ D = Dead
    OBVIOUS
  <2>10. PICK L2, Q2, B2 : L2 = Lists' /\ Q2 = Pushes' /\ B2 = Batches'
    OBVIOUS
  <2>11. Placed(L, Q, B, D) /\ nil \notin D
    BY <2>9, DeadIsNotNil DEF SlotsInv, DeadPlaced
  <2>12. Chain(link, nil) = {}
    BY ChainOfNil
  <2>13. Empties(L, i, L2)
    <3>1. \A j \in Stores : d_reclaim_head'[j] = IF j = i THEN nil ELSE d_reclaim_head[j]
      BY <1>2, <1>4 DEF TypeOK
    <3>2. \A j \in Stores : L2[j] = Chain(link, d_reclaim_head'[j])
                            /\ L[j] = Chain(link, d_reclaim_head[j])
      BY <1>4, <2>9, <2>10 DEF Lists
    <3> QED
      BY <2>12, <3>1, <3>2 DEF Empties
  <2>14. B[t] = {} /\ L[i] = Chain(link, h)
    BY <1>1, <1>2, <1>3, <2>9, <2>12 DEF Batches, Lists
  <2>15. Takes(Q, B, t, L[i], Q2, B2)
    <3>1. \A u \in Threads : Q2[u] = Q[u]
      BY <1>1, <2>2, <2>4, <2>9, <2>10 DEF Pushes
    <3>2. \A u \in Threads : B2[u] = IF u = t THEN L[i] ELSE B[u]
      BY <1>4, <2>2, <2>4, <2>9, <2>10, <2>14 DEF Batches
    <3> QED
      BY <3>1, <3>2 DEF Takes
  <2>16. DeadPlaced'
    <3>1. Placed(L2, Q2, B2, D)
      BY <1>2, <2>11, <2>13, <2>14, <2>15, PlacedInBatch
    <3> QED
      BY <2>6, <2>9, <2>10, <3>1 DEF DeadPlaced
  <2>17. Acyclic'
    <3>1. \A u \in Threads : Q2[u] = Q[u]
      BY <2>15 DEF Takes
    <3>2. \A s \in D : (\A u \in Threads : Q2[u] # s) => s \notin Chain(link, link[s])
      BY <2>9, <3>1 DEF SlotsInv, Acyclic
    <3> QED
      BY <1>4, <2>6, <2>9, <2>10, <3>2 DEF Acyclic
  <2> QED
    BY <2>5, <2>6, <2>7, <2>8, <2>16, <2>17 DEF SlotsInv
<1> QED
  BY <1>7, <1>8

LEMMA DestructStep ==
  ASSUME SlotsInv, NEW t \in Threads, destruct(t)
  PROVE  SlotsInv'
<1>1. PICK th, s, c : th = thread[t] /\ s = th.batch /\ c = edge[s].slot
  OBVIOUS
<1>2. TypeOK /\ th \in ThreadState /\ th.pc = "destruct" /\ ThreadSound(th) /\ HasBatch(th)
  BY <1>1 DEF SlotsInv, TypeOK, destruct, HasBatch
<1>3. s \in Slots /\ s \in Dead /\ link \in Links /\ nil \notin Slots
  BY <1>1, <1>2, BatchIsDead, NilAssumption DEF Dead, TypeOK, Links, SlotOrNil
<1>4. /\ edge' = [edge EXCEPT ![s] = NoRef]
      /\ count' = IF c = nil THEN count ELSE [count EXCEPT ![c] = @ - 1]
      /\ UNCHANGED <<generation, free, lists, refs, d_mutex, flags, creates, due>>
  BY <1>1 DEF destruct
<1>5. UNCHANGED <<d_current, held, link, d_reclaim_head>>
  BY <1>4 DEF refs, lists
<1>6. c = nil \/ (c \in Slots /\ c \notin free /\ count[c] > 0 /\ c # s)
  <2>1. CASE edge[s] = NoRef
    BY <1>1, <2>1 DEF NoRef
  <2>2. CASE edge[s] # NoRef
    <3>1. c \in Slots /\ c \notin free /\ count[c] > 0
      BY <1>1, <1>3, <2>2, RefsCount DEF SlotsInv, RefsFound, Live
    <3> QED
      BY <1>3, <3>1 DEF Dead
  <2> QED
    BY <2>1, <2>2
<1>7. \A x \in Slots : count[x] \in Nat /\ count'[x] = count[x] - (IF x = c THEN 1 ELSE 0)
  BY <1>2, <1>3, <1>4, <1>6 DEF TypeOK
<1>8. \A x \in Slots : edge'[x] = IF x = s THEN NoRef ELSE edge[x]
  BY <1>2, <1>4 DEF TypeOK
<1>9. PICK y : y = [th EXCEPT !.pc = "bump", !.next = link[s]]
  OBVIOUS
<1> DEFINE zero == c # nil /\ count[c] = 1
<1>11. PICK x : x = IF zero THEN Enqueue(y, c, "bump") ELSE y
  OBVIOUS
<1>12. thread' = [thread EXCEPT ![t] = x]
  BY <1>1, <1>9, <1>11 DEF destruct
<1>13. link[s] \in SlotOrNil
  BY <1>3 DEF Links, SlotOrNil
<1>14. /\ y \in ThreadState /\ y.batch = s /\ y.next = link[s] /\ y.pc = "bump"
  BY <1>1, <1>2, <1>9, <1>13 DEF ThreadState
<1>15. /\ x \in ThreadState /\ x.batch = s /\ x.next = link[s] /\ x.pc # "destruct"
       /\ HasBatch(x) /\ PushedSlot(x) = IF zero THEN c ELSE nil
       /\ x.pc \in {"enqueue", "cas"} => zero /\ x.slot = c
       /\ x.pc # "cas"
  BY <1>6, <1>11, <1>14 DEF ThreadState, Enqueue, HasBatch, PushedSlot, SlotOrNil
<1>16. thread' \in [Threads -> ThreadState] /\ thread'[t] = x
       /\ \A u \in Threads : u # t => thread'[u] = thread[u]
  BY <1>2, <1>12, <1>15, ThreadSteps DEF TypeOK
<1>17. TypeOK'
  <2>1. count' \in [Slots -> Nat]
    BY <1>2, <1>4, <1>6 DEF TypeOK
  <2>2. edge' \in [Slots -> RefType]
    <3>1. NoRef \in RefType
      BY DEF NoRef, RefType, SlotOrNil
    <3> QED
      BY <1>2, <1>4, <3>1 DEF TypeOK
  <2> QED
    BY <1>2, <1>4, <1>5, <1>16, <2>1, <2>2 DEF TypeOK, flags
<1>18. RefsFound'
  BY <1>4, <1>5, <1>8 DEF SlotsInv, RefsFound, Live
<1>19. CountsExact'
  <2> SUFFICES ASSUME NEW z \in Slots, z \notin free'
               PROVE  count'[z] = Cardinality(Holders(z)') + Cardinality(Referrers(z)')
                                  + (IF d_current'.slot = z THEN 1 ELSE 0)
    BY DEF CountsExact
  <2>1. Holders(z)' = Holders(z) /\ z \notin free /\ d_current' = d_current
    BY <1>4, <1>5 DEF Holders, HeldSlots
  <2>2. Cardinality(Referrers(z)') = Cardinality(Referrers(z)) - (IF z = c THEN 1 ELSE 0)
    <3>1. PICK H, K : H = Referrers(z) /\ K = Referrers(z)'
      OBVIOUS
    <3>2. IsFiniteSet(H) /\ Cardinality(H) \in Nat
      BY <3>1, CountTypes
    <3>3. NoRef.slot # z
      BY <1>3 DEF NoRef
    <3>4. CASE z = c
      <4>1. K = H \ {s} /\ s \in H
        BY <1>1, <1>3, <1>8, <3>1, <3>3, <3>4 DEF Referrers
      <4>2. Cardinality(K) = Cardinality(H) - 1
        BY <3>2, <4>1, OneLess
      <4> QED
        BY <3>1, <3>4, <4>2
    <3>5. CASE z # c
      <4>1. K = H
        BY <1>1, <1>3, <1>8, <3>1, <3>3, <3>5 DEF Referrers
      <4> QED
        BY <3>1, <3>2, <3>5, <4>1
    <3> QED
      BY <3>4, <3>5
  <2>3. count[z] = Cardinality(Holders(z)) + Cardinality(Referrers(z))
                   + (IF d_current.slot = z THEN 1 ELSE 0)
    BY <2>1 DEF SlotsInv, CountsExact
  <2>4. Cardinality(Holders(z)) \in Nat /\ Cardinality(Referrers(z)) \in Nat
    BY CountTypes
  <2> QED
    BY <1>7, <2>1, <2>2, <2>3, <2>4
<1>20. EdgesCut'
  <2>1. \A z \in free' : edge'[z] = NoRef
    BY <1>2, <1>4, <1>8 DEF SlotsInv, EdgesCut, TypeOK
  <2>2. ASSUME NEW u \in Threads, HasBatch(thread'[u]), thread'[u].pc # "destruct"
        PROVE  edge'[thread'[u].batch] = NoRef
    <3>1. CASE u = t
      BY <1>3, <1>8, <1>15, <1>16, <3>1
    <3>2. CASE u # t
      <4>1. thread[u].batch \in Slots /\ edge[thread[u].batch] = NoRef
        BY <1>16, <2>2, <3>2 DEF SlotsInv, EdgesCut, ThreadSound
      <4> QED
        BY <1>8, <1>16, <3>2, <4>1
    <3> QED
      BY <3>1, <3>2
  <2> QED
    BY <2>1, <2>2 DEF EdgesCut
<1>21. ThreadSound(thread[t])'
  BY <1>3, <1>5, <1>6, <1>15, <1>16 DEF ThreadSound
<1>22. DeadPlaced' /\ Acyclic' /\ \A u \in Threads : ThreadSound(thread[u])'
  <2>1. PushedSlot(thread[t]) = nil /\ thread'[t].batch = thread[t].batch
    BY <1>1, <1>2, <1>15, <1>16 DEF PushedSlot
  <2>2. CASE zero
    <3>0. \A z \in Slots : count'[z] = 0 <=> count[z] = 0 \/ z = c
      BY <1>6, <1>7, <2>2
    <3>1. c \in Slots \ Dead /\ Dead' = Dead \cup {c}
      BY <1>4, <1>6, <2>2, <3>0 DEF Dead
    <3>2. PushedSlot(thread'[t]) = c
      BY <1>15, <1>16, <2>2
    <3>3. UNCHANGED lists
      BY <1>4
    <3> QED
      BY <1>16, <1>21, <2>1, <3>1, <3>2, <3>3, PlacesDie
  <2>3. CASE ~ zero
    <3>0. ASSUME NEW z \in Slots PROVE count'[z] = 0 <=> count[z] = 0
      <4>1. z # c \/ (count[z] \in Nat /\ count[z] > 0 /\ count[z] # 1)
        BY <1>3, <1>6, <1>7, <2>3
      <4> QED
        BY <1>7, <4>1
    <3>1. Dead' = Dead
      BY <1>4, <3>0 DEF Dead
    <3>2. \A u \in Threads : /\ PushedSlot(thread'[u]) = PushedSlot(thread[u])
                             /\ thread'[u].batch = thread[u].batch
      BY <1>15, <1>16, <2>1, <2>3
    <3>3. UNCHANGED lists
      BY <1>4
    <3>4. DeadPlaced' /\ Acyclic'
      BY <3>1, <3>2, <3>3, PlacesKept
    <3>5. \A u \in Threads : u # t => ThreadSound(thread[u])'
      BY <1>5, <1>16 DEF SlotsInv, ThreadSound
    <3> QED
      BY <1>21, <3>4, <3>5
  <2> QED
    BY <2>2, <2>3
<1> QED
  BY <1>17, <1>18, <1>19, <1>20, <1>22 DEF SlotsInv

\* The generation of the batch's first slot is bumped.
LEMMA BumpStep ==
  ASSUME SlotsInv, NEW t \in Threads, thread[t].pc = "bump", reclaim(t)
  PROVE  SlotsInv'
<1>1. PICK th, b : th = thread[t] /\ b = th.batch
  OBVIOUS
<1>2. TypeOK /\ th \in ThreadState /\ th.pc = "bump" /\ ThreadSound(th) /\ HasBatch(th)
  BY <1>1 DEF SlotsInv, TypeOK, HasBatch
<1>3. b \in Slots /\ b \in Dead
  BY <1>1, <1>2, BatchIsDead DEF Dead
<1>4. PICK x : x = [th EXCEPT !.pc = "release"]
  OBVIOUS
<1>5. /\ generation' = [generation EXCEPT ![b] = @ + 1] /\ thread' = [thread EXCEPT ![t] = x]
      /\ UNCHANGED <<free, count, edge, lists, refs, d_mutex, flags, creates, due>>
  BY <1>1, <1>2, <1>4 DEF reclaim
<1>6. /\ x \in ThreadState /\ x.batch = th.batch /\ x.next = th.next /\ x.pc = "release"
      /\ HasBatch(x) /\ PushedSlot(x) = nil /\ PushedSlot(th) = nil
  BY <1>2, <1>4 DEF ThreadState, HasBatch, PushedSlot
<1>7. thread' \in [Threads -> ThreadState] /\ thread'[t] = x
      /\ \A u \in Threads : u # t => thread'[u] = thread[u]
  BY <1>2, <1>5, <1>6, ThreadSteps DEF TypeOK
<1>8. UNCHANGED <<d_current, held, link, d_reclaim_head>>
  BY <1>5 DEF refs, lists
<1>9. \A s \in Slots : s # b => generation'[s] = generation[s]
  BY <1>2, <1>5 DEF TypeOK
<1>10. TypeOK'
  <2>1. generation' \in [Slots -> Nat]
    BY <1>2, <1>3, <1>5 DEF TypeOK
  <2> QED
    BY <1>2, <1>5, <1>7, <1>8, <2>1 DEF TypeOK, flags
<1>11. RefsFound'
  <2>1. \A r : Live(r) /\ count[r.slot] > 0 => Live(r)'
    BY <1>3, <1>5, <1>9 DEF Live, Dead
  <2>2. \A u \in Clients : \A r \in held[u] : Live(r)'
    BY <2>1, RefsCount DEF SlotsInv, RefsFound
  <2>3. \A s \in Slots : edge[s] = NoRef \/ Live(edge[s])'
    <3>1. \A s \in Slots : edge[s] = NoRef \/ (Live(edge[s]) /\ count[edge[s].slot] > 0)
      BY RefsCount DEF SlotsInv, RefsFound
    <3>2. edge' = edge
      BY <1>5
    <3> QED
      BY <2>1, <3>1, <3>2
  <2>4. d_current = NoRef \/ Live(d_current)'
    <3>1. d_current = NoRef \/ (Live(d_current) /\ count[d_current.slot] > 0)
      BY RefsCount DEF SlotsInv, RefsFound
    <3> QED
      BY <1>8, <2>1, <3>1
  <2> QED
    BY <1>5, <1>8, <2>2, <2>3, <2>4 DEF RefsFound
<1>12. CountsExact' /\ Dead' = Dead
  BY <1>5, <1>8 DEF SlotsInv, CountsExact, Holders, HeldSlots, Referrers, Dead
<1>13. \A u \in Threads : /\ PushedSlot(thread'[u]) = PushedSlot(thread[u])
                          /\ thread'[u].batch = thread[u].batch
  BY <1>1, <1>6, <1>7
<1>14. DeadPlaced' /\ Acyclic'
  <2>1. UNCHANGED lists
    BY <1>5
  <2> QED
    BY <1>12, <1>13, <2>1, PlacesKept
<1>15. \A u \in Threads : ThreadSound(thread[u])'
  <2>1. ThreadSound(x)
    BY <1>2, <1>6 DEF ThreadSound
  <2>2. \A u \in Threads : ThreadSound(thread[u])
    BY DEF SlotsInv
  <2> QED
    BY <1>7, <1>8, <2>1, <2>2 DEF ThreadSound
<1>16. EdgesCut'
  BY <1>1, <1>2, <1>5, <1>6, <1>7 DEF SlotsInv, EdgesCut
<1> QED
  BY <1>10, <1>11, <1>12, <1>14, <1>15, <1>16 DEF SlotsInv

\* The batch's first slot is released.
LEMMA FreeStep ==
  ASSUME SlotsInv, NEW t \in Threads, thread[t].pc = "release", reclaim(t)
  PROVE  SlotsInv'
<1>1. PICK th, b, n : th = thread[t] /\ b = th.batch /\ n = th.next
  OBVIOUS
<1>2. TypeOK /\ th \in ThreadState /\ th.pc = "release" /\ ThreadSound(th) /\ HasBatch(th)
  BY <1>1 DEF SlotsInv, TypeOK, HasBatch
<1>3. b \in Slots /\ b \in Dead /\ link \in Links /\ n = link[b] /\ n \in SlotOrNil
  BY <1>1, <1>2, BatchIsDead DEF Dead, ThreadSound, ThreadState, TypeOK, Links, SlotOrNil
<1>4. PICK x : x = NextSlot(th)
  OBVIOUS
<1>5. /\ free' = free \cup {b} /\ thread' = [thread EXCEPT ![t] = x]
      /\ UNCHANGED <<generation, count, edge, lists, refs, d_mutex, flags, creates, due>>
  BY <1>1, <1>2, <1>4 DEF reclaim
<1>6. x \in ThreadState /\ ThreadSound(x) /\ x.batch = n /\ PushedSlot(x) = nil
      /\ (HasBatch(x) => x.pc = "destruct")
  <2>1. CASE n = nil
    <3>1. PICK y : y = [th EXCEPT !.batch = nil]
      OBVIOUS
    <3>2. PICK z : z = [y EXCEPT !.pc = "exchange"]
      OBVIOUS
    <3>3. z \in Rest
      BY <1>1, <1>2, <2>1, <3>1, <3>2 DEF Rest, Resting, ThreadState, SlotOrNil
    <3>4. NextStore(z) = NextStore(y)
      BY <1>2, <3>1, <3>2 DEF NextStore, Draining, ThreadState
    <3>5. x = NextStore(y)
      BY <1>1, <1>4, <2>1, <3>1 DEF NextSlot
    <3>6. x \in Rest
      BY <3>3, <3>4, <3>5, NextStoreRests
    <3> QED
      BY <2>1, <3>6, RestingIsSound DEF Rest, Resting
  <2>2. CASE n # nil
    <3>1. x = [th EXCEPT !.pc = "destruct", !.batch = n, !.next = nil]
      BY <1>1, <1>4, <2>2 DEF NextSlot
    <3>2. x \in ThreadState /\ x.pc = "destruct" /\ x.batch = n /\ x.next = nil
      BY <1>2, <1>3, <3>1 DEF ThreadState, SlotOrNil
    <3> QED
      BY <1>3, <2>2, <3>2 DEF ThreadSound, HasBatch, PushedSlot, SlotOrNil
  <2> QED
    BY <2>1, <2>2
<1>7. thread' \in [Threads -> ThreadState] /\ thread'[t] = x
      /\ \A u \in Threads : u # t => thread'[u] = thread[u]
  BY <1>2, <1>5, <1>6, ThreadSteps DEF TypeOK
<1>8. UNCHANGED <<d_current, held, link, d_reclaim_head>>
  BY <1>5 DEF refs, lists
<1>9. TypeOK'
  BY <1>2, <1>3, <1>5, <1>7, <1>8 DEF TypeOK, flags
<1>10. RefsFound'
  <2>1. \A r : Live(r) /\ count[r.slot] > 0 => Live(r)'
    BY <1>3, <1>5 DEF Live, Dead
  <2>2. \A u \in Clients : \A r \in held[u] : Live(r)'
    BY <2>1, RefsCount DEF SlotsInv, RefsFound
  <2>3. \A s \in Slots : edge[s] = NoRef \/ Live(edge[s])'
    <3>1. \A s \in Slots : edge[s] = NoRef \/ (Live(edge[s]) /\ count[edge[s].slot] > 0)
      BY RefsCount DEF SlotsInv, RefsFound
    <3>2. edge' = edge
      BY <1>5
    <3> QED
      BY <2>1, <3>1, <3>2
  <2>4. d_current = NoRef \/ Live(d_current)'
    <3>1. d_current = NoRef \/ (Live(d_current) /\ count[d_current.slot] > 0)
      BY RefsCount DEF SlotsInv, RefsFound
    <3> QED
      BY <1>8, <2>1, <3>1
  <2> QED
    BY <1>5, <1>8, <2>2, <2>3, <2>4 DEF RefsFound
<1>11. CountsExact'
  BY <1>5, <1>8 DEF SlotsInv, CountsExact, Holders, HeldSlots, Referrers
<1>12. Dead' = Dead \ {b}
  BY <1>5 DEF Dead
<1>13. \A u \in Threads : ThreadSound(thread[u])'
  <2>1. \A u \in Threads : ThreadSound(thread[u])
    BY DEF SlotsInv
  <2> QED
    BY <1>6, <1>7, <1>8, <2>1 DEF ThreadSound
<1>14. EdgesCut'
  BY <1>1, <1>2, <1>5, <1>6, <1>7 DEF SlotsInv, EdgesCut
<1>15. PICK L, Q, B, D : L = Lists /\ Q = Pushes /\ B = Batches /\ D = Dead
  OBVIOUS
<1>16. PICK L2, Q2, B2, D2 : L2 = Lists' /\ Q2 = Pushes' /\ B2 = Batches' /\ D2 = Dead'
  OBVIOUS
<1>17. Placed(L, Q, B, D) /\ nil \notin D /\ D2 = D \ {b}
  BY <1>12, <1>15, <1>16, DeadIsNotNil DEF SlotsInv, DeadPlaced
<1>18. B[t] = {b} \cup Chain(link, n)
  <2>1. B[t] = Chain(link, b)
    BY <1>1, <1>15 DEF Batches
  <2> QED
    BY <1>3, <2>1, ChainFirst
<1>19. b \notin Chain(link, n)
  <2>1. \A u \in Threads : Q[u] # b
    BY <1>17, <1>18 DEF Placed
  <2> QED
    BY <1>3, <1>15, <2>1 DEF SlotsInv, Acyclic
<1>20. \A i \in Stores : L2[i] = L[i]
  BY <1>8, <1>15, <1>16 DEF Lists
<1>21. ASSUME NEW u \in Threads PROVE Q2[u] = Q[u] /\ B2[u] = B[u] \ {b}
  <2>1. Q2[u] = Q[u]
    <3>1. PushedSlot(th) = nil
      BY <1>2 DEF PushedSlot
    <3> QED
      BY <1>1, <1>6, <1>7, <1>15, <1>16, <3>1 DEF Pushes
  <2>2. CASE u = t
    <3>1. B2[t] = Chain(link, n)
      BY <1>6, <1>7, <1>8, <1>16 DEF Batches
    <3> QED
      BY <1>18, <1>19, <2>1, <2>2, <3>1
  <2>3. CASE u # t
    <3>1. B2[u] = B[u]
      BY <1>7, <1>8, <1>15, <1>16, <2>3 DEF Batches
    <3>2. b \notin B[u]
      BY <1>17, <1>18, <2>3 DEF Placed
    <3> QED
      BY <2>1, <3>1, <3>2
  <2> QED
    BY <2>2, <2>3
<1>22. DeadPlaced'
  <2>1. b \in B[t] /\ \A u \in Threads : Q2[u] = Q[u] /\ B2[u] = B[u] \ {b}
    BY <1>18, <1>21
  <2>2. Placed(L2, Q2, B2, D2)
    BY <1>17, <1>20, <2>1, PlacedFreed
  <2> QED
    BY <1>16, <2>2 DEF DeadPlaced
<1>23. Acyclic'
  <2>1. \A s \in D : (\A u \in Threads : Q[u] # s) => s \notin Chain(link, link[s])
    BY <1>15 DEF SlotsInv, Acyclic
  <2>2. \A s \in D2 : (\A u \in Threads : Q2[u] # s) => s \notin Chain(link', link'[s])
    BY <1>8, <1>17, <1>21, <2>1
  <2> QED
    BY <1>16, <2>2 DEF Acyclic
<1> QED
  BY <1>9, <1>10, <1>11, <1>13, <1>14, <1>22, <1>23 DEF SlotsInv

LEMMA SlotsStep == SlotsInv /\ [Next]_vars => SlotsInv'
<1> SUFFICES ASSUME SlotsInv, [Next]_vars PROVE SlotsInv'
  OBVIOUS
<1>1. ASSUME NEW t \in Threads, Push(t) PROVE SlotsInv'
  BY <1>1, PushStep
<1>2. ASSUME NEW t \in Threads, Drain(t) PROVE SlotsInv'
  <2>1. CASE drain_pending(t)
    BY <2>1, DetachStep
  <2>2. CASE destruct(t)
    BY <2>2, DestructStep
  <2>3. CASE reclaim(t)
    <3>1. thread[t].pc = "bump" \/ thread[t].pc = "release"
      BY <2>3 DEF reclaim
    <3> QED
      BY <2>3, <3>1, BumpStep, FreeStep
  <2>4. CASE unlock(t)
    <3>1. NoSlotMoves
      BY <2>4 DEF NoSlotMoves, unlock
    <3> QED
      BY <3>1, NoSlotMovesStep
  <2> QED
    BY <1>2, <2>1, <2>2, <2>3, <2>4 DEF Drain
<1>3. ASSUME NEW t \in Clients, pin(t) PROVE SlotsInv'
  BY <1>3, PinStep
<1>4. ASSUME NEW t \in Clients, NEW r \in held[t], resolve(t, r) \/ reset(t, r) PROVE SlotsInv'
  BY <1>4, ResolveStep, ResetStep
<1>5. ASSUME NEW s \in Slots, NEW child \in held[Writer] \cup {NoRef}, create(s, child)
      PROVE  SlotsInv'
  BY <1>5, CreateStep
<1>6. ASSUME NEW r \in held[Writer], publish(r) PROVE SlotsInv'
  BY <1>6, PublishStep
<1>7. CASE NoSlotMoves
  BY <1>7, NoSlotMovesStep
<1>8. CASE UNCHANGED vars
  <2>1. UNCHANGED <<columns, lists, refs, thread>> /\ TypeOK'
    BY <1>8 DEF vars, columns, lists, refs, flags, SlotsInv, TypeOK
  <2> QED
    BY <2>1, QuietStep
<1> QED
  BY <1>1, <1>2, <1>3, <1>4, <1>5, <1>6, <1>7, <1>8 DEF Next, Acquire, Loop, NoSlotMoves

(* References find their records, counts are exact and every dead slot is  *)
(* in one place, whatever threads push, detach and drain (refs.hpp,        *)
(* reclamation.hpp).                                                       *)
THEOREM SlotsAreSound == Spec => []SlotsSound
<1>1. Init => SlotsInv
  BY SlotsInit
<1>2. SlotsInv /\ [Next]_vars => SlotsInv'
  BY SlotsStep
<1>3. SlotsInv => SlotsSound
  BY SlotsFollow
<1> QED
  BY <1>1, <1>2, <1>3, PTL DEF Spec

(***************************************************************************)
(* Who drains.                                                             *)
(***************************************************************************)
Working(th) == th.pc \in {"exchange", "quiet"} \/ HasBatch(th)

\* The mutex is held through a drain, and for nothing else.
OneDrain == \A t \in Threads : Working(thread[t]) <=> d_mutex = t

\* A drain that found a batch goes round again.
GoesRound == \A t \in Threads : HasBatch(thread[t]) => thread[t].progressed

\* Thread t goes on to x and drains if it did so before.
LEMMA OneGoesOn ==
  ASSUME thread \in [Threads -> ThreadState], OneDrain, GoesRound, d_mutex' = d_mutex,
         NEW t \in Threads, NEW x \in ThreadState, thread' = [thread EXCEPT ![t] = x],
         Working(x) <=> Working(thread[t]), HasBatch(x) => x.progressed
  PROVE  OneDrain' /\ GoesRound'
<1>1. thread'[t] = x /\ \A u \in Threads : u # t => thread'[u] = thread[u]
  BY ThreadSteps
<1> QED
  BY <1>1 DEF OneDrain, GoesRound

LEMMA FreshWorks ==
  /\ \A th \in Fresh : (Working(th) <=> th.pc = "exchange") /\ ~ HasBatch(th)
  /\ \A th \in Rest : (Working(th) <=> th.pc \in {"exchange", "quiet"}) /\ ~ HasBatch(th)
BY DEF Fresh, Away, Rest, Resting, Working, HasBatch

LEMMA ManyWork ==
  ASSUME NEW ths, Settled(ths)
  PROVE  \A t \in Threads :
           /\ Working(Progressed(ths)[t]) <=> Working(ths[t])
           /\ Working(Ticked(ths)[t]) <=> Working(ths[t])
           /\ Working(Notified(ths)[t]) <=> Working(ths[t])
           /\ Progressed(ths)[t].ticked = ths[t].ticked
           /\ Notified(ths)[t].ticked = ths[t].ticked
           /\ Settled(Progressed(ths)) /\ Settled(Ticked(ths)) /\ Settled(Notified(ths))
<1>1. \A t \in Threads : ths[t] \in ThreadState
  BY DEF Settled
<1>2. ASSUME NEW t \in Threads
      PROVE  /\ Working(Progressed(ths)[t]) <=> Working(ths[t])
             /\ Progressed(ths)[t].ticked = ths[t].ticked
  BY <1>1 DEF Progressed, Working, HasBatch, ThreadState
<1>3. ASSUME NEW t \in Threads PROVE Working(Ticked(ths)[t]) <=> Working(ths[t])
  BY <1>1 DEF Ticked, Working, HasBatch, ThreadState
<1>4. ASSUME NEW t \in Threads
      PROVE  /\ Working(Notified(ths)[t]) <=> Working(ths[t])
             /\ Notified(ths)[t].ticked = ths[t].ticked
  <2>1. \/ Notified(ths)[t].pc = ths[t].pc
        \/ Notified(ths)[t].pc = "notified" /\ ths[t].pc = "parked"
    BY <1>1 DEF Notified, Settled, ThreadState
  <2>2. Notified(ths)[t].then = ths[t].then /\ Notified(ths)[t].ticked = ths[t].ticked
    BY <1>1 DEF Notified, Settled, ThreadState
  <2> QED
    BY <2>1, <2>2 DEF Working, HasBatch
<1>5. Settled(Progressed(ths)) /\ Settled(Ticked(ths)) /\ Settled(Notified(ths))
  BY ManyRest DEF Undisturbed
<1> QED
  BY <1>2, <1>3, <1>4, <1>5

LEMMA NoSlotMovesDrains ==
  ASSUME SlotsInv, OneDrain, GoesRound, NoSlotMoves
  PROVE  /\ OneDrain' /\ GoesRound'
         /\ \A t \in Clients :
              thread'[t].ticked => thread[t].ticked \/ thread[Keeper].pc = "quiet"
<1>1. /\ Settled(thread) /\ thread \in [Threads -> ThreadState] /\ nil \notin Threads
      /\ Keeper \in Threads /\ Clients \subseteq Threads
  BY SettledNow, ThreadsAndStores DEF Settled
<1>2. Undisturbed(thread, thread')
  BY NoSlotMovesRests
<1>3. GoesRound'
  BY <1>2, FreshWorks DEF GoesRound, Undisturbed
<1>4. \A u \in Threads : Working(thread[u]) => d_mutex = u
  BY DEF OneDrain
<1>5. CASE run
  <2>1. PICK x : x = Check(thread[Keeper], thread[Keeper].pc = "elapsed")
    OBVIOUS
  <2>2. /\ thread[Keeper].pc \in {"start", "notified", "elapsed"} /\ d_mutex = nil
        /\ thread' = [thread EXCEPT ![Keeper] = x]
        /\ d_mutex' = IF x.pc = "parked" THEN nil ELSE Keeper
    BY <1>5, <2>1 DEF run
  <2>3. x.pc = "exchange" \/ x.pc = "parked"
    BY <1>1, <2>1 DEF Check, Draining, ThreadState
  <2>4. Working(x) <=> x.pc = "exchange"
    BY <2>3 DEF Working, HasBatch
  <2>5. \A u \in Threads : ~ Working(thread[u])
    BY <1>1, <1>4, <2>2
  <2>6. OneDrain'
    BY <1>1, <2>2, <2>3, <2>4, <2>5 DEF OneDrain
  <2> QED
    BY <1>1, <1>3, <2>2, <2>6, ThreadsAndStores
<1>6. CASE tick \/ exit \/ \E t \in Clients : unlock(t)
  <2>1. PICK k \in Threads : /\ thread[k].pc = "quiet" /\ d_mutex' = nil
                             /\ tick \/ exit => k = Keeper
                             /\ k \in Clients => unlock(k)
                             /\ tick \/ exit \/ unlock(k)
    BY <1>1, <1>6, ThreadsAndStores DEF tick, exit, unlock
  <2>2. d_mutex = k /\ \A u \in Threads : u # k => ~ Working(thread[u])
    BY <1>4, <2>1 DEF Working
  <2>3. CASE exit \/ unlock(k)
    <3>1. PICK x : x \in {Idle, [Idle EXCEPT !.pc = "exited"]} /\ thread' = [thread EXCEPT ![k] = x]
      BY <2>1, <2>3 DEF exit, unlock
    <3>2. ~ Working(x) /\ ~ x.ticked
      BY <3>1 DEF Working, HasBatch, Idle
    <3> QED
      BY <1>1, <1>3, <2>1, <2>2, <3>1, <3>2 DEF OneDrain
  <2>4. CASE tick
    <3>1. PICK a, b : a = [thread EXCEPT ![Keeper] = Parked] /\ b = Ticked(a)
      OBVIOUS
    <3>2. Parked \in Rest /\ ~ Working(Parked)
      BY IdleRests DEF Fresh, Parked, Idle, Working, HasBatch
    <3>3. Settled(a) /\ \A u \in Threads : ~ Working(a[u])
      BY <1>1, <2>1, <2>2, <2>4, <3>1, <3>2 DEF Settled, Rest
    <3>4. Settled(b) /\ \A u \in Threads : ~ Working(b[u])
      BY <3>1, <3>3, ManyWork
    <3>5. thread' = Progressed(b)
      BY <2>4, <3>1 DEF tick
    <3>6. \A u \in Threads : ~ Working(thread'[u])
      BY <3>4, <3>5, ManyWork
    <3> QED
      BY <1>1, <1>3, <2>1, <2>4, <3>6 DEF OneDrain
  <2> QED
    BY <2>1, <2>3, <2>4
<1>7. ASSUME NEW t \in Clients, lock(t)
      PROVE  OneDrain' /\ \A u \in Clients : thread'[u].ticked => thread[u].ticked
  <2>1. PICK x : x = Draining(thread[t])
    OBVIOUS
  <2>2. thread' = [thread EXCEPT ![t] = x] /\ d_mutex = nil /\ d_mutex' = t /\ t \in Threads
    BY <1>1, <1>7, <2>1 DEF lock
  <2>3. Working(x) /\ x.ticked = thread[t].ticked
    BY <1>1, <2>1, <2>2 DEF Draining, Working, ThreadState
  <2>4. \A u \in Threads : ~ Working(thread[u])
    BY <1>1, <1>4, <2>2
  <2> QED
    BY <1>1, <2>2, <2>3, <2>4 DEF OneDrain
<1>8. ASSUME NEW t \in Threads, NEW x \in ThreadState, thread' = [thread EXCEPT ![t] = x],
             ~ Working(x), ~ Working(thread[t]), d_mutex' = d_mutex, x.ticked => thread[t].ticked
      PROVE  OneDrain' /\ \A u \in Clients : thread'[u].ticked => thread[u].ticked
  BY <1>1, <1>8 DEF OneDrain
<1>9. CASE period
  <2>1. PICK x : x = [thread[Keeper] EXCEPT !.pc = "elapsed"]
    OBVIOUS
  <2>2. x \in ThreadState /\ x.pc = "elapsed" /\ x.ticked = thread[Keeper].ticked
    BY <1>1, <2>1 DEF ThreadState
  <2>3. ~ Working(x) /\ ~ Working(thread[Keeper])
    BY <1>9, <2>2 DEF period, Working, HasBatch
  <2>4. thread' = [thread EXCEPT ![Keeper] = x] /\ d_mutex' = d_mutex
    BY <1>9, <2>1 DEF period
  <2>5. OneDrain' /\ \A u \in Clients : thread'[u].ticked => thread[u].ticked
    BY <1>1, <1>8, <2>2, <2>3, <2>4
  <2> QED
    BY <1>3, <2>5
<1>10. ASSUME NEW t \in Clients, drain_and_quiesce(t) \/ flush_wakes(t)
       PROVE  OneDrain' /\ \A u \in Clients : thread'[u].ticked => thread[u].ticked
  <2>1. PICK x : x \in {[thread[t] EXCEPT !.pc = "lock"], [thread[t] EXCEPT !.pc = "waiting"], Idle}
                 /\ thread' = [thread EXCEPT ![t] = x]
    BY <1>10 DEF drain_and_quiesce, flush_wakes
  <2>2. t \in Threads /\ thread[t] \in ThreadState /\ Idle \in ThreadState
    BY <1>1, IdleRests DEF Fresh, Rest
  <2>3. x \in ThreadState /\ x.pc \in {"lock", "waiting", "idle"} /\ (x.ticked => thread[t].ticked)
    BY <2>1, <2>2 DEF ThreadState, Idle
  <2>4. ~ Working(x) /\ ~ Working(thread[t]) /\ d_mutex' = d_mutex
    BY <1>10, <2>3 DEF drain_and_quiesce, flush_wakes, Working, HasBatch
  <2> QED
    BY <1>8, <2>1, <2>2, <2>3, <2>4
<1>11. CASE poke \/ request_stop
  <2>1. Settled(Notified(thread))
    BY <1>1, ManyWork
  <2>2. thread' = Notified(thread) \/ thread' = Progressed(Notified(thread))
    BY <1>11 DEF poke, request_stop
  <2>3. \A u \in Threads : /\ Working(Notified(thread)[u]) <=> Working(thread[u])
                           /\ Notified(thread)[u].ticked = thread[u].ticked
    BY <1>1, ManyWork
  <2>4. PICK n : n = Notified(thread)
    OBVIOUS
  <2>5. \A u \in Threads : /\ Working(Progressed(n)[u]) <=> Working(n[u])
                           /\ Progressed(n)[u].ticked = n[u].ticked
    BY <2>1, <2>4, ManyWork
  <2>6. \A u \in Threads : /\ Working(thread'[u]) <=> Working(thread[u])
                           /\ thread'[u].ticked = thread[u].ticked
    BY <2>2, <2>3, <2>4, <2>5
  <2>7. d_mutex' = d_mutex
    BY <1>11 DEF poke, request_stop
  <2> QED
    BY <1>1, <1>3, <2>6, <2>7 DEF OneDrain
<1>12. ASSUME NEW t \in Clients, flush(t)
       PROVE  OneDrain' /\ \A u \in Clients : thread'[u].ticked => thread[u].ticked
  <2>1. PICK x : x = [Idle EXCEPT !.pc = "waiting"]
    OBVIOUS
  <2>2. PICK a : a = IF d_stop THEN thread ELSE [thread EXCEPT ![t] = x]
    OBVIOUS
  <2>3. t \in Threads /\ thread[t].pc = "idle" /\ x \in Rest /\ d_mutex' = d_mutex
        /\ thread' = Notified(a)
    <3>1. "waiting" \in Away
      BY DEF Away
    <3> QED
      BY <1>1, <1>12, <2>1, <2>2, <3>1, IdleRests DEF flush, Fresh
  <2>4. ~ Working(x) /\ ~ Working(thread[t]) /\ ~ x.ticked
    BY <2>1, <2>3 DEF Working, HasBatch, Idle
  <2>5. Settled(a) /\ \A u \in Threads : /\ Working(a[u]) <=> Working(thread[u])
                                         /\ a[u].ticked => thread[u].ticked
    BY <1>1, <2>2, <2>3, <2>4 DEF Settled, Rest
  <2>6. \A u \in Threads : /\ Working(Notified(a)[u]) <=> Working(a[u])
                           /\ Notified(a)[u].ticked = a[u].ticked
    BY <2>5, ManyWork
  <2> QED
    BY <1>1, <2>3, <2>5, <2>6 DEF OneDrain
<1> QED
  BY <1>3, <1>5, <1>6, <1>7, <1>9, <1>10, <1>11, <1>12 DEF NoSlotMoves

(***************************************************************************)
(* The inductive invariant of FlushDrains.                                 *)
(***************************************************************************)
Unused(s) == d_current.slot # s /\ \A t \in Clients : \A r \in held[t] : r.slot # s

\* No client uses the slots of P, only P refers to them, and what refers to a
\* slot comes to an end: unless all is dead, some slot has its referrers outside.
Stranded(P) ==
  /\ P \subseteq Slots
  /\ \A s \in P : s \notin free /\ Unused(s) /\ Referrers(s) \subseteq P
  /\ \A X \in SUBSET P : X # {} => \E x \in X : count[x] = 0 \/ Referrers(x) \cap X = {}

\* A thread has not passed by a slot of P: it pushes one in a drain only, has
\* none that is bumped, and goes to the second store for the last time, and to
\* the end, past none.
PassesNone(th, P) ==
  /\ PushedSlot(th) \in P => th.then = "bump"
  /\ th.pc = "release" => th.batch \notin P
  /\ th.pc = "exchange" /\ th.store = 2 /\ ~ th.progressed => Lists[1] \cap P = {}
  /\ th.pc = "quiet" => P = {}

PendingSound(P) == Stranded(P) /\ \A t \in Threads : PassesNone(thread[t], P)

\* Of the slots that are due to client t, those that are not reclaimed yet.
Pending(t) == {s \in Slots : Ref(s) \in due[t]}

DueSound(t) ==
  /\ \A r \in due[t] : r.slot \in Slots /\ r.gen <= generation[r.slot]
  /\ PendingSound(Pending(t))
  /\ thread[t].ticked => Pending(t) = {}

DrainInv == SlotsInv /\ OneDrain /\ GoesRound /\ \A t \in Clients : DueSound(t)

LEMMA DrainsFollow == DrainInv => FlushDrains
<1> SUFFICES ASSUME DrainInv, NEW t \in Clients, thread[t].ticked, NEW r \in due[t],
                    generation[r.slot] = r.gen
             PROVE  FALSE
  BY DEF FlushDrains
<1>1. r.slot \in Slots /\ r \in RefType /\ Pending(t) = {}
  BY DEF DrainInv, DueSound, SlotsInv, TypeOK
<1>2. r = Ref(r.slot)
  BY <1>1 DEF Ref, RefType
<1> QED
  BY <1>1, <1>2 DEF Pending

LEMMA NonePending == PendingSound({})
BY DEF PendingSound, Stranded, PassesNone

LEMMA DrainsInit == Init => DrainInv
<1> SUFFICES ASSUME Init PROVE DrainInv
  OBVIOUS
<1>1. SlotsInv
  BY SlotsInit
<1>2. \A t \in Threads : thread[t].pc \in {"idle", "start"}
  BY DEF Init, Idle
<1>3. OneDrain /\ GoesRound
  BY <1>2, ThreadsAndStores DEF OneDrain, GoesRound, Working, HasBatch, Init
<1>4. ASSUME NEW t \in Clients PROVE DueSound(t)
  <2>1. PendingSound({})
    BY NonePending
  <2>2. due[t] = {} /\ Pending(t) = {}
    BY DEF Init, Pending
  <2> QED
    BY <2>1, <2>2 DEF DueSound
<1> QED
  BY <1>1, <1>3, <1>4 DEF DrainInv

LEMMA StrandedKept ==
  ASSUME NEW P, Stranded(P),
         \A s \in P : /\ s \notin free' /\ Unused(s)' /\ Referrers(s)' \subseteq Referrers(s)
                      /\ count[s] = 0 => count'[s] = 0
  PROVE  Stranded(P)'
<1>1. \A s \in P : Referrers(s)' \subseteq P
  BY DEF Stranded
<1>2. ASSUME NEW X \in SUBSET P, X # {}
      PROVE  \E x \in X : count'[x] = 0 \/ Referrers(x)' \cap X = {}
  <2>1. PICK x \in X : count[x] = 0 \/ Referrers(x) \cap X = {}
    BY <1>2 DEF Stranded
  <2>2. x \in P /\ Referrers(x)' \subseteq Referrers(x) /\ (count[x] = 0 => count'[x] = 0)
    OBVIOUS
  <2> QED
    BY <2>1, <2>2
<1> QED
  BY <1>1, <1>2 DEF Stranded

\* Thread t goes on to x, the lists get nothing pending.
LEMMA PassesKept ==
  ASSUME NEW P, \A u \in Threads : PassesNone(thread[u], P), thread \in [Threads -> ThreadState],
         NEW t \in Threads, NEW x \in ThreadState, thread' = [thread EXCEPT ![t] = x],
         Lists'[1] \cap P \subseteq Lists[1], PassesNone(x, P)'
  PROVE  \A u \in Threads : PassesNone(thread[u], P)'
<1>1. thread'[t] = x /\ \A u \in Threads : u # t => thread'[u] = thread[u]
  BY ThreadSteps
<1>2. ASSUME NEW u \in Threads, u # t PROVE PassesNone(thread[u], P)'
  <2>1. PassesNone(thread[u], P) /\ thread'[u] = thread[u]
    BY <1>1, <1>2
  <2> QED
    BY <2>1 DEF PassesNone, PushedSlot
<1>3. PassesNone(thread[t], P)'
  BY <1>1 DEF PassesNone, PushedSlot
<1> QED
  BY <1>2, <1>3

\* Where a thread passes nothing by.
LEMMA PassesNothing ==
  ASSUME NEW th, NEW P, th.pc \in Away \cup {"destruct", "bump"} \/ (th.pc = "exchange" /\ th.store = 1),
         nil \notin P
  PROVE  PassesNone(th, P)'
<1>1. th.pc = "exchange" => th.store # 2
  BY DEF Away
<1> QED
  BY <1>1 DEF PassesNone, PushedSlot, Away

LEMMA ListsKept == UNCHANGED lists => Lists' = Lists
BY DEF lists, Lists

LEMMA PushKeepsDues ==
  ASSUME SlotsInv, OneDrain, GoesRound, NEW t \in Threads, Push(t), NEW P, PendingSound(P)
  PROVE  PendingSound(P)' /\ OneDrain' /\ GoesRound'
<1>1. PICK th, q : th = thread[t] /\ q = th.slot
  OBVIOUS
<1>2. th \in ThreadState /\ thread \in [Threads -> ThreadState] /\ th.pc \in {"enqueue", "cas"}
  BY <1>1, PushStep DEF SlotsInv, TypeOK
<1>3. PICK x \in ThreadState :
        /\ thread' = [thread EXCEPT ![t] = x]
        /\ \/ \E h : x = [th EXCEPT !.pc = "cas", !.expect = h] /\ Lists' = Lists
           \/ x = Pushed(th) /\ \A j \in Stores : Lists'[j] \subseteq Lists[j] \cup {q}
  BY <1>1, PushStep
<1>4. UNCHANGED <<columns, refs, d_mutex>>
  BY DEF Push, enqueue_reclaim, compare_exchange
<1>5. (Working(x) <=> Working(th)) /\ x.progressed = th.progressed /\ (HasBatch(x) => HasBatch(th))
      /\ (x.pc = "cas" => x.slot = q /\ x.then = th.then /\ Lists' = Lists)
      /\ (x.pc # "cas" => \A j \in Stores : Lists'[j] \subseteq Lists[j] \cup {q})
      /\ x.pc \in {"cas", "idle", "lock", "bump"}
  BY <1>1, <1>2, <1>3 DEF ThreadState, Pushed, Working, HasBatch
<1>6. OneDrain' /\ GoesRound'
  BY <1>1, <1>2, <1>3, <1>4, <1>5, OneGoesOn DEF GoesRound
<1>7. Stranded(P)'
  BY <1>4 DEF PendingSound, Stranded, columns, refs, Unused, Referrers
<1>8. \A u \in Threads : PassesNone(thread[u], P)'
  <2>1. \A u \in Threads : PassesNone(thread[u], P)
    BY DEF PendingSound
  <2>2. thread'[t] = x /\ \A u \in Threads : u # t => thread'[u] = thread[u]
    BY <1>2, <1>3, ThreadSteps
  <2>3. PassesNone(x, P)'
    <3>1. PassesNone(th, P) /\ PushedSlot(th) = q
      BY <1>1, <1>2, <2>1 DEF PushedSlot
    <3>2. nil \notin P
      BY NilAssumption DEF PendingSound, Stranded
    <3> QED
      BY <1>5, <3>1, <3>2 DEF PassesNone, PushedSlot
  <2>4. CASE Lists'[1] \cap P \subseteq Lists[1]
    BY <1>2, <1>3, <2>1, <2>3, <2>4, PassesKept
  <2>5. CASE ~ (Lists'[1] \cap P \subseteq Lists[1])
    <3>1. q \in P
      <4>1. 1 \in Stores
        BY DEF Stores
      <4> QED
        BY <1>5, <2>5, <4>1
    <3>2. HasBatch(th)
      BY <1>1, <1>2, <2>1, <3>1 DEF PassesNone, PushedSlot, HasBatch
    <3>3. d_mutex = t /\ \A u \in Threads : u # t => ~ Working(thread[u])
      BY <1>1, <3>2 DEF OneDrain, Working
    <3>4. ASSUME NEW u \in Threads, u # t PROVE PassesNone(thread[u], P)'
      <4>1. PassesNone(thread[u], P) /\ thread'[u] = thread[u] /\ thread[u].pc # "exchange"
        BY <2>1, <2>2, <3>3, <3>4 DEF Working
      <4> QED
        BY <4>1 DEF PassesNone, PushedSlot
    <3>5. PassesNone(thread[t], P)'
      BY <2>2, <2>3 DEF PassesNone, PushedSlot
    <3> QED
      BY <3>4, <3>5
  <2> QED
    BY <2>4, <2>5
<1> QED
  BY <1>6, <1>7, <1>8 DEF PendingSound

\* Nothing is pending when the lists have been found empty in one round.
LEMMA NonePassed ==
  ASSUME SlotsInv, OneDrain, NEW t \in Threads, thread[t].pc = "exchange", thread[t].store = 2,
         ~ thread[t].progressed, d_reclaim_head[2] = nil, NEW P, PendingSound(P)
  PROVE  P = {}
<1>1. PICK L, Q, B, D : L = Lists /\ Q = Pushes /\ B = Batches /\ D = Dead
  OBVIOUS
<1>2. Placed(L, Q, B, D) /\ Stranded(P) /\ \A u \in Threads : PassesNone(thread[u], P)
  BY <1>1 DEF SlotsInv, DeadPlaced, PendingSound
<1>3. \A i \in Stores : L[i] \cap P = {}
  <2>1. L[2] = {}
    <3>1. Chain(link, nil) = {}
      BY ChainOfNil
    <3>2. 2 \in Stores
      BY DEF Stores
    <3> QED
      BY <1>1, <3>1, <3>2 DEF Lists
  <2>2. L[1] \cap P = {}
    BY <1>1, <1>2 DEF PassesNone
  <2> QED
    BY <2>1, <2>2 DEF Stores
<1>4. \A u \in Threads : u # t => ~ Working(thread[u])
  BY DEF OneDrain, Working
<1>5. \A u \in Threads : ~ HasBatch(thread[u])
  BY <1>4 DEF Working, HasBatch
<1>6. \A u \in Threads : B[u] = {}
  <2>1. Chain(link, nil) = {}
    BY ChainOfNil
  <2>2. \A u \in Threads : thread[u].batch = nil
    BY <1>5 DEF SlotsInv, ThreadSound
  <2> QED
    BY <1>1, <2>1, <2>2 DEF Batches
<1>7. \A u \in Threads : Q[u] \notin P
  <2> SUFFICES ASSUME NEW u \in Threads, Q[u] \in P PROVE FALSE
    OBVIOUS
  <2>1. Q[u] # nil /\ Q[u] = PushedSlot(thread[u])
    BY <1>1, <1>2, NilAssumption DEF Pushes, Stranded
  <2>2. thread[u].pc \in {"enqueue", "cas"} /\ thread[u].then = "bump"
    BY <1>2, <2>1 DEF PassesNone, PushedSlot
  <2> QED
    BY <1>5, <2>2 DEF HasBatch
<1>8. \A s \in P : s \notin D
  BY <1>2, <1>3, <1>6, <1>7 DEF Placed
<1>9. \A s \in P : count[s] # 0
  BY <1>1, <1>2, <1>8 DEF Stranded, Dead
<1>10. ASSUME P # {} PROVE FALSE
  <2>1. PICK s \in P : count[s] = 0 \/ Referrers(s) \cap P = {}
    BY <1>2, <1>10 DEF Stranded
  <2>2. Referrers(s) = {} /\ s \in Slots /\ s \notin free /\ Unused(s)
    BY <1>2, <1>9, <2>1 DEF Stranded
  <2>3. Holders(s) = {} /\ d_current.slot # s
    BY <2>2 DEF Unused, Holders, HeldSlots
  <2>4. count[s] \in Nat /\ ~ (count[s] > 0)
    BY <2>2, <2>3, CountIsPositive DEF SlotsInv
  <2> QED
    BY <1>9, <2>4
<1> QED
  BY <1>10

LEMMA DetachKeepsDues ==
  ASSUME SlotsInv, OneDrain, GoesRound, NEW t \in Threads, drain_pending(t), NEW P, PendingSound(P)
  PROVE  PendingSound(P)' /\ OneDrain' /\ GoesRound'
<1>1. PICK th, i, h : th = thread[t] /\ i = th.store /\ h = d_reclaim_head[i]
  OBVIOUS
<1>2. /\ th \in ThreadState /\ th \in Rest /\ thread \in [Threads -> ThreadState]
      /\ th.pc = "exchange" /\ i \in Stores
  BY <1>1, SettledNow DEF SlotsInv, TypeOK, drain_pending, Settled, ThreadState
<1>3. PICK x : x = IF h = nil THEN NextStore(th)
                   ELSE [th EXCEPT !.pc = "destruct", !.batch = h, !.progressed = TRUE]
  OBVIOUS
<1>4. /\ thread' = [thread EXCEPT ![t] = x] /\ link' = link
      /\ d_reclaim_head' = [d_reclaim_head EXCEPT ![i] = nil]
      /\ UNCHANGED <<columns, refs, d_mutex>>
  BY <1>1, <1>3 DEF drain_pending
<1>5. x \in ThreadState /\ Working(x) /\ Working(th) /\ (HasBatch(x) => x.progressed)
  <2>1. CASE h = nil
    <3>1. x = NextStore(th) /\ x \in Rest
      BY <1>2, <1>3, <2>1, NextStoreRests
    <3>2. x.pc \in {"exchange", "quiet"}
      BY <1>2, <3>1 DEF NextStore, Draining, ThreadState
    <3> QED
      BY <1>2, <3>1, <3>2, FreshWorks DEF Rest, Working
  <2>2. CASE h # nil
    <3>1. h \in SlotOrNil
      BY <1>1, <1>2 DEF SlotsInv, TypeOK
    <3> QED
      BY <1>2, <1>3, <2>2, <3>1 DEF ThreadState, Working, HasBatch
  <2> QED
    BY <2>1, <2>2
<1>6. OneDrain' /\ GoesRound'
  BY <1>1, <1>2, <1>4, <1>5, OneGoesOn
<1>7. Stranded(P)'
  BY <1>4 DEF PendingSound, Stranded, columns, refs, Unused, Referrers
<1>8. \A j \in Stores : Lists'[j] = IF j = i THEN {} ELSE Lists[j]
  <2>1. Chain(link, nil) = {}
    BY ChainOfNil
  <2>2. \A j \in Stores : d_reclaim_head'[j] = IF j = i THEN nil ELSE d_reclaim_head[j]
    BY <1>2, <1>4 DEF SlotsInv, TypeOK
  <2> QED
    BY <1>4, <2>1, <2>2 DEF Lists
<1>9. Lists'[1] \cap P \subseteq Lists[1]
  BY <1>8 DEF Stores
<1>10. PassesNone(x, P)'
  <2>1. nil \notin P
    BY NilAssumption DEF PendingSound, Stranded
  <2>2. CASE h # nil
    <3>1. x.pc = "destruct"
      BY <1>2, <1>3, <2>2 DEF ThreadState
    <3> QED
      BY <2>1, <3>1, PassesNothing
  <2>3. CASE h = nil /\ i = 1
    <3>1. x.pc = "exchange"
      BY <1>1, <1>2, <1>3, <2>3 DEF NextStore, ThreadState
    <3>2. Lists'[1] = {}
      BY <1>8, <2>3 DEF Stores
    <3> QED
      BY <2>1, <3>1, <3>2 DEF PassesNone, PushedSlot
  <2>4. CASE h = nil /\ i # 1 /\ th.progressed
    <3>1. x.pc = "exchange" /\ x.store = 1
      BY <1>1, <1>2, <1>3, <2>4 DEF NextStore, Draining, ThreadState
    <3> QED
      BY <2>1, <3>1, PassesNothing
  <2>5. CASE h = nil /\ i # 1 /\ ~ th.progressed
    <3>1. x.pc = "quiet"
      BY <1>1, <1>2, <1>3, <2>5 DEF NextStore, ThreadState
    <3>2. i = 2
      BY <1>2, <2>5 DEF Stores
    <3>3. P = {}
      BY <1>1, <1>2, <2>5, <3>2, NonePassed
    <3> QED
      BY <3>1, <3>3 DEF PassesNone, PushedSlot
  <2> QED
    BY <2>2, <2>3, <2>4, <2>5
<1>11. \A u \in Threads : PassesNone(thread[u], P)'
  BY <1>2, <1>4, <1>5, <1>9, <1>10, PassesKept DEF PendingSound
<1> QED
  BY <1>6, <1>7, <1>11 DEF PendingSound

LEMMA DestructKeepsDues ==
  ASSUME SlotsInv, OneDrain, GoesRound, NEW t \in Threads, destruct(t), NEW P, PendingSound(P)
  PROVE  PendingSound(P)' /\ OneDrain' /\ GoesRound'
<1>1. PICK th, s, c : th = thread[t] /\ s = th.batch /\ c = edge[s].slot
  OBVIOUS
<1>2. /\ th \in ThreadState /\ thread \in [Threads -> ThreadState] /\ th.pc = "destruct"
      /\ HasBatch(th) /\ th.progressed
  BY <1>1 DEF SlotsInv, TypeOK, destruct, HasBatch, GoesRound
<1>3. s \in Slots /\ link \in Links /\ nil \notin Slots
  BY <1>1, <1>2, BatchIsDead, NilAssumption DEF Dead, SlotsInv, TypeOK, Links, SlotOrNil
<1>4. PICK y : y = [th EXCEPT !.pc = "bump", !.next = link[s]]
  OBVIOUS
<1>5. PICK x : x = IF c # nil /\ count[c] = 1 THEN Enqueue(y, c, "bump") ELSE y
  OBVIOUS
<1>6. /\ thread' = [thread EXCEPT ![t] = x] /\ edge' = [edge EXCEPT ![s] = NoRef]
      /\ count' = IF c = nil THEN count ELSE [count EXCEPT ![c] = @ - 1]
      /\ UNCHANGED <<free, lists, refs, d_mutex>>
  BY <1>1, <1>4, <1>5 DEF destruct
<1>7. c \in SlotOrNil
  BY <1>1, <1>3 DEF SlotsInv, TypeOK, RefType
<1>8. y \in ThreadState /\ y.pc = "bump" /\ y.progressed
  BY <1>2, <1>3, <1>4 DEF ThreadState, Links, SlotOrNil
<1>9. x \in ThreadState /\ HasBatch(x) /\ x.progressed
      /\ (x.pc = "bump" \/ (x.pc = "enqueue" /\ x.then = "bump"))
  BY <1>5, <1>7, <1>8 DEF ThreadState, Enqueue, HasBatch
<1>10. OneDrain' /\ GoesRound'
  <2>1. Working(x) <=> Working(th)
    BY <1>2, <1>9 DEF Working
  <2> QED
    BY <1>1, <1>2, <1>6, <1>9, <2>1, OneGoesOn
<1>11. Stranded(P)'
  <2>1. d_current' = d_current /\ held' = held /\ free' = free
    BY <1>6 DEF refs
  <2>2. ASSUME NEW z \in P
        PROVE  /\ z \notin free' /\ Unused(z)' /\ Referrers(z)' \subseteq Referrers(z)
               /\ count[z] = 0 => count'[z] = 0
    <3>1. z \in Slots /\ z \notin free /\ Unused(z)
      BY DEF PendingSound, Stranded
    <3>2. Referrers(z)' \subseteq Referrers(z)
      <4>1. \A p \in Slots : edge'[p] = IF p = s THEN NoRef ELSE edge[p]
        BY <1>6 DEF SlotsInv, TypeOK
      <4>2. NoRef.slot # z
        BY <1>3, <3>1 DEF NoRef
      <4> QED
        BY <4>1, <4>2 DEF Referrers
    <3>3. count[z] = 0 => count'[z] = 0
      <4>1. CASE z = c
        <5>1. edge[s] # NoRef
          BY <1>1, <1>3, <3>1, <4>1 DEF NoRef
        <5>2. count[edge[s].slot] > 0
          BY <1>3, <5>1, RefsCount DEF SlotsInv
        <5> QED
          BY <1>1, <4>1, <5>2
      <4>2. CASE z # c
        BY <1>6, <3>1, <4>2 DEF SlotsInv, TypeOK
      <4> QED
        BY <4>1, <4>2
    <3> QED
      BY <2>1, <3>1, <3>2, <3>3 DEF Unused
  <2> QED
    BY <2>2, StrandedKept DEF PendingSound
<1>12. \A u \in Threads : PassesNone(thread[u], P)'
  <2>1. PassesNone(x, P)'
    <3>1. x.pc = "bump" \/ (x.pc = "enqueue" /\ x.then = "bump")
      BY <1>9
    <3>2. nil \notin P
      BY <1>3 DEF PendingSound, Stranded
    <3> QED
      BY <3>1, <3>2 DEF PassesNone, PushedSlot
  <2>2. Lists'[1] \cap P \subseteq Lists[1]
    BY <1>6, ListsKept
  <2> QED
    BY <1>2, <1>6, <1>9, <2>1, <2>2, PassesKept DEF PendingSound
<1> QED
  BY <1>10, <1>11, <1>12 DEF PendingSound

\* The slot that is bumped is pending no longer.
LEMMA BumpKeepsDues ==
  ASSUME SlotsInv, OneDrain, GoesRound, NEW t \in Threads, thread[t].pc = "bump", reclaim(t),
         NEW P, PendingSound(P), NEW P2, P2 = P \ {thread[t].batch}
  PROVE  PendingSound(P2)' /\ OneDrain' /\ GoesRound'
<1>1. PICK th, b : th = thread[t] /\ b = th.batch
  OBVIOUS
<1>2. /\ th \in ThreadState /\ thread \in [Threads -> ThreadState] /\ th.pc = "bump"
      /\ HasBatch(th) /\ th.progressed /\ P2 = P \ {b}
  BY <1>1 DEF SlotsInv, TypeOK, HasBatch, GoesRound
<1>3. PICK x : x = [th EXCEPT !.pc = "release"]
  OBVIOUS
<1>4. thread' = [thread EXCEPT ![t] = x] /\ UNCHANGED <<free, count, edge, lists, refs, d_mutex>>
  BY <1>1, <1>2, <1>3 DEF reclaim
<1>5. x \in ThreadState /\ x.pc = "release" /\ x.batch = b /\ x.progressed
  BY <1>1, <1>2, <1>3 DEF ThreadState
<1>6. OneDrain' /\ GoesRound'
  <2>1. (Working(x) <=> Working(th)) /\ HasBatch(x)
    BY <1>2, <1>5 DEF Working, HasBatch
  <2> QED
    BY <1>1, <1>2, <1>4, <1>5, <2>1, OneGoesOn
<1>7. Stranded(P2)
  <2>1. b \in Slots /\ edge[b].slot = nil /\ nil \notin Slots
    BY <1>1, <1>2, NilAssumption DEF SlotsInv, EdgesCut, ThreadSound, NoRef
  <2>2. ASSUME NEW s \in P2
        PROVE  s \notin free /\ Unused(s) /\ Referrers(s) \subseteq P2
    <3>1. s \in P /\ s \in Slots /\ s \notin free /\ Unused(s) /\ Referrers(s) \subseteq P
      BY <1>2 DEF PendingSound, Stranded
    <3>2. b \notin Referrers(s)
      BY <2>1, <3>1 DEF Referrers
    <3> QED
      BY <1>2, <3>1, <3>2
  <2>3. P2 \subseteq Slots /\ SUBSET P2 \subseteq SUBSET P
    BY <1>2 DEF PendingSound, Stranded
  <2> QED
    BY <2>2, <2>3 DEF PendingSound, Stranded
<1>8. Stranded(P2)'
  BY <1>4, <1>7 DEF Stranded, refs, Unused, Referrers
<1>9. \A u \in Threads : PassesNone(thread[u], P2)
  BY <1>2 DEF PendingSound, PassesNone
<1>10. \A u \in Threads : PassesNone(thread[u], P2)'
  <2>1. PassesNone(x, P2)'
    <3>1. nil \notin P2 /\ b \notin P2
      BY <1>2, <1>7, NilAssumption DEF Stranded
    <3> QED
      BY <1>5, <3>1 DEF PassesNone, PushedSlot
  <2>2. Lists'[1] \cap P2 \subseteq Lists[1]
    BY <1>4, ListsKept
  <2> QED
    BY <1>2, <1>4, <1>5, <1>9, <2>1, <2>2, PassesKept
<1> QED
  BY <1>6, <1>8, <1>10 DEF PendingSound

LEMMA FreeKeepsDues ==
  ASSUME SlotsInv, OneDrain, GoesRound, NEW t \in Threads, thread[t].pc = "release", reclaim(t),
         NEW P, PendingSound(P)
  PROVE  PendingSound(P)' /\ OneDrain' /\ GoesRound'
<1>1. PICK th, b : th = thread[t] /\ b = th.batch
  OBVIOUS
<1>2. /\ th \in ThreadState /\ thread \in [Threads -> ThreadState] /\ th.pc = "release"
      /\ HasBatch(th) /\ th.progressed
  BY <1>1 DEF SlotsInv, TypeOK, HasBatch, GoesRound
<1>3. PICK x : x = NextSlot(th)
  OBVIOUS
<1>4. /\ thread' = [thread EXCEPT ![t] = x] /\ free' = free \cup {b}
      /\ UNCHANGED <<count, edge, lists, refs, d_mutex>>
  BY <1>1, <1>2, <1>3 DEF reclaim
<1>5. /\ x \in ThreadState
      /\ \/ x.pc = "destruct" /\ x.progressed
         \/ x.pc = "exchange" /\ (x.store = 1 \/ x.progressed)
  <2>1. CASE th.next = nil
    <3>1. PICK y : y = [th EXCEPT !.batch = nil]
      OBVIOUS
    <3>2. y \in ThreadState /\ y.progressed
      BY <1>2, <3>1 DEF ThreadState, SlotOrNil
    <3>3. x = NextStore(y)
      BY <1>3, <2>1, <3>1 DEF NextSlot
    <3>4. 1 \in Stores /\ 2 \in Stores
      BY DEF Stores
    <3> QED
      BY <3>2, <3>3, <3>4 DEF NextStore, Draining, ThreadState
  <2>2. CASE th.next # nil
    <3>1. x = [th EXCEPT !.pc = "destruct", !.batch = th.next, !.next = nil]
      BY <1>3, <2>2 DEF NextSlot
    <3> QED
      BY <1>2, <3>1 DEF ThreadState, SlotOrNil
  <2> QED
    BY <2>1, <2>2
<1>6. OneDrain' /\ GoesRound'
  <2>1. Working(x) /\ Working(th) /\ (HasBatch(x) => x.progressed)
    BY <1>2, <1>5 DEF Working, HasBatch
  <2> QED
    BY <1>1, <1>2, <1>4, <1>5, <2>1, OneGoesOn
<1>7. b \notin P /\ nil \notin P
  BY <1>1, <1>2, NilAssumption DEF PendingSound, PassesNone, Stranded
<1>8. Stranded(P)'
  BY <1>4, <1>7 DEF PendingSound, Stranded, refs, Unused, Referrers
<1>9. PassesNone(x, P)'
  BY <1>5, <1>7 DEF PassesNone, PushedSlot
<1>10. \A u \in Threads : PassesNone(thread[u], P)'
  <2>1. Lists'[1] \cap P \subseteq Lists[1]
    BY <1>4, ListsKept
  <2> QED
    BY <1>2, <1>4, <1>5, <1>9, <2>1, PassesKept DEF PendingSound
<1> QED
  BY <1>6, <1>8, <1>10 DEF PendingSound

\* References to slots that are not pending come and go.
LEMMA PinKeepsDues ==
  ASSUME SlotsInv, NEW t \in Clients, NEW P, PendingSound(P),
         pin(t) \/ \E r \in held[t] : resolve(t, r)
  PROVE  PendingSound(P)'
<1>1. PICK c : /\ c = d_current \/ \E r \in held[t] : c = edge[r.slot]
               /\ count' = [count EXCEPT ![c.slot] = @ + 1]
               /\ held' = [held EXCEPT ![t] = @ \cup {c}]
               /\ UNCHANGED <<edge, free, lists, d_current, thread>>
  BY DEF pin, resolve
<1>2. c.slot \notin P
  <2>1. CASE c = d_current
    BY <2>1 DEF PendingSound, Stranded, Unused
  <2>2. CASE \E r \in held[t] : c = edge[r.slot]
    <3>1. PICK r \in held[t] : c = edge[r.slot]
      BY <2>2
    <3>2. r.slot \in Slots /\ r.slot \notin P
      BY DEF SlotsInv, RefsFound, Live, PendingSound, Stranded, Unused
    <3>3. r.slot \in Referrers(c.slot)
      BY <3>1, <3>2 DEF Referrers
    <3> QED
      BY <3>2, <3>3 DEF PendingSound, Stranded
  <2> QED
    BY <1>1, <2>1, <2>2
<1>3. ASSUME NEW s \in P
      PROVE  /\ s \notin free' /\ Unused(s)' /\ Referrers(s)' \subseteq Referrers(s)
             /\ count[s] = 0 => count'[s] = 0
  <2>1. s \in Slots /\ s \notin free /\ Unused(s) /\ s # c.slot
    BY <1>2 DEF PendingSound, Stranded
  <2>2. \A u \in Clients : \A r \in held'[u] : r \in held[u] \/ r = c
    BY <1>1 DEF SlotsInv, TypeOK
  <2>3. Unused(s)'
    BY <1>1, <2>1, <2>2 DEF Unused
  <2>4. count'[s] = count[s]
    BY <1>1, <2>1 DEF SlotsInv, TypeOK
  <2> QED
    BY <1>1, <2>1, <2>3, <2>4 DEF Referrers
<1>4. Stranded(P)'
  BY <1>3, StrandedKept DEF PendingSound
<1>5. \A u \in Threads : PassesNone(thread[u], P)'
  <2>1. Lists' = Lists
    BY <1>1, ListsKept
  <2> QED
    BY <1>1, <2>1 DEF PendingSound, PassesNone, PushedSlot
<1> QED
  BY <1>4, <1>5 DEF PendingSound

LEMMA CreateKeepsDues ==
  ASSUME SlotsInv, NEW s \in Slots, NEW child \in held[Writer] \cup {NoRef}, create(s, child),
         NEW P, PendingSound(P)
  PROVE  PendingSound(P)'
<1>1. /\ s \in free /\ free' = free \ {s} /\ edge' = [edge EXCEPT ![s] = child]
      /\ held' = [held EXCEPT ![Writer] = @ \cup {Ref(s)}]
      /\ count' = [x \in Slots |-> IF x = s THEN 1 ELSE IF x = child.slot THEN count[x] + 1 ELSE count[x]]
      /\ UNCHANGED <<lists, d_current, thread>>
  BY DEF create
<1>2. s \notin P /\ child.slot \notin P /\ nil \notin P /\ Writer \in Clients
  BY <1>1, ThreadsAndStores, NilAssumption DEF PendingSound, Stranded, Unused, NoRef
<1>3. ASSUME NEW z \in P
      PROVE  /\ z \notin free' /\ Unused(z)' /\ Referrers(z)' \subseteq Referrers(z)
             /\ count[z] = 0 => count'[z] = 0
  <2>1. z \in Slots /\ z \notin free /\ Unused(z) /\ z # s /\ z # child.slot
    BY <1>2 DEF PendingSound, Stranded
  <2>2. \A u \in Clients : \A r \in held'[u] : r \in held[u] \/ r.slot = s
    BY <1>1 DEF SlotsInv, TypeOK, Ref
  <2>3. Unused(z)'
    BY <1>1, <2>1, <2>2 DEF Unused
  <2>4. count'[z] = count[z]
    BY <1>1, <2>1
  <2>5. Referrers(z)' \subseteq Referrers(z)
    <3>1. \A p \in Slots : edge'[p] = IF p = s THEN child ELSE edge[p]
      BY <1>1 DEF SlotsInv, TypeOK
    <3> QED
      BY <2>1, <3>1 DEF Referrers
  <2> QED
    BY <1>1, <2>1, <2>3, <2>4, <2>5
<1>4. Stranded(P)'
  BY <1>3, StrandedKept DEF PendingSound
<1>5. \A u \in Threads : PassesNone(thread[u], P)'
  <2>1. Lists' = Lists
    BY <1>1, ListsKept
  <2> QED
    BY <1>1, <2>1 DEF PendingSound, PassesNone, PushedSlot
<1> QED
  BY <1>4, <1>5 DEF PendingSound

\* A client drops a reference, which it held or which the root was.
LEMMA DropKeepsDues ==
  ASSUME SlotsInv, OneDrain, GoesRound, NEW t \in Clients, NEW r \in held[t],
         reset(t, r) \/ (t = Writer /\ publish(r)), NEW P, PendingSound(P)
  PROVE  PendingSound(P)' /\ OneDrain' /\ GoesRound'
<1>1. PICK th : th = thread[t]
  OBVIOUS
<1>2. /\ t \in Threads /\ th \in ThreadState /\ thread \in [Threads -> ThreadState]
      /\ th.pc = "idle" /\ nil \notin P
  BY <1>1, ThreadsAndStores, NilAssumption
     DEF SlotsInv, TypeOK, reset, publish, PendingSound, Stranded
<1>3. PICK o, then, x :
        /\ o = r.slot \/ (o = d_current.slot /\ d_current # NoRef)
        /\ then \in {"idle", "lock"}
        /\ x \in {Enqueue(th, o, then), [th EXCEPT !.pc = then]}
        /\ thread' = [thread EXCEPT ![t] = x]
        /\ count' = count \/ count' = [count EXCEPT ![o] = @ - 1]
  BY <1>1 DEF reset, publish, release_index
<1>4. /\ held' = [held EXCEPT ![t] = @ \ {r}] /\ (d_current' = d_current \/ d_current' = r)
      /\ UNCHANGED <<edge, free, lists, d_mutex>>
  BY DEF reset, publish
<1>5. r.slot \notin P /\ o \notin P /\ o \in Slots
  BY <1>3 DEF PendingSound, Stranded, Unused, SlotsInv, RefsFound, Live
<1>6. x \in ThreadState
  <2>1. CASE x = [th EXCEPT !.pc = then]
    BY <1>2, <1>3, <2>1 DEF ThreadState
  <2>2. CASE x = [th EXCEPT !.pc = "enqueue", !.slot = o, !.then = then]
    BY <1>2, <1>3, <1>5, <2>2 DEF ThreadState, SlotOrNil
  <2> QED
    BY <1>3, <2>1, <2>2 DEF Enqueue
<1>7. \/ x.pc \in {"idle", "lock"}
      \/ x.pc = "enqueue" /\ x.slot = o /\ x.then \in {"idle", "lock"}
  BY <1>2, <1>3 DEF ThreadState, Enqueue
<1>8. OneDrain' /\ GoesRound'
  <2>1. ~ Working(x) /\ ~ Working(th) /\ ~ HasBatch(x)
    BY <1>2, <1>7 DEF Working, HasBatch
  <2> QED
    BY <1>1, <1>2, <1>3, <1>4, <1>6, <2>1, OneGoesOn
<1>9. ASSUME NEW s \in P
      PROVE  /\ s \notin free' /\ Unused(s)' /\ Referrers(s)' \subseteq Referrers(s)
             /\ count[s] = 0 => count'[s] = 0
  <2>1. s \in Slots /\ s \notin free /\ Unused(s) /\ s # o /\ s # r.slot
    BY <1>5 DEF PendingSound, Stranded
  <2>2. \A u \in Clients : held'[u] \subseteq held[u]
    BY <1>4 DEF SlotsInv, TypeOK
  <2>3. Unused(s)'
    BY <1>4, <2>1, <2>2 DEF Unused
  <2>4. count'[s] = count[s]
    BY <1>3, <2>1 DEF SlotsInv, TypeOK
  <2> QED
    BY <1>4, <2>1, <2>3, <2>4 DEF Referrers
<1>10. Stranded(P)'
  BY <1>9, StrandedKept DEF PendingSound
<1>11. PassesNone(x, P)'
  BY <1>2, <1>5, <1>7 DEF PassesNone, PushedSlot
<1>12. \A u \in Threads : PassesNone(thread[u], P)'
  <2>1. Lists'[1] \cap P \subseteq Lists[1]
    BY <1>4, ListsKept
  <2> QED
    BY <1>2, <1>3, <1>6, <1>11, <2>1, PassesKept DEF PendingSound
<1> QED
  BY <1>8, <1>10, <1>12 DEF PendingSound

LEMMA NoSlotMovesKeepsDues ==
  ASSUME SlotsInv, NoSlotMoves, NEW P, PendingSound(P)
  PROVE  PendingSound(P)'
<1>1. UNCHANGED <<columns, lists, refs>>
  BY DEF NoSlotMoves, run, period, tick, exit, poke, request_stop, lock, unlock,
         drain_and_quiesce, flush, flush_wakes
<1>2. Stranded(P)'
  BY <1>1 DEF PendingSound, Stranded, columns, refs, Unused, Referrers
<1>3. ASSUME NEW u \in Threads PROVE PassesNone(thread[u], P)'
  <2>1. thread'[u] = thread[u] \/ thread'[u] \in Fresh
    BY NoSlotMovesRests DEF Undisturbed
  <2>2. Lists' = Lists
    BY <1>1, ListsKept
  <2>3. CASE thread'[u] = thread[u]
    BY <2>2, <2>3 DEF PendingSound, PassesNone, PushedSlot
  <2>4. CASE thread'[u] \in Fresh
    <3>1. PICK x : x = thread'[u]
      OBVIOUS
    <3>2. nil \notin P
      BY NilAssumption DEF PendingSound, Stranded
    <3>3. PassesNone(x, P)'
      BY <2>4, <3>1, <3>2, PassesNothing DEF Fresh
    <3> QED
      BY <3>1, <3>3 DEF PassesNone, PushedSlot
  <2> QED
    BY <2>1, <2>3, <2>4
<1> QED
  BY <1>2, <1>3 DEF PendingSound

(***************************************************************************)
(* What is doomed when a client calls flush.                               *)
(***************************************************************************)
FallsClosed(S) == Listed \subseteq S /\ \A x \in Slots : Falls(x, S) => x \in S

LEMMA UnusedIsNotInUse ==
  ASSUME NEW s
  PROVE  s \in InUse <=> ~ Unused(s)
<1>1. s \in UNION {HeldSlots(t) : t \in Clients} <=> \E t \in Clients : s \in HeldSlots(t)
  BY Zenon
<1>2. \A t \in Clients : s \in HeldSlots(t) <=> \E r \in held[t] : r.slot = s
  BY DEF HeldSlots
<1> QED
  BY <1>1, <1>2 DEF InUse, Unused

LEMMA ListedIsDead ==
  ASSUME SlotsInv
  PROVE  /\ Listed \subseteq Dead /\ Listed \subseteq Slots
         /\ \A i \in Stores : Lists[i] \subseteq Listed
<1>1. \A s : s \in Listed <=> \E i \in Stores : s \in Lists[i]
  <2>1. \A s : s \in Listed <=> \E i \in Stores : s \in Chain(link, d_reclaim_head[i])
    BY Zenon DEF Listed
  <2> QED
    BY <2>1 DEF Lists
<1>2. \A i \in Stores : Lists[i] \subseteq Dead
  BY DEF SlotsInv, DeadPlaced, Placed
<1> QED
  BY <1>1, <1>2, DeadIsNotNil

LEMMA DeadIsLone ==
  ASSUME SlotsInv, NEW s \in Dead
  PROVE  Unused(s) /\ Referrers(s) = {}
<1>1. s \in Slots /\ s \notin free /\ count[s] = 0
  BY DEF Dead
<1>2. Holders(s) = {} /\ Referrers(s) = {} /\ d_current.slot # s
  BY <1>1, CountIsPositive DEF SlotsInv
<1> QED
  BY <1>2 DEF Unused, Holders, HeldSlots

LEMMA DoomedIsLeast ==
  /\ Doomed \subseteq Slots
  /\ \A S \in SUBSET Slots : FallsClosed(S) => Doomed \subseteq S
BY DEF Doomed, FallsClosed

LEMMA DoomedIsClosed ==
  ASSUME SlotsInv
  PROVE  FallsClosed(Doomed)
<1>1. Listed \subseteq Doomed
  BY ListedIsDead DEF Doomed
<1>2. ASSUME NEW x \in Slots, Falls(x, Doomed) PROVE x \in Doomed
  <2>1. ASSUME NEW S \in SUBSET Slots, FallsClosed(S) PROVE x \in S
    <3>1. Falls(x, S)
      BY <1>2, <2>1, DoomedIsLeast DEF Falls
    <3> QED
      BY <2>1, <3>1 DEF FallsClosed
  <2> QED
    BY <2>1 DEF Doomed, FallsClosed
<1> QED
  BY <1>1, <1>2 DEF FallsClosed

LEMMA DoomedIsStranded ==
  ASSUME SlotsInv
  PROVE  /\ Stranded(Doomed)
         /\ \A s \in Doomed : s \in Listed \/ Referrers(s) # {}
<1>1. PICK P : P = Doomed
  OBVIOUS
<1>2. /\ P \subseteq Slots /\ FallsClosed(P)
      /\ \A S \in SUBSET Slots : FallsClosed(S) => P \subseteq S
  BY <1>1, DoomedIsLeast, DoomedIsClosed
<1>3. Listed \subseteq P /\ \A x \in Slots : Falls(x, P) => x \in P
  BY <1>2 DEF FallsClosed
<1>4. \A s \in P : s \in Listed \/ (Unused(s) /\ Referrers(s) # {})
  <2>1. PICK S : S = {s \in Slots : s \in Listed \/ (Unused(s) /\ Referrers(s) # {})}
    OBVIOUS
  <2>2. \A x \in Slots : Falls(x, S) => x \in S
    BY <2>1, UnusedIsNotInUse DEF Falls
  <2>3. Listed \subseteq S
    BY <2>1, ListedIsDead
  <2>4. FallsClosed(S) /\ S \in SUBSET Slots
    BY <2>1, <2>2, <2>3 DEF FallsClosed
  <2> QED
    BY <1>2, <2>1, <2>4
<1>5. ASSUME NEW s \in P PROVE s \notin free /\ Unused(s)
  <2>1. CASE s \in Listed
    BY <2>1, ListedIsDead, DeadIsLone DEF Dead
  <2>2. CASE s \notin Listed
    <3>1. Unused(s) /\ s \in Slots
      BY <1>2, <1>4, <2>2
    <3>2. PICK p \in Referrers(s) : TRUE
      BY <1>4, <2>2
    <3>3. p \in Slots /\ edge[p].slot = s
      BY <3>2 DEF Referrers
    <3>4. edge[p] # NoRef
      BY <3>1, <3>3, NilAssumption DEF NoRef
    <3> QED
      BY <3>1, <3>3, <3>4 DEF SlotsInv, RefsFound, Live
  <2> QED
    BY <2>1, <2>2
<1>6. \A s \in P : Referrers(s) \subseteq P
  <2>1. PICK S : S = {s \in P : Referrers(s) \subseteq P}
    OBVIOUS
  <2>2. Listed \subseteq S
    BY <1>3, <2>1, ListedIsDead, DeadIsLone
  <2>3. ASSUME NEW x \in Slots, Falls(x, S) PROVE x \in S
    <3>1. Referrers(x) \subseteq P /\ Falls(x, P)
      BY <2>1, <2>3 DEF Falls
    <3> QED
      BY <1>3, <2>1, <3>1
  <2>4. FallsClosed(S) /\ S \in SUBSET Slots
    BY <1>2, <2>1, <2>2, <2>3 DEF FallsClosed
  <2> QED
    BY <1>2, <2>1, <2>4
<1>7. ASSUME NEW X \in SUBSET P, X # {}
      PROVE  \E x \in X : count[x] = 0 \/ Referrers(x) \cap X = {}
  <2> SUFFICES ASSUME \A x \in X : count[x] # 0 /\ Referrers(x) \cap X # {} PROVE FALSE
    OBVIOUS
  <2>1. PICK S : S = P \ X
    OBVIOUS
  <2>2. Listed \subseteq S
    BY <1>3, <2>1, ListedIsDead DEF Dead
  <2>3. ASSUME NEW x \in Slots, Falls(x, S) PROVE x \in S
    <3>1. Referrers(x) \subseteq S /\ Falls(x, P)
      BY <2>1, <2>3 DEF Falls
    <3>2. x \in P /\ Referrers(x) \cap X = {}
      BY <1>3, <2>1, <3>1
    <3> QED
      BY <2>1, <3>2
  <2>4. FallsClosed(S) /\ S \in SUBSET Slots
    BY <1>2, <2>1, <2>2, <2>3 DEF FallsClosed
  <2> QED
    BY <1>2, <1>7, <2>1, <2>4
<1>8. Stranded(P)
  BY <1>2, <1>5, <1>6, <1>7 DEF Stranded
<1> QED
  BY <1>1, <1>4, <1>8

LEMMA DoomedIsPending ==
  ASSUME SlotsInv, OneDrain, d_mutex = nil
  PROVE  PendingSound(Doomed)
<1>1. PICK P : P = Doomed
  OBVIOUS
<1>2. Stranded(P) /\ \A s \in P : s \in Listed \/ Referrers(s) # {}
  BY <1>1, DoomedIsStranded
<1>3. ASSUME NEW u \in Threads PROVE PassesNone(thread[u], P)
  <2>1. ~ Working(thread[u])
    BY ThreadsAndStores DEF OneDrain
  <2>2. PICK Q, L : Q = Pushes /\ L = Lists
    OBVIOUS
  <2>3. PushedSlot(thread[u]) \notin P
    <3> SUFFICES ASSUME Q[u] \in P PROVE FALSE
      BY <2>2 DEF Pushes
    <3>1. Placed(L, Q, Batches, Dead)
      BY <2>2 DEF SlotsInv, DeadPlaced
    <3>2. Q[u] # nil
      BY <1>2, NilAssumption DEF Stranded
    <3>3. Q[u] \in Dead /\ \A i \in Stores : Q[u] \notin L[i]
      BY <3>1, <3>2 DEF Placed
    <3>4. Referrers(Q[u]) = {}
      BY <3>3, DeadIsLone
    <3>5. Q[u] \notin Listed
      <4>1. \A s : s \in Listed => \E i \in Stores : s \in Chain(link, d_reclaim_head[i])
        BY Zenon DEF Listed
      <4>2. \A s : s \in Listed => \E i \in Stores : s \in L[i]
        BY <2>2, <4>1 DEF Lists
      <4> QED
        BY <3>3, <4>2
    <3> QED
      BY <1>2, <3>4, <3>5
  <2> QED
    BY <2>1, <2>3 DEF PassesNone, Working, HasBatch
<1> QED
  BY <1>1, <1>2, <1>3 DEF PendingSound

(***************************************************************************)
(* Every step keeps the invariant.                                         *)
(***************************************************************************)
LEMMA TicksKept ==
  ASSUME TypeOK, NEW t \in Threads,
         \/ Push(t) \/ drain_pending(t) \/ destruct(t) \/ reclaim(t)
         \/ \E r : reset(t, r) \/ (t = Writer /\ publish(r))
  PROVE  \A c \in Threads : thread'[c].ticked = thread[c].ticked
<1>1. PICK th : th = thread[t]
  OBVIOUS
<1>2. th \in ThreadState /\ thread \in [Threads -> ThreadState]
  BY <1>1 DEF TypeOK
<1>3. \A y \in ThreadState : NextStore(y).ticked = y.ticked
  BY DEF NextStore, Draining, ThreadState
<1>4. NextSlot(th).ticked = th.ticked
  <2>1. PICK y : y = [th EXCEPT !.batch = nil]
    OBVIOUS
  <2>2. y \in ThreadState /\ y.ticked = th.ticked
    BY <1>2, <2>1 DEF ThreadState, SlotOrNil
  <2>3. NextStore(y).ticked = th.ticked
    BY <1>3, <2>2
  <2> QED
    BY <1>2, <2>1, <2>3 DEF NextSlot, ThreadState
<1>5. \A s, then : Enqueue(th, s, then).ticked = th.ticked
  BY <1>2 DEF Enqueue, ThreadState
<1>6. ASSUME NEW x, thread' = [thread EXCEPT ![t] = x], x.ticked = th.ticked
      PROVE  \A c \in Threads : thread'[c].ticked = thread[c].ticked
  BY <1>1, <1>2, <1>6
<1>7. CASE enqueue_reclaim(t)
  <2>1. PICK h : thread' = [thread EXCEPT ![t] = [th EXCEPT !.pc = "cas", !.expect = h]]
    BY <1>1, <1>2, <1>7 DEF enqueue_reclaim
  <2>2. [th EXCEPT !.pc = "cas", !.expect = h].ticked = th.ticked
    BY <1>2 DEF ThreadState
  <2> QED
    BY <1>6, <2>1, <2>2
<1>8. CASE compare_exchange(t)
  <2>1. PICK x : /\ thread' = [thread EXCEPT ![t] = x]
                 /\ x = Pushed(th) \/ \E h : x = [th EXCEPT !.expect = h]
    BY <1>1, <1>8 DEF compare_exchange
  <2>2. x.ticked = th.ticked
    BY <1>2, <2>1 DEF ThreadState, Pushed
  <2> QED
    BY <1>6, <2>1, <2>2
<1>9. CASE drain_pending(t)
  <2>1. PICK x : /\ thread' = [thread EXCEPT ![t] = x]
                 /\ \/ x = NextStore(th)
                    \/ \E h : x = [th EXCEPT !.pc = "destruct", !.batch = h, !.progressed = TRUE]
    BY <1>1, <1>9 DEF drain_pending
  <2>2. x.ticked = th.ticked
    BY <1>2, <1>3, <2>1 DEF ThreadState
  <2> QED
    BY <1>6, <2>1, <2>2
<1>10. CASE destruct(t)
  <2>1. PICK y, x : /\ thread' = [thread EXCEPT ![t] = x]
                    /\ \E n : y = [th EXCEPT !.pc = "bump", !.next = n]
                    /\ x = y \/ \E s : x = Enqueue(y, s, "bump")
    BY <1>1, <1>10 DEF destruct
  <2>2. x.ticked = th.ticked
    BY <1>2, <2>1 DEF ThreadState, Enqueue
  <2> QED
    BY <1>6, <2>1, <2>2
<1>11. CASE reclaim(t)
  <2>1. PICK x : /\ thread' = [thread EXCEPT ![t] = x]
                 /\ x = NextSlot(th) \/ x = [th EXCEPT !.pc = "release"]
    BY <1>1, <1>11 DEF reclaim
  <2>2. x.ticked = th.ticked
    BY <1>2, <1>4, <2>1 DEF ThreadState
  <2> QED
    BY <1>6, <2>1, <2>2
<1>12. CASE \E r : reset(t, r) \/ (t = Writer /\ publish(r))
  <2>1. PICK x : /\ thread' = [thread EXCEPT ![t] = x]
                 /\ \E then : x = [th EXCEPT !.pc = then] \/ \E s : x = Enqueue(th, s, then)
    BY <1>1, <1>12 DEF reset, publish, release_index
  <2>2. x.ticked = th.ticked
    BY <1>2, <1>5, <2>1 DEF ThreadState
  <2> QED
    BY <1>6, <2>1, <2>2
<1> QED
  BY <1>7, <1>8, <1>9, <1>10, <1>11, <1>12 DEF Push

LEMMA DueKept ==
  ASSUME NEW t \in Clients, DueSound(t), due'[t] = due[t], generation' = generation,
         NEW P, P = Pending(t), PendingSound(P)',
         thread'[t].ticked => thread[t].ticked \/ P = {}
  PROVE  DueSound(t)'
<1>1. P = Pending(t)'
  BY DEF Pending, Ref
<1>2. PendingSound(Pending(t))'
  BY <1>1
<1> QED
  BY <1>1, <1>2 DEF DueSound

\* The slot b is bumped.
LEMMA DueBumped ==
  ASSUME SlotsInv, NEW t \in Clients, DueSound(t), due' = due, NEW b \in Slots,
         generation' = [generation EXCEPT ![b] = @ + 1],
         NEW P, P = Pending(t) \ {b}, PendingSound(P)', thread'[t].ticked = thread[t].ticked
  PROVE  DueSound(t)'
<1>1. \A s \in Slots : /\ generation[s] \in Nat
                       /\ generation'[s] = IF s = b THEN generation[s] + 1 ELSE generation[s]
  BY DEF SlotsInv, TypeOK
<1>2. \A r \in due[t] : r.slot \in Slots /\ r.gen \in Nat /\ r.gen <= generation[r.slot]
  BY DEF DueSound, SlotsInv, TypeOK, RefType
<1>3. P = Pending(t)'
  <2>1. \A s \in Slots : s # b => Ref(s)' = Ref(s)
    BY <1>1 DEF Ref
  <2>2. Ref(b)' \notin due[t]
    <3>1. Ref(b)'.slot = b /\ Ref(b)'.gen = generation[b] + 1
      BY <1>1 DEF Ref
    <3> QED
      BY <1>1, <1>2, <3>1
  <2> QED
    BY <2>1, <2>2 DEF Pending
<1>4. \A r \in due'[t] : r.slot \in Slots /\ r.gen <= generation'[r.slot]
  BY <1>1, <1>2
<1>5. thread'[t].ticked => P = {}
  BY DEF DueSound
<1> QED
  BY <1>3, <1>4, <1>5 DEF DueSound

\* All that was doomed is due.
LEMMA DueFromNow ==
  ASSUME SlotsInv, NEW t \in Clients, UNCHANGED generation,
         NEW P, P \subseteq Slots, due'[t] = {Ref(s) : s \in P}, PendingSound(P)', ~ thread'[t].ticked
  PROVE  DueSound(t)'
<1>1. \A s : Ref(s)' = Ref(s) /\ Ref(s).slot = s /\ Ref(s).gen = generation[s]
  BY DEF Ref
<1>2. \A s \in Slots : generation[s] \in Nat
  BY DEF SlotsInv, TypeOK
<1>3. P = Pending(t)'
  BY <1>1 DEF Pending
<1>4. \A r \in due'[t] : r.slot \in Slots /\ r.gen <= generation'[r.slot]
  BY <1>1, <1>2
<1> QED
  BY <1>3, <1>4 DEF DueSound

LEMMA NoSlotMovesDues ==
  ASSUME DrainInv, NoSlotMoves, NEW c \in Clients
  PROVE  DueSound(c)'
<1>1. SlotsInv /\ OneDrain /\ GoesRound /\ DueSound(c)
  BY DEF DrainInv
<1>2. UNCHANGED generation
  BY DEF NoSlotMoves, run, period, tick, exit, poke, request_stop, lock, unlock,
         drain_and_quiesce, flush, flush_wakes, columns
<1>3. PICK P : P = Pending(c)
  OBVIOUS
<1>4. PendingSound(P)
  BY <1>1, <1>3 DEF DueSound
<1>5. PendingSound(P)'
  BY <1>1, <1>4, NoSlotMovesKeepsDues
<1>6. thread'[c].ticked => thread[c].ticked \/ P = {}
  <2>1. thread'[c].ticked => thread[c].ticked \/ thread[Keeper].pc = "quiet"
    BY <1>1, NoSlotMovesDrains
  <2>2. thread[Keeper].pc = "quiet" => P = {}
    BY <1>4, ThreadsAndStores DEF PendingSound, PassesNone
  <2> QED
    BY <2>1, <2>2
<1>7. CASE due'[c] = due[c]
  BY <1>1, <1>2, <1>3, <1>5, <1>6, <1>7, DueKept
<1>8. CASE flush(c)
  <2>1. c \in Threads /\ c # Keeper /\ Settled(thread) /\ thread[c].pc = "idle"
    BY <1>8, <1>1, ThreadsAndStores, SettledNow DEF flush
  <2>2. CASE d_stop
    <3>1. due'[c] = {}
      BY <1>1, <1>8, <2>2 DEF flush, SlotsInv, TypeOK
    <3>2. PendingSound({})' /\ Pending(c)' = {}
      BY <3>1, NonePending, <1>1, NoSlotMovesKeepsDues DEF Pending
    <3> QED
      BY <3>1, <3>2 DEF DueSound
  <2>3. CASE ~ d_stop
    <3>1. PICK D : D = Doomed
      OBVIOUS
    <3>2. PendingSound(D) /\ D \subseteq Slots
      BY <1>1, <1>8, <3>1, DoomedIsPending, DoomedIsLeast DEF flush
    <3>3. PendingSound(D)'
      BY <1>1, <3>2, NoSlotMovesKeepsDues
    <3>4. due'[c] = {Ref(s) : s \in D}
      BY <1>1, <1>8, <2>3, <3>1 DEF flush, SlotsInv, TypeOK
    <3>5. ~ thread'[c].ticked
      <4>1. PICK x, a : x = [Idle EXCEPT !.pc = "waiting"] /\ a = [thread EXCEPT ![c] = x]
        OBVIOUS
      <4>2. thread' = Notified(a)
        BY <1>8, <2>3, <4>1 DEF flush
      <4>3. a[c] = x /\ ~ x.ticked /\ a \in [Threads -> ThreadState]
        <5>1. x \in Rest
          <6>1. "waiting" \in Away
            BY DEF Away
          <6> QED
            BY <4>1, <6>1, IdleRests DEF Fresh
        <5> QED
          BY <2>1, <4>1, <5>1 DEF Settled, Rest, Idle
      <4>4. Notified(a)[c] = a[c]
        BY <2>1, <4>3 DEF Notified
      <4> QED
        BY <4>2, <4>3, <4>4
    <3> QED
      BY <1>1, <1>2, <3>2, <3>3, <3>4, <3>5, DueFromNow
  <2> QED
    BY <2>2, <2>3
<1>9. CASE flush_wakes(c)
  <2>1. CASE d_stop \/ thread[c].ticked
    <3>1. due'[c] = {}
      BY <1>1, <1>9, <2>1 DEF flush_wakes, SlotsInv, TypeOK
    <3>2. PendingSound({})' /\ Pending(c)' = {}
      BY <3>1, NonePending, <1>1, NoSlotMovesKeepsDues DEF Pending
    <3> QED
      BY <3>1, <3>2 DEF DueSound
  <2>2. CASE ~ (d_stop \/ thread[c].ticked)
    <3>1. due'[c] = due[c]
      BY <1>1, <1>9, <2>2 DEF flush_wakes, SlotsInv, TypeOK
    <3> QED
      BY <1>7, <3>1
  <2> QED
    BY <2>1, <2>2
<1>10. ASSUME NEW u \in Clients, flush(u) \/ flush_wakes(u), u # c PROVE due'[c] = due[c]
  BY <1>1, <1>10 DEF flush, flush_wakes, SlotsInv, TypeOK
<1>11. (\A u \in Clients : ~ flush(u) /\ ~ flush_wakes(u)) => due'[c] = due[c]
  BY DEF NoSlotMoves, run, period, tick, exit, poke, request_stop, lock, unlock, drain_and_quiesce
<1> QED
  BY <1>7, <1>8, <1>9, <1>10, <1>11

LEMMA DrainsStep == DrainInv /\ [Next]_vars => DrainInv'
<1> SUFFICES ASSUME DrainInv, [Next]_vars PROVE DrainInv'
  OBVIOUS
<1>1. SlotsInv /\ OneDrain /\ GoesRound /\ TypeOK /\ \A c \in Clients : DueSound(c)
  BY DEF DrainInv, SlotsInv
<1>2. SlotsInv' /\ Clients \subseteq Threads
  BY <1>1, SlotsStep, ThreadsAndStores
<1>3. \A c \in Clients : PendingSound(Pending(c))
  BY <1>1 DEF DueSound
<1>4. ASSUME UNCHANGED <<due, generation>>, OneDrain', GoesRound',
             \A P : PendingSound(P) => PendingSound(P)',
             \A c \in Clients : thread'[c].ticked = thread[c].ticked
      PROVE  DrainInv'
  <2>1. ASSUME NEW c \in Clients PROVE DueSound(c)'
    <3>1. PICK P : P = Pending(c)
      OBVIOUS
    <3>2. PendingSound(P)'
      BY <1>3, <1>4, <3>1
    <3> QED
      BY <1>1, <1>4, <3>1, <3>2, DueKept
  <2> QED
    BY <1>2, <1>4, <2>1 DEF DrainInv
<1>5. ASSUME NEW t \in Threads, Push(t) PROVE DrainInv'
  <2>1. \A c \in Clients : thread'[c].ticked = thread[c].ticked
    BY <1>1, <1>2, <1>5, TicksKept
  <2>2. UNCHANGED <<due, generation>>
    BY <1>5 DEF Push, enqueue_reclaim, compare_exchange, columns
  <2>3. \A P : PendingSound(P) => PendingSound(P)'
    BY <1>1, <1>5, PushKeepsDues
  <2>4. OneDrain' /\ GoesRound'
    BY <1>1, <1>5, NonePending, PushKeepsDues
  <2> QED
    BY <1>4, <2>1, <2>2, <2>3, <2>4
<1>6. ASSUME NEW t \in Threads, drain_pending(t) PROVE DrainInv'
  <2>1. \A c \in Clients : thread'[c].ticked = thread[c].ticked
    BY <1>1, <1>2, <1>6, TicksKept
  <2>2. UNCHANGED <<due, generation>>
    BY <1>6 DEF drain_pending, columns
  <2>3. \A P : PendingSound(P) => PendingSound(P)'
    BY <1>1, <1>6, DetachKeepsDues
  <2>4. OneDrain' /\ GoesRound'
    BY <1>1, <1>6, NonePending, DetachKeepsDues
  <2> QED
    BY <1>4, <2>1, <2>2, <2>3, <2>4
<1>7. ASSUME NEW t \in Threads, destruct(t) PROVE DrainInv'
  <2>1. \A c \in Clients : thread'[c].ticked = thread[c].ticked
    BY <1>1, <1>2, <1>7, TicksKept
  <2>2. UNCHANGED <<due, generation>>
    BY <1>7 DEF destruct
  <2>3. \A P : PendingSound(P) => PendingSound(P)'
    BY <1>1, <1>7, DestructKeepsDues
  <2>4. OneDrain' /\ GoesRound'
    BY <1>1, <1>7, NonePending, DestructKeepsDues
  <2> QED
    BY <1>4, <2>1, <2>2, <2>3, <2>4
<1>8. ASSUME NEW t \in Threads, reclaim(t), thread[t].pc = "release" PROVE DrainInv'
  <2>1. \A c \in Clients : thread'[c].ticked = thread[c].ticked
    BY <1>1, <1>2, <1>8, TicksKept
  <2>2. UNCHANGED <<due, generation>>
    BY <1>8 DEF reclaim
  <2>3. \A P : PendingSound(P) => PendingSound(P)'
    BY <1>1, <1>8, FreeKeepsDues
  <2>4. OneDrain' /\ GoesRound'
    BY <1>1, <1>8, NonePending, FreeKeepsDues
  <2> QED
    BY <1>4, <2>1, <2>2, <2>3, <2>4
<1>9. ASSUME NEW t \in Threads, reclaim(t), thread[t].pc = "bump" PROVE DrainInv'
  <2>1. \A c \in Clients : thread'[c].ticked = thread[c].ticked
    BY <1>1, <1>2, <1>9, TicksKept
  <2>2. PICK b : b = thread[t].batch
    OBVIOUS
  <2>3. due' = due /\ generation' = [generation EXCEPT ![b] = @ + 1]
    BY <1>9, <2>2 DEF reclaim
  <2>4. HasBatch(thread[t])
    BY <1>9 DEF HasBatch
  <2>5. b \in Slots
    BY <1>1, <2>2, <2>4, BatchIsDead DEF Dead
  <2>6. ASSUME NEW P, PendingSound(P), NEW P2, P2 = P \ {b}
        PROVE  PendingSound(P2)' /\ OneDrain' /\ GoesRound'
    BY <1>1, <1>9, <2>2, <2>6, BumpKeepsDues
  <2>7. OneDrain' /\ GoesRound'
    BY <2>6, NonePending
  <2>8. ASSUME NEW c \in Clients PROVE DueSound(c)'
    <3>1. PICK P, P2 : P = Pending(c) /\ P2 = P \ {b}
      OBVIOUS
    <3>2. PendingSound(P2)'
      BY <1>3, <2>6, <3>1
    <3>3. P2 = Pending(c) \ {b} /\ thread'[c].ticked = thread[c].ticked
      BY <2>1, <3>1
    <3> QED
      BY <1>1, <2>3, <2>5, <3>2, <3>3, DueBumped
  <2> QED
    BY <1>2, <2>7, <2>8 DEF DrainInv
<1>10. ASSUME NEW t \in Clients, NEW r \in held[t], reset(t, r) \/ (t = Writer /\ publish(r))
       PROVE  DrainInv'
  <2>1. \A c \in Clients : thread'[c].ticked = thread[c].ticked
    BY <1>1, <1>2, <1>10, TicksKept
  <2>2. UNCHANGED <<due, generation>>
    BY <1>10 DEF reset, publish
  <2>3. \A P : PendingSound(P) => PendingSound(P)'
    BY <1>1, <1>10, DropKeepsDues
  <2>4. OneDrain' /\ GoesRound'
    BY <1>1, <1>10, NonePending, DropKeepsDues
  <2> QED
    BY <1>4, <2>1, <2>2, <2>3, <2>4
<1>11. ASSUME NEW t \in Clients, pin(t) \/ \E r \in held[t] : resolve(t, r) PROVE DrainInv'
  <2>1. UNCHANGED <<due, generation, thread, d_mutex>>
    BY <1>11 DEF pin, resolve
  <2>2. OneDrain' /\ GoesRound'
    BY <1>1, <2>1 DEF OneDrain, GoesRound
  <2>3. \A P : PendingSound(P) => PendingSound(P)'
    BY <1>1, <1>11, PinKeepsDues
  <2> QED
    BY <1>4, <2>1, <2>2, <2>3
<1>12. ASSUME NEW s \in Slots, NEW child \in held[Writer] \cup {NoRef}, create(s, child)
       PROVE  DrainInv'
  <2>1. UNCHANGED <<due, generation, thread, d_mutex>>
    BY <1>12 DEF create
  <2>2. OneDrain' /\ GoesRound'
    BY <1>1, <2>1 DEF OneDrain, GoesRound
  <2>3. \A P : PendingSound(P) => PendingSound(P)'
    BY <1>1, <1>12, CreateKeepsDues
  <2> QED
    BY <1>4, <2>1, <2>2, <2>3
<1>13. CASE NoSlotMoves
  BY <1>1, <1>2, <1>13, NoSlotMovesDrains, NoSlotMovesDues DEF DrainInv
<1>14. CASE UNCHANGED vars
  <2>1. UNCHANGED <<columns, lists, refs, thread, d_mutex, due>>
    BY <1>14 DEF vars
  <2>2. OneDrain' /\ GoesRound'
    BY <1>1, <2>1 DEF OneDrain, GoesRound
  <2>3. Lists' = Lists
    BY <2>1, ListsKept
  <2>4. ASSUME NEW P, PendingSound(P) PROVE PendingSound(P)'
    <3>1. Stranded(P)'
      BY <2>1, <2>4 DEF PendingSound, Stranded, columns, refs, Unused, Referrers
    <3>2. \A u \in Threads : PassesNone(thread[u], P)'
      BY <2>1, <2>3, <2>4 DEF PendingSound, PassesNone, PushedSlot
    <3> QED
      BY <3>1, <3>2 DEF PendingSound
  <2>5. UNCHANGED <<due, generation>>
    BY <2>1 DEF columns
  <2> QED
    BY <1>4, <2>1, <2>2, <2>4, <2>5
<1> QED
  <2>1. ASSUME NEW t \in Threads, unlock(t) PROVE NoSlotMoves
    BY <2>1 DEF NoSlotMoves, unlock
  <2>2. \A t \in Threads : reclaim(t) => thread[t].pc = "bump" \/ thread[t].pc = "release"
    BY DEF reclaim
  <2>3. ASSUME NEW r \in held[Writer], publish(r) PROVE DrainInv'
    BY <1>10, <2>3, ThreadsAndStores
  <2> QED
    BY <1>5, <1>6, <1>7, <1>8, <1>9, <1>10, <1>11, <1>12, <1>13, <1>14, <2>1, <2>2, <2>3
       DEF Next, Drain, Acquire, Loop, NoSlotMoves

(* A flush that has had its tick finds reclaimed all that was doomed when  *)
(* it was called (housekeeping_thread.cpp flush, ReclamationQueue::drain). *)
THEOREM FlushesDrain == Spec => []FlushDrains
<1>1. Init => DrainInv
  BY DrainsInit
<1>2. DrainInv /\ [Next]_vars => DrainInv'
  BY DrainsStep
<1>3. DrainInv => FlushDrains
  BY DrainsFollow
<1> QED
  BY <1>1, <1>2, <1>3, PTL DEF Spec
=============================================================================
