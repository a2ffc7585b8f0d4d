-------------------------- MODULE KeyedStoreProofs --------------------------
(***************************************************************************)
(* The books of the budgeted cache balance, and its evictions respect the  *)
(* budget and the order of value, for every set of keys, sizes, classes    *)
(* and holders.                                                            *)
(***************************************************************************)
EXTENDS KeyedStore, CollectionTheorems

(***************************************************************************)
(* The bytes of a set of entries.                                          *)
(***************************************************************************)
HasBytes(es) == IsFiniteSet(DOMAIN es) /\ \A i \in DOMAIN es : es[i].bytes \in Nat

\* What is left of a store weighs what it weighed less what went.
LEMMA BytesKept ==
  ASSUME NEW es, HasBytes(es), NEW fs, DOMAIN fs \subseteq DOMAIN es,
         \A i \in DOMAIN fs : fs[i].bytes = es[i].bytes
  PROVE  /\ Bytes(fs, DOMAIN fs) = Bytes(es, DOMAIN es) - Bytes(es, DOMAIN es \ DOMAIN fs)
         /\ Bytes(es, DOMAIN es) \in Nat
         /\ Bytes(es, DOMAIN es \ DOMAIN fs) \in Nat
<1>1. PICK D, F, f, g : /\ D = DOMAIN es /\ F = DOMAIN fs
                        /\ f = [i \in D |-> es[i].bytes] /\ g = [i \in F |-> fs[i].bytes]
  OBVIOUS
<1>2. IsFiniteSet(D) /\ F \in SUBSET D /\ \A i \in D : f[i] \in Nat
  BY <1>1 DEF HasBytes
<1>3. \A i \in D : f[i] \in Int
  BY <1>2
<1>4. SumFunctionOnSet(f, D) = SumFunctionOnSet(f, F) + SumFunctionOnSet(f, D \ F)
  BY <1>2, <1>3, SumSplit
<1>5. SumFunctionOnSet(f, F) = SumFunctionOnSet(g, F)
  <2>1. IsFiniteSet(F) /\ \A i \in F : f[i] \in Int /\ f[i] = g[i]
    BY <1>1, <1>2, <1>3, FS_Subset
  <2> QED
    BY <2>1, SumSame
<1>6. SumFunctionOnSet(f, F) \in Nat
  BY <1>2, SumNat, FS_Subset
<1>7. SumFunctionOnSet(f, D) \in Nat
  BY <1>2, SumNat
<1>8. SumFunctionOnSet(f, D \ F) \in Nat
  <2>1. IsFiniteSet(D \ F) /\ \A i \in D \ F : f[i] \in Nat
    BY <1>2, FS_Difference
  <2> QED
    BY <2>1, SumNat
<1>9. SumFunctionOnSet(g, F) = SumFunctionOnSet(f, D) - SumFunctionOnSet(f, D \ F)
  BY <1>4, <1>5, <1>6, <1>7, <1>8
<1> QED
  BY <1>1, <1>7, <1>8, <1>9 DEF Bytes

\* An entry that changes anything but its cost leaves the sum alone.
LEMMA BytesSame ==
  ASSUME NEW es, HasBytes(es), NEW fs, DOMAIN fs = DOMAIN es,
         \A i \in DOMAIN fs : fs[i].bytes = es[i].bytes
  PROVE  Bytes(fs, DOMAIN fs) = Bytes(es, DOMAIN es)
<1>1. DOMAIN es \ DOMAIN fs = {}
  OBVIOUS
<1>2. Bytes(es, {}) = 0
  BY SumEmpty DEF Bytes
<1> QED
  BY <1>1, <1>2, BytesKept

\* A larger part of a store weighs no less.
LEMMA BytesGrow ==
  ASSUME NEW es, HasBytes(es), NEW S \in SUBSET DOMAIN es, NEW T \in SUBSET S
  PROVE  Bytes(es, T) <= Bytes(es, S) /\ Bytes(es, T) \in Nat /\ Bytes(es, S) \in Nat
<1>1. PICK f : f = [i \in DOMAIN es |-> es[i].bytes]
  OBVIOUS
<1>2. IsFiniteSet(S) /\ \A i \in S : f[i] \in Nat
  BY <1>1, FS_Subset DEF HasBytes
<1>3. IsFiniteSet(T) /\ \A i \in T : f[i] \in Nat
  BY <1>2, FS_Subset
<1>4. SumFunctionOnSet(f, T) <= SumFunctionOnSet(f, S)
  BY <1>2, SumGrows
<1>5. SumFunctionOnSet(f, S) \in Nat
  BY <1>2, SumNat
<1>6. SumFunctionOnSet(f, T) \in Nat
  BY <1>3, SumNat
<1> QED
  BY <1>1, <1>4, <1>5, <1>6 DEF Bytes

\* A new entry adds its cost.
LEMMA BytesAdded ==
  ASSUME NEW es, HasBytes(es), NEW n, n \notin DOMAIN es, NEW e, e.bytes \in Nat
  PROVE  /\ Bytes(Put(es, n, e), DOMAIN Put(es, n, e)) = Bytes(es, DOMAIN es) + e.bytes
         /\ HasBytes(Put(es, n, e))
<1>1. PICK D, fs, f, g : /\ D = DOMAIN es /\ fs = Put(es, n, e)
                         /\ f = [i \in D |-> es[i].bytes]
                         /\ g = [i \in D \cup {n} |-> fs[i].bytes]
  OBVIOUS
<1>2. /\ DOMAIN fs = D \cup {n} /\ fs[n] = e
      /\ \A i \in D : fs[i] = es[i]
  BY <1>1 DEF Put
<1>3. IsFiniteSet(D) /\ \A i \in D : f[i] \in Int /\ f[i] = g[i]
  BY <1>1, <1>2 DEF HasBytes
<1>4. SumFunctionOnSet(f, D) = SumFunctionOnSet(g, D)
  BY <1>3, SumSame
<1>5. n \notin D /\ g[n] \in Int /\ g[n] = e.bytes /\ \A i \in D : g[i] \in Int
  BY <1>1, <1>2, <1>3
<1>6. SumFunctionOnSet(g, D \cup {n}) = SumFunctionOnSet(g, D) + g[n]
  <2>1. IsFiniteSet(D) /\ n \notin D
    BY <1>3, <1>5
  <2>2. g[n] \in Int
    BY <1>5
  <2>3. \A i \in D : g[i] \in Int
    BY <1>5
  <2> QED
    BY <2>1, <2>2, <2>3, SumAdd
<1>7. HasBytes(fs)
  <2>1. IsFiniteSet(D \cup {n})
    BY <1>3, FS_AddElement
  <2> QED
    BY <1>1, <1>2, <2>1 DEF HasBytes
<1>8. Bytes(fs, DOMAIN fs) = Bytes(es, DOMAIN es) + e.bytes
  BY <1>1, <1>2, <1>4, <1>5, <1>6 DEF Bytes
<1> QED
  BY <1>1, <1>7, <1>8

(***************************************************************************)
(* A store as the operations hand it on: d_map, the live entries and       *)
(* d_resident.                                                             *)
(***************************************************************************)
IsStore(d) ==
  /\ DOMAIN d.map \subseteq Keys /\ d.map = [k \in DOMAIN d.map |-> d.map[k]]
  /\ d.entries = [i \in DOMAIN d.entries |-> d.entries[i]]
  /\ IsFiniteSet(DOMAIN d.entries)
  /\ \A i \in DOMAIN d.entries : d.entries[i] \in Entry

Placed(d) ==
  /\ \A k \in DOMAIN d.map : /\ d.map[k] \in DOMAIN d.entries
                             /\ d.entries[d.map[k]].key = k
                             /\ ~ d.entries[d.map[k]].removed
  /\ \A i \in DOMAIN d.entries :
       ~ d.entries[i].removed => \E k \in DOMAIN d.map : d.map[k] = i
  /\ \A i \in DOMAIN d.entries : d.entries[i].removed => d.entries[i].pins > 0

Balanced(d) == d.resident = Bytes(d.entries, DOMAIN d.entries)

\* A recency is given out once.
RecencyDistinct(es) == \A i, j \in DOMAIN es : i # j => es[i].recency # es[j].recency

Sound(d) == IsStore(d) /\ Placed(d) /\ Balanced(d) /\ RecencyDistinct(d.entries)

\* What a step from d to e leaves alone: every pinned entry stays, and a
\* surviving entry keeps all but its place.
Spares(d, e) ==
  /\ DOMAIN e.entries \subseteq DOMAIN d.entries
  /\ \A i \in DOMAIN d.entries : d.entries[i].pins > 0 => i \in DOMAIN e.entries
  /\ \A i \in DOMAIN e.entries :
       /\ e.entries[i].pins = d.entries[i].pins
       /\ e.entries[i].key = d.entries[i].key
       /\ e.entries[i].klass = d.entries[i].klass
       /\ e.entries[i].recency = d.entries[i].recency

LEMMA SoundHasBytes ==
  ASSUME NEW d, IsStore(d)
  PROVE  HasBytes(d.entries)
BY KeyedStoreAssumption DEF IsStore, HasBytes, Entry

Store == [map |-> map, entries |-> entries, resident |-> resident]

\* detach keeps the books: an entry that nothing pins leaves with its bytes,
\* and one that is pinned stays, counted, as an orphan.
LEMMA DetachSound ==
  ASSUME NEW S \in SUBSET DOMAIN map, Sound(Store)
  PROVE  /\ Sound(Detach(S)) /\ Spares(Store, Detach(S))
         /\ DOMAIN Detach(S).map = DOMAIN map \ S
         /\ \A k \in DOMAIN map \ S : Detach(S).map[k] = map[k]
<1>1. PICK e : e = Detach(S)
  OBVIOUS
<1>2. PICK ids : ids = {map[k] : k \in S}
  OBVIOUS
<1>3. PICK gone : gone = {j \in ids : entries[j].pins = 0}
  OBVIOUS
<1>4. /\ e.map = Drop(map, S)
      /\ e.entries = [i \in DOMAIN entries \ gone |->
                        IF i \in ids THEN [entries[i] EXCEPT !.removed = TRUE] ELSE entries[i]]
      /\ e.resident = resident - Bytes(entries, gone)
  BY <1>1, <1>2, <1>3 DEF Detach
<1>5. DOMAIN e.map = DOMAIN map \ S /\ \A k \in DOMAIN map \ S : e.map[k] = map[k]
  BY <1>4 DEF Drop, Restrict
<1>6. /\ DOMAIN e.entries = DOMAIN entries \ gone
      /\ \A i \in DOMAIN e.entries :
           /\ e.entries[i] = IF i \in ids THEN [entries[i] EXCEPT !.removed = TRUE] ELSE entries[i]
           /\ i \in ids => entries[i].pins # 0
  BY <1>3, <1>4
<1>7. /\ IsFiniteSet(DOMAIN entries) /\ \A i \in DOMAIN entries : entries[i] \in Entry
      /\ DOMAIN map \subseteq Keys
  BY DEF Sound, IsStore, Store
<1>8. /\ \A k \in DOMAIN map : /\ map[k] \in DOMAIN entries
                               /\ entries[map[k]].key = k
                               /\ ~ entries[map[k]].removed
      /\ \A i \in DOMAIN entries :
           ~ entries[i].removed => \E k \in DOMAIN map : map[k] = i
      /\ \A i \in DOMAIN entries : entries[i].removed => entries[i].pins > 0
  BY DEF Sound, Placed, Store
<1>9. gone \subseteq DOMAIN entries /\ ids \subseteq DOMAIN entries
  BY <1>2, <1>3, <1>8
<1>10. \A i \in DOMAIN e.entries :
         /\ e.entries[i] \in Entry
         /\ e.entries[i].removed = (i \in ids \/ entries[i].removed)
         /\ e.entries[i].pins = entries[i].pins /\ e.entries[i].key = entries[i].key
         /\ e.entries[i].klass = entries[i].klass /\ e.entries[i].recency = entries[i].recency
         /\ e.entries[i].bytes = entries[i].bytes
  BY <1>6, <1>7 DEF Entry
<1>11. IsStore(e)
  <2>1. IsFiniteSet(DOMAIN e.entries)
    BY <1>6, <1>7, FS_Difference
  <2>2. DOMAIN e.map \subseteq Keys
    BY <1>5, <1>7
  <2>3. e.map = [k \in DOMAIN e.map |-> e.map[k]]
    BY <1>4 DEF Drop, Restrict
  <2>4. e.entries = [i \in DOMAIN e.entries |-> e.entries[i]]
    BY <1>4
  <2> QED
    BY <1>10, <2>1, <2>2, <2>3, <2>4 DEF IsStore
<1>12. Placed(e)
  <2>1. ASSUME NEW k \in DOMAIN e.map
        PROVE  /\ e.map[k] \in DOMAIN e.entries
               /\ e.entries[e.map[k]].key = k
               /\ ~ e.entries[e.map[k]].removed
    <3>1. map[k] \notin ids
      BY <1>2, <1>5, <1>8
    <3>2. PICK i : i = map[k] /\ e.map[k] = i /\ i \in DOMAIN entries /\ i \notin ids
                   /\ entries[i].key = k /\ ~ entries[i].removed
      BY <1>5, <1>8, <3>1
    <3>3. i \in DOMAIN e.entries
      BY <1>3, <1>6, <3>2
    <3>4. e.entries[i] = entries[i]
      BY <1>6, <3>2, <3>3
    <3> QED
      BY <3>2, <3>3, <3>4
  <2>2. ASSUME NEW i \in DOMAIN e.entries, ~ e.entries[i].removed
        PROVE  \E k \in DOMAIN e.map : e.map[k] = i
    <3>1. i \in DOMAIN entries /\ i \notin ids /\ ~ entries[i].removed
      BY <1>6, <1>10, <2>2
    <3>2. PICK k \in DOMAIN map : map[k] = i
      BY <1>8, <3>1
    <3>3. k \notin S
      BY <1>2, <3>1, <3>2
    <3> QED
      BY <1>5, <3>2, <3>3
  <2>3. ASSUME NEW i \in DOMAIN e.entries, e.entries[i].removed
        PROVE  e.entries[i].pins > 0
    BY <1>6, <1>7, <1>8, <1>10, <2>3 DEF Entry
  <2> QED
    BY <2>1, <2>2, <2>3 DEF Placed
<1>13. Balanced(e)
  <2>1. HasBytes(entries)
    BY SoundHasBytes DEF Sound, Store
  <2>2. DOMAIN entries \ DOMAIN e.entries = gone
    BY <1>6, <1>9
  <2>3. Bytes(e.entries, DOMAIN e.entries) = Bytes(entries, DOMAIN entries) - Bytes(entries, gone)
    <3>1. PICK es, fs : es = entries /\ fs = e.entries
      OBVIOUS
    <3>2. HasBytes(es) /\ DOMAIN fs \subseteq DOMAIN es
      BY <1>6, <2>1, <3>1
    <3>3. \A i \in DOMAIN fs : fs[i].bytes = es[i].bytes
      BY <1>10, <3>1
    <3>4. Bytes(fs, DOMAIN fs) = Bytes(es, DOMAIN es) - Bytes(es, DOMAIN es \ DOMAIN fs)
      BY <3>2, <3>3, BytesKept
    <3> QED
      BY <2>2, <3>1, <3>4
  <2>4. resident = Bytes(entries, DOMAIN entries)
    BY DEF Sound, Balanced, Store
  <2> QED
    BY <1>4, <2>3, <2>4 DEF Balanced
<1>14. RecencyDistinct(e.entries)
  BY <1>6, <1>10 DEF Sound, RecencyDistinct, Store
<1>15. Spares(Store, e)
  BY <1>3, <1>6, <1>7, <1>10 DEF Spares, Store, Entry
<1> QED
  BY <1>1, <1>5, <1>11, <1>12, <1>13, <1>14, <1>15 DEF Sound

\* The order of value is a strict order, and total where recencies differ.
LEMMA BeforeIsOrder ==
  ASSUME NEW a \in Entry, NEW b \in Entry, NEW c \in Entry
  PROVE  /\ ~ Before(a, a)
         /\ Before(a, b) /\ Before(b, c) => Before(a, c)
         /\ a.recency # b.recency => Before(a, b) \/ Before(b, a)
         /\ Before(a, b) => a.klass <= b.klass /\ (a.klass = b.klass => a.recency < b.recency)
<1>1. /\ a.klass \in Nat /\ b.klass \in Nat /\ c.klass \in Nat
      /\ a.recency \in Nat /\ b.recency \in Nat /\ c.recency \in Nat
  <2>1. ASSUME NEW e \in Entry PROVE e.klass \in Nat /\ e.recency \in Nat
    <3>1. e.klass \in Classes /\ e.recency \in 1..MaxTick
      BY DEF Entry
    <3>2. Classes \subseteq Nat /\ 1..MaxTick \subseteq Nat
      BY KeyedStoreAssumption
    <3> QED
      BY <3>1, <3>2, Zenon
  <2> QED
    BY <2>1
<1> QED
  BY <1>1 DEF Before

Free(d) == {k \in DOMAIN d.map : d.entries[d.map[k]].pins = 0}
Ahead(d, k) == {d.map[j] : j \in {f \in Free(d) : Before(d.entries[d.map[f]], d.entries[d.map[k]])}}
Victims(d, incoming) == {k \in Free(d) : d.resident - Bytes(d.entries, Ahead(d, k)) + incoming > Budget}

LEMMA EvictToFitIs ==
  ASSUME NEW d, NEW incoming
  PROVE  LET ids == {d.map[k] : k \in Victims(d, incoming)}
         IN  EvictToFit(d, incoming) =
               [map |-> Drop(d.map, Victims(d, incoming)), entries |-> Drop(d.entries, ids),
                resident |-> d.resident - Bytes(d.entries, ids)]
BY DEF EvictToFit, Victims, Ahead, Free

\* The candidates ahead of one that is ahead of k are ahead of k.
LEMMA AheadGrows ==
  ASSUME NEW d, Sound(d), NEW j \in Free(d), NEW k \in Free(d)
  PROVE  /\ Ahead(d, k) \in SUBSET DOMAIN d.entries
         /\ d.map[j] \notin Ahead(d, j)
         /\ Before(d.entries[d.map[j]], d.entries[d.map[k]]) =>
              Ahead(d, j) \in SUBSET Ahead(d, k) /\ d.map[j] \in Ahead(d, k)
<1>1. \A f \in Free(d) : /\ f \in DOMAIN d.map /\ d.map[f] \in DOMAIN d.entries
                         /\ d.entries[d.map[f]] \in Entry /\ d.entries[d.map[f]].key = f
  BY DEF Free, Sound, Placed, IsStore
<1>2. Ahead(d, k) \in SUBSET DOMAIN d.entries
  BY <1>1 DEF Ahead
<1>3. ASSUME d.map[j] \in Ahead(d, j) PROVE FALSE
  <2>1. PICK f \in Free(d) : d.map[f] = d.map[j] /\ Before(d.entries[d.map[f]], d.entries[d.map[j]])
    BY <1>3 DEF Ahead
  <2> QED
    BY <1>1, <2>1, BeforeIsOrder
<1>4. ASSUME Before(d.entries[d.map[j]], d.entries[d.map[k]])
      PROVE  Ahead(d, j) \in SUBSET Ahead(d, k) /\ d.map[j] \in Ahead(d, k)
  <2>1. d.map[j] \in Ahead(d, k)
    BY <1>4 DEF Ahead
  <2>2. ASSUME NEW i \in Ahead(d, j) PROVE i \in Ahead(d, k)
    <3>1. PICK f \in Free(d) : d.map[f] = i /\ Before(d.entries[d.map[f]], d.entries[d.map[j]])
      BY DEF Ahead
    <3>2. Before(d.entries[d.map[f]], d.entries[d.map[k]])
      BY <1>1, <1>4, <3>1, BeforeIsOrder
    <3> QED
      BY <3>1, <3>2 DEF Ahead
  <2> QED
    BY <2>1, <2>2
<1> QED
  BY <1>2, <1>3, <1>4

\* A candidate that stays is not before one that goes.
LEMMA VictimsFirst ==
  ASSUME NEW d, Sound(d), NEW incoming \in Nat,
         NEW i \in Victims(d, incoming), NEW j \in Free(d) \ Victims(d, incoming)
  PROVE  Before(d.entries[d.map[i]], d.entries[d.map[j]])
<1>1. i \in Free(d) /\ HasBytes(d.entries) /\ d.resident \in Int
  <2>1. HasBytes(d.entries)
    BY SoundHasBytes DEF Sound
  <2>2. d.resident = Bytes(d.entries, DOMAIN d.entries)
    BY DEF Sound, Balanced
  <2>3. Bytes(d.entries, DOMAIN d.entries) \in Nat
    BY <2>1, BytesGrow
  <2> QED
    BY <2>1, <2>2, <2>3 DEF Victims
<1>2. ~ Before(d.entries[d.map[j]], d.entries[d.map[i]])
  <2>1. SUFFICES ASSUME Before(d.entries[d.map[j]], d.entries[d.map[i]]) PROVE FALSE
    OBVIOUS
  <2>2. Ahead(d, j) \in SUBSET Ahead(d, i) /\ Ahead(d, i) \in SUBSET DOMAIN d.entries
    BY <1>1, <2>1, AheadGrows
  <2>3. PICK a, b : /\ a = Bytes(d.entries, Ahead(d, j)) /\ b = Bytes(d.entries, Ahead(d, i))
                    /\ a \in Nat /\ b \in Nat /\ a <= b
    BY <1>1, <2>2, BytesGrow
  <2>4. d.resident - b + incoming > Budget /\ ~ (d.resident - a + incoming > Budget)
    BY <2>3 DEF Victims
  <2> QED
    BY <1>1, <2>3, <2>4, KeyedStoreAssumption
<1>3. \A k \in Free(d) : /\ k \in DOMAIN d.map /\ d.map[k] \in DOMAIN d.entries
                         /\ d.entries[d.map[k]] \in Entry /\ d.entries[d.map[k]].key = k
  BY DEF Free, Sound, Placed, IsStore
<1>4. d.map[i] # d.map[j]
  BY <1>1, <1>3
<1>5. d.entries[d.map[i]].recency # d.entries[d.map[j]].recency
  BY <1>1, <1>3, <1>4 DEF Sound, RecencyDistinct
<1> QED
  BY <1>1, <1>2, <1>3, <1>5, BeforeIsOrder

\* Where a candidate stays, the incoming bytes fit: all that are ahead of the
\* first one that stays have gone.
LEMMA VictimsSuffice ==
  ASSUME NEW d, Sound(d), NEW incoming \in Nat, NEW ids,
         ids = {d.map[k] : k \in Victims(d, incoming)},
         Free(d) \ Victims(d, incoming) # {}
  PROVE  d.resident - Bytes(d.entries, ids) + incoming <= Budget
<1> DEFINE Stay == Free(d) \ Victims(d, incoming)
           Ranks == {Cardinality(Ahead(d, k)) : k \in Stay}
<1>1. HasBytes(d.entries) /\ d.resident \in Int
  <2>1. HasBytes(d.entries)
    BY SoundHasBytes DEF Sound
  <2>2. d.resident = Bytes(d.entries, DOMAIN d.entries)
    BY DEF Sound, Balanced
  <2>3. Bytes(d.entries, DOMAIN d.entries) \in Nat
    BY <2>1, BytesGrow
  <2> QED
    BY <2>1, <2>2, <2>3
<1>2. \A k \in Free(d) : /\ Ahead(d, k) \in SUBSET DOMAIN d.entries
                         /\ IsFiniteSet(Ahead(d, k)) /\ Cardinality(Ahead(d, k)) \in Nat
  BY <1>1, AheadGrows, FS_Subset, FS_CardinalityType DEF HasBytes
<1>3. Ranks \in SUBSET Nat /\ Ranks # {}
  BY <1>2
<1>4. PICK n \in Ranks : \A m \in Ranks : n <= m
  BY <1>3, LeastNatural
<1>5. PICK k \in Stay : Cardinality(Ahead(d, k)) = n
  BY <1>4
<1>6. ASSUME NEW i \in Ahead(d, k) PROVE i \in ids
  <2>1. PICK f \in Free(d) : d.map[f] = i /\ Before(d.entries[d.map[f]], d.entries[d.map[k]])
    BY DEF Ahead
  <2>2. CASE f \in Victims(d, incoming)
    BY <2>1, <2>2
  <2>3. CASE f \in Stay
    <3>1. /\ Ahead(d, f) \in SUBSET Ahead(d, k)
          /\ d.map[f] \in Ahead(d, k) /\ d.map[f] \notin Ahead(d, f)
      BY <1>5, <2>1, AheadGrows
    <3>2. Cardinality(Ahead(d, f)) < n
      BY <1>2, <1>5, <2>1, <3>1, FS_Subset
    <3>3. Cardinality(Ahead(d, f)) \in Ranks
      BY <2>3
    <3> QED
      BY <1>2, <1>3, <1>4, <3>2, <3>3
  <2> QED
    BY <2>1, <2>2, <2>3
<1>7. ids \in SUBSET DOMAIN d.entries /\ Ahead(d, k) \in SUBSET ids
  BY <1>6 DEF Victims, Free, Sound, Placed
<1>8. PICK a, b : /\ a = Bytes(d.entries, Ahead(d, k)) /\ b = Bytes(d.entries, ids)
                  /\ a \in Nat /\ b \in Nat /\ a <= b
  BY <1>1, <1>7, BytesGrow
<1>9. ~ (d.resident - a + incoming > Budget)
  BY <1>5, <1>8 DEF Victims
<1> QED
  BY <1>1, <1>8, <1>9, KeyedStoreAssumption

\* evict_to_fit keeps the books, spares what is pinned, evicts in order of
\* value, and stops when the incoming bytes fit or nothing is left to evict.
LEMMA EvictSound ==
  ASSUME NEW d, Sound(d), NEW incoming \in Nat, NEW e, e = EvictToFit(d, incoming)
  PROVE  /\ Sound(e) /\ Spares(d, e)
         /\ DOMAIN e.map \subseteq DOMAIN d.map
         /\ \A k \in DOMAIN e.map : e.map[k] = d.map[k]
         /\ \/ e.resident + incoming <= Budget
            \/ \A i \in DOMAIN e.entries : e.entries[i].pins > 0
         /\ \A i \in DOMAIN d.entries \ DOMAIN e.entries, j \in DOMAIN e.entries :
              d.entries[j].pins = 0 => Before(d.entries[i], d.entries[j])
<1>1. PICK ids : ids = {d.map[k] : k \in Victims(d, incoming)}
  OBVIOUS
<1>2. /\ e.map = Drop(d.map, Victims(d, incoming)) /\ e.entries = Drop(d.entries, ids)
      /\ e.resident = d.resident - Bytes(d.entries, ids)
  BY <1>1, EvictToFitIs
<1>3. /\ DOMAIN e.map = DOMAIN d.map \ Victims(d, incoming)
      /\ \A k \in DOMAIN e.map : e.map[k] = d.map[k]
      /\ DOMAIN e.entries = DOMAIN d.entries \ ids
      /\ \A i \in DOMAIN e.entries : e.entries[i] = d.entries[i]
  BY <1>2 DEF Drop, Restrict
<1>4. /\ DOMAIN d.map \subseteq Keys /\ IsFiniteSet(DOMAIN d.entries)
      /\ \A i \in DOMAIN d.entries : d.entries[i] \in Entry
  BY DEF Sound, IsStore
<1>5. /\ \A k \in DOMAIN d.map : /\ d.map[k] \in DOMAIN d.entries
                                 /\ d.entries[d.map[k]].key = k
                                 /\ ~ d.entries[d.map[k]].removed
      /\ \A i \in DOMAIN d.entries :
           ~ d.entries[i].removed => \E k \in DOMAIN d.map : d.map[k] = i
      /\ \A i \in DOMAIN d.entries : d.entries[i].removed => d.entries[i].pins > 0
  BY DEF Sound, Placed
<1>6. \A k \in Victims(d, incoming) : k \in Free(d) /\ k \in DOMAIN d.map /\ d.entries[d.map[k]].pins = 0
  BY DEF Victims, Free
<1>7. ids \in SUBSET DOMAIN d.entries /\ \A i \in ids : d.entries[i].pins = 0
  BY <1>1, <1>5, <1>6
<1>8. IsStore(e)
  <2>1. IsFiniteSet(DOMAIN e.entries)
    <3>1. IsFiniteSet(DOMAIN d.entries \ ids)
      BY <1>4, FS_Difference
    <3> QED
      BY <1>3, <3>1
  <2>2. /\ DOMAIN e.map \subseteq Keys
        /\ \A i \in DOMAIN e.entries : e.entries[i] \in Entry
    BY <1>3, <1>4
  <2>3. e.map = [k \in DOMAIN e.map |-> e.map[k]]
    BY <1>2 DEF Drop, Restrict
  <2>4. e.entries = [i \in DOMAIN e.entries |-> e.entries[i]]
    BY <1>2 DEF Drop, Restrict
  <2> QED
    BY <2>1, <2>2, <2>3, <2>4 DEF IsStore
<1>9. Placed(e)
  <2>1. ASSUME NEW k \in DOMAIN e.map
        PROVE  /\ e.map[k] \in DOMAIN e.entries
               /\ e.entries[e.map[k]].key = k
               /\ ~ e.entries[e.map[k]].removed
    <3>1. PICK i : i = d.map[k] /\ e.map[k] = i /\ i \in DOMAIN d.entries
                   /\ d.entries[i].key = k /\ ~ d.entries[i].removed
      BY <1>3, <1>5
    <3>2. i \notin ids
      BY <1>1, <1>3, <1>5, <1>6, <3>1
    <3> QED
      BY <1>3, <3>1, <3>2
  <2>2. ASSUME NEW i \in DOMAIN e.entries, ~ e.entries[i].removed
        PROVE  \E k \in DOMAIN e.map : e.map[k] = i
    <3>1. PICK k \in DOMAIN d.map : d.map[k] = i
      BY <1>3, <1>5, <2>2
    <3> QED
      BY <1>1, <1>3, <3>1
  <2>3. ASSUME NEW i \in DOMAIN e.entries, e.entries[i].removed
        PROVE  e.entries[i].pins > 0
    BY <1>3, <1>5, <2>3
  <2> QED
    BY <2>1, <2>2, <2>3 DEF Placed
<1>10. HasBytes(d.entries) /\ d.resident = Bytes(d.entries, DOMAIN d.entries)
  BY SoundHasBytes DEF Sound, Balanced
<1>11. Balanced(e)
  <2>1. PICK es, fs : es = d.entries /\ fs = e.entries
    OBVIOUS
  <2>2. HasBytes(es) /\ DOMAIN fs \subseteq DOMAIN es
    BY <1>3, <1>10, <2>1
  <2>3. \A i \in DOMAIN fs : fs[i].bytes = es[i].bytes
    BY <1>3, <2>1
  <2>4. Bytes(fs, DOMAIN fs) = Bytes(es, DOMAIN es) - Bytes(es, DOMAIN es \ DOMAIN fs)
    BY <2>2, <2>3, BytesKept
  <2>5. DOMAIN es \ DOMAIN fs = ids
    BY <1>3, <1>7, <2>1
  <2> QED
    BY <1>2, <1>10, <2>1, <2>4, <2>5 DEF Balanced
<1>12. RecencyDistinct(e.entries)
  BY <1>3 DEF Sound, RecencyDistinct
<1>13. Spares(d, e)
  BY <1>3, <1>4, <1>7 DEF Spares, Entry
<1>14. ASSUME NEW j \in DOMAIN e.entries, d.entries[j].pins = 0
       PROVE  \E k \in Free(d) \ Victims(d, incoming) : d.map[k] = j
  <2>1. j \in DOMAIN d.entries /\ j \notin ids /\ ~ d.entries[j].removed
    BY <1>3, <1>5, <1>14
  <2>2. PICK k \in DOMAIN d.map : d.map[k] = j
    BY <1>5, <2>1
  <2> QED
    BY <1>1, <1>14, <2>1, <2>2 DEF Free
<1>15. \/ e.resident + incoming <= Budget
       \/ \A i \in DOMAIN e.entries : e.entries[i].pins > 0
  <2>1. ASSUME NEW j \in DOMAIN e.entries, ~ (e.entries[j].pins > 0)
        PROVE  e.resident + incoming <= Budget
    <3>1. d.entries[j].pins = 0
      BY <1>3, <1>4, <2>1 DEF Entry
    <3>2. Free(d) \ Victims(d, incoming) # {}
      BY <1>14, <3>1
    <3> QED
      BY <1>1, <1>2, <3>2, VictimsSuffice
  <2> QED
    BY <2>1
<1>16. ASSUME NEW i \in DOMAIN d.entries \ DOMAIN e.entries, NEW j \in DOMAIN e.entries,
              d.entries[j].pins = 0
       PROVE  Before(d.entries[i], d.entries[j])
  <2>1. i \in ids
    BY <1>3
  <2>2. PICK k \in Victims(d, incoming) : d.map[k] = i
    BY <1>1, <2>1
  <2>3. PICK m \in Free(d) \ Victims(d, incoming) : d.map[m] = j
    BY <1>14, <1>16
  <2>4. Before(d.entries[d.map[k]], d.entries[d.map[m]])
    BY VictimsFirst
  <2> QED
    BY <2>2, <2>3, <2>4
<1> QED
  BY <1>3, <1>8, <1>9, <1>11, <1>12, <1>13, <1>15, <1>16 DEF Sound

(***************************************************************************)
(* The inductive invariant: the books, and that no recency is ahead of the *)
(* clock.                                                                  *)
(***************************************************************************)
RecencySoFar == \A i \in Live : entries[i].recency <= tick

Inv == TypeOK /\ Sound(Store) /\ RecencySoFar /\ PinsExact

\* The parts of Inv, on the variables themselves.
LEMMA InvFacts ==
  ASSUME Inv
  PROVE  /\ tick \in Nat /\ tick <= MaxTick /\ hold \in [Holders -> 0..tick]
         /\ DOMAIN entries \subseteq 1..tick /\ IsFiniteSet(DOMAIN entries)
         /\ map = [k \in DOMAIN map |-> map[k]] /\ entries = [i \in DOMAIN entries |-> entries[i]]
         /\ \A i \in DOMAIN entries : entries[i] \in Entry
         /\ DOMAIN map \subseteq Keys
         /\ \A k \in DOMAIN map : /\ map[k] \in DOMAIN entries
                                  /\ entries[map[k]].key = k
                                  /\ ~ entries[map[k]].removed
         /\ resident = Bytes(entries, DOMAIN entries)
         /\ HasBytes(entries)
<1>1. /\ tick \in Nat /\ tick <= MaxTick /\ hold \in [Holders -> 0..tick]
      /\ DOMAIN entries \subseteq 1..tick
  BY KeyedStoreAssumption DEF Inv, TypeOK
<1>2. HasBytes(entries)
  BY SoundHasBytes DEF Inv, Sound, Store
<1> QED
  BY <1>1, <1>2 DEF Inv, Sound, Store, IsStore, Placed, Balanced

\* A held entry is live and counts the hold.
LEMMA HeldIsPinned ==
  ASSUME Inv, NEW h \in Holders, hold[h] # NoEntry
  PROVE  hold[h] \in DOMAIN entries /\ entries[hold[h]].pins > 0
<1>1. PICK i : i = hold[h] /\ i \in DOMAIN entries
  BY DEF Inv, PinsExact, Live
<1>2. PICK H : H = {g \in Holders : hold[g] = i}
  OBVIOUS
<1>3. IsFiniteSet(H) /\ H # {}
  BY <1>1, <1>2, FS_Subset, KeyedStoreAssumption
<1>4. Cardinality(H) \in Nat /\ Cardinality(H) # 0
  BY <1>3, FS_EmptySet, FS_CardinalityType
<1>5. entries[i].pins = Cardinality(H)
  BY <1>1, <1>2 DEF Inv, PinsExact, Live
<1> QED
  BY <1>1, <1>4, <1>5

THEOREM InvInit == Init => Inv
<1> SUFFICES ASSUME Init PROVE Inv
  OBVIOUS
<1>1. DOMAIN map = {} /\ DOMAIN entries = {} /\ resident = 0 /\ tick = 0
      /\ map = [k \in {} |-> 0] /\ entries = [k \in {} |-> 0]
  BY DEF Init
<1>2. TypeOK
  BY <1>1, KeyedStoreAssumption DEF Init, TypeOK, Live, NoEntry
<1>3. Bytes(entries, {}) = 0
  BY SumEmpty DEF Bytes
<1>4. Sound(Store)
  BY <1>1, <1>3, FS_EmptySet DEF Sound, Store, IsStore, Placed, Balanced, RecencyDistinct
<1>5. PinsExact /\ RecencySoFar
  BY <1>1 DEF Init, PinsExact, RecencySoFar, Live
<1> QED
  BY <1>2, <1>4, <1>5 DEF Inv

\* Books that only spare keep the pin counts exact and the types in order.
LEMMA SparedStep ==
  ASSUME Inv, NEW d, Sound(d), Spares(Store, d), Install(d), UNCHANGED <<tick, hold>>,
         DOMAIN d.map \subseteq DOMAIN map, \A k \in DOMAIN d.map : d.map[k] = map[k],
         d = [map |-> d.map, entries |-> d.entries, resident |-> d.resident]
  PROVE  Inv'
<1>1. map' = d.map /\ entries' = d.entries /\ resident' = d.resident
  BY DEF Install
<1>2. Store' = d
  BY <1>1 DEF Store
<1>3. Sound(Store)'
  BY <1>2
<1>4. /\ DOMAIN d.entries \subseteq DOMAIN entries
      /\ \A i \in DOMAIN entries : entries[i].pins > 0 => i \in DOMAIN d.entries
      /\ \A i \in DOMAIN d.entries : /\ d.entries[i].pins = entries[i].pins
                                     /\ d.entries[i].recency = entries[i].recency
  BY DEF Spares, Store
<1>5. PinsExact'
  <2>1. \A h \in Holders : hold'[h] # NoEntry => hold'[h] \in DOMAIN entries'
    BY <1>1, <1>4, HeldIsPinned
  <2>2. \A i \in DOMAIN entries' : entries'[i].pins = Cardinality({h \in Holders : hold'[h] = i})
    BY <1>1, <1>4 DEF Inv, PinsExact, Live
  <2> QED
    BY <2>1, <2>2 DEF PinsExact, Live
<1>6. RecencySoFar'
  BY <1>1, <1>4 DEF Inv, RecencySoFar, Live
<1>7. TypeOK'
  <2>1. resident' \in Int
    <3>1. HasBytes(d.entries) /\ d.resident = Bytes(d.entries, DOMAIN d.entries)
      BY SoundHasBytes DEF Sound, Balanced
    <3> QED
      BY <1>1, <3>1, BytesGrow
  <2>2. DOMAIN map' \subseteq Keys /\ \A k \in DOMAIN map' : map'[k] \in 1..tick'
    BY <1>1 DEF Inv, TypeOK
  <2>3. DOMAIN entries' \subseteq 1..tick' /\ \A i \in DOMAIN entries' : entries'[i] \in Entry
    BY <1>1, <1>4 DEF Inv, TypeOK, Sound, IsStore
  <2> QED
    BY <2>1, <2>2, <2>3 DEF Inv, TypeOK, Live
<1> QED
  BY <1>3, <1>5, <1>6, <1>7 DEF Inv

LEMMA DetachStep ==
  ASSUME Inv, NEW S \in SUBSET DOMAIN map, Install(Detach(S)), UNCHANGED <<tick, hold>>
  PROVE  Inv'
<1>1. PICK d : d = Detach(S)
  OBVIOUS
<1>2. /\ Sound(d) /\ Spares(Store, d)
      /\ DOMAIN d.map \subseteq DOMAIN map /\ \A k \in DOMAIN d.map : d.map[k] = map[k]
  BY <1>1, DetachSound DEF Inv
<1>3. d = [map |-> d.map, entries |-> d.entries, resident |-> d.resident]
  BY <1>1 DEF Detach
<1> QED
  BY <1>1, <1>2, <1>3, SparedStep

\* An entry that changes its class, its recency or its pins stays in its place.
LEMMA TouchSound ==
  ASSUME Inv, UNCHANGED <<map, resident>>,
         DOMAIN entries' = DOMAIN entries, entries' = [i \in DOMAIN entries |-> entries'[i]],
         \A i \in DOMAIN entries :
           /\ entries'[i] \in Entry /\ entries'[i].key = entries[i].key
           /\ entries'[i].bytes = entries[i].bytes
           /\ entries'[i].removed = entries[i].removed
           /\ entries[i].removed => entries'[i].pins > 0,
         RecencyDistinct(entries')
  PROVE  Sound(Store)'
<1>1. PICK es, fs, d : /\ es = entries /\ fs = entries'
                       /\ d = [map |-> map, entries |-> fs, resident |-> resident]
  OBVIOUS
<1>2. d = Store'
  BY <1>1 DEF Store
<1>3. IsStore(d)
  BY <1>1, InvFacts DEF IsStore
<1>4. Placed(d)
  BY <1>1 DEF Inv, Sound, Store, Placed
<1>5. Balanced(d)
  <2>1. HasBytes(es) /\ resident = Bytes(es, DOMAIN es)
    BY <1>1, InvFacts
  <2>2. DOMAIN fs = DOMAIN es /\ \A i \in DOMAIN fs : fs[i].bytes = es[i].bytes
    BY <1>1
  <2>3. Bytes(fs, DOMAIN fs) = Bytes(es, DOMAIN es)
    BY <2>1, <2>2, BytesSame
  <2> QED
    BY <1>1, <2>1, <2>3 DEF Balanced
<1>6. Sound(d)
  BY <1>1, <1>3, <1>4, <1>5 DEF Sound
<1> QED
  BY <1>2, <1>6

LEMMA LookupStep ==
  ASSUME Inv, NEW h \in Holders, NEW key \in Keys, Lookup(h, key)
  PROVE  Inv'
<1>1. PICK m : m = map[key] /\ m \in DOMAIN entries /\ m \in 1..tick
  BY InvFacts DEF Lookup
<1>2. /\ entries' = [entries EXCEPT ![m].recency = tick + 1, ![m].pins = @ + 1]
      /\ tick' = tick + 1 /\ hold' = [hold EXCEPT ![h] = m] /\ hold[h] = NoEntry
      /\ UNCHANGED <<map, resident>> /\ tick < MaxTick
  BY <1>1 DEF Lookup
<1>3. /\ DOMAIN entries' = DOMAIN entries /\ entries' = [i \in DOMAIN entries |-> entries'[i]]
      /\ \A i \in DOMAIN entries : i # m => entries'[i] = entries[i]
      /\ entries'[m] = [entries[m] EXCEPT !.recency = tick + 1, !.pins = @ + 1]
  BY <1>1, <1>2, InvFacts
<1>4. /\ entries[m] \in Entry /\ entries'[m] \in Entry
      /\ entries'[m].recency = tick + 1 /\ entries'[m].pins = entries[m].pins + 1
      /\ entries'[m].key = entries[m].key /\ entries'[m].bytes = entries[m].bytes
      /\ entries'[m].removed = entries[m].removed /\ entries'[m].klass = entries[m].klass
      /\ entries'[m].pins > 0
  <2>1. entries[m] \in Entry /\ tick + 1 \in 1..MaxTick
    BY <1>1, <1>2, InvFacts, KeyedStoreAssumption
  <2>2. PICK a \in Entry : a = entries[m]
    BY <2>1
  <2>3. PICK b : b = entries'[m] /\ b = [a EXCEPT !.recency = tick + 1, !.pins = @ + 1]
    BY <1>3, <2>2
  <2>4. /\ b \in Entry /\ b.recency = tick + 1 /\ b.pins = a.pins + 1 /\ b.pins > 0
        /\ b.key = a.key /\ b.bytes = a.bytes /\ b.removed = a.removed /\ b.klass = a.klass
    <3>1. /\ a.key \in Keys /\ a.bytes \in Sizes /\ a.klass \in Classes /\ a.pins \in Nat
          /\ a.removed \in BOOLEAN
      BY DEF Entry
    <3>2. b = [key |-> a.key, bytes |-> a.bytes, klass |-> a.klass, recency |-> tick + 1,
               pins |-> a.pins + 1, removed |-> a.removed]
      BY <2>3 DEF Entry
    <3> QED
      BY <2>1, <3>1, <3>2 DEF Entry
  <2> QED
    BY <2>2, <2>3, <2>4
<1>5. RecencyDistinct(entries')
  <2>1. \A i \in DOMAIN entries : i # m => entries'[i].recency # entries'[m].recency
    BY <1>3, <1>4, InvFacts DEF Inv, RecencySoFar, Live, Entry
  <2>2. \A i, j \in DOMAIN entries : i # j => entries[i].recency # entries[j].recency
    BY DEF Inv, Sound, Store, RecencyDistinct
  <2>3. ASSUME NEW i \in DOMAIN entries, NEW j \in DOMAIN entries, i # j
        PROVE  entries'[i].recency # entries'[j].recency
    <3>1. CASE i = m \/ j = m
      BY <2>1, <2>3, <3>1
    <3>2. CASE i # m /\ j # m
      BY <1>3, <2>2, <2>3, <3>2
    <3> QED
      BY <3>1, <3>2
  <2> QED
    BY <1>3, <2>3 DEF RecencyDistinct
<1>6. Sound(Store)'
  <2>1. \A i \in DOMAIN entries :
           /\ entries'[i] \in Entry /\ entries'[i].key = entries[i].key
           /\ entries'[i].bytes = entries[i].bytes
           /\ entries'[i].removed = entries[i].removed
           /\ entries[i].removed => entries'[i].pins > 0
    BY <1>3, <1>4, InvFacts DEF Inv, Sound, Store, Placed
  <2> QED
    BY <1>2, <1>3, <1>5, <2>1, TouchSound
<1>7. PinsExact'
  <2>1. \A g \in Holders : hold'[g] # NoEntry => hold'[g] \in DOMAIN entries'
    BY <1>1, <1>2, <1>3, InvFacts DEF Inv, PinsExact, Live
  <2>2. ASSUME NEW i \in DOMAIN entries
        PROVE  entries'[i].pins = Cardinality({g \in Holders : hold'[g] = i})
    <3>1. PICK H : H = {g \in Holders : hold[g] = i} /\ entries[i].pins = Cardinality(H)
      BY DEF Inv, PinsExact, Live
    <3>2. CASE i # m
      <4>1. i # NoEntry
        BY InvFacts DEF NoEntry
      <4>2. {g \in Holders : hold'[g] = i} = H
        BY <1>2, <3>1, <3>2, <4>1, InvFacts
      <4> QED
        BY <1>3, <3>1, <3>2, <4>2
    <3>3. CASE i = m
      <4>1. IsFiniteSet(H) /\ h \notin H
        BY <1>1, <1>2, <3>1, <3>3, FS_Subset, KeyedStoreAssumption DEF NoEntry
      <4>2. {g \in Holders : hold'[g] = i} = H \cup {h}
        BY <1>2, <3>1, <3>3, InvFacts
      <4>3. Cardinality(H \cup {h}) = Cardinality(H) + 1
        BY <4>1, FS_AddElement
      <4> QED
        BY <1>4, <3>1, <3>3, <4>2, <4>3
    <3> QED
      BY <3>2, <3>3
  <2> QED
    BY <1>3, <2>1, <2>2 DEF PinsExact, Live
<1>8. RecencySoFar'
  BY <1>2, <1>3, <1>4, InvFacts DEF Inv, RecencySoFar, Live, Entry
<1>9. TypeOK'
  <2>1. tick' \in 0..MaxTick /\ resident' \in Int
    BY <1>2, InvFacts, KeyedStoreAssumption DEF Inv, TypeOK
  <2>2. DOMAIN map' \subseteq Keys /\ \A k \in DOMAIN map' : map'[k] \in 1..tick'
    BY <1>2, InvFacts DEF Inv, TypeOK
  <2>3. DOMAIN entries' \subseteq 1..tick' /\ \A i \in DOMAIN entries' : entries'[i] \in Entry
    <3>1. 1..tick \subseteq 1..tick'
      BY <1>2, InvFacts
    <3>2. DOMAIN entries' \subseteq 1..tick'
      BY <1>3, <3>1, InvFacts
    <3>3. \A i \in DOMAIN entries : entries'[i] \in Entry
      BY <1>3, <1>4, InvFacts
    <3> QED
      BY <1>3, <3>2, <3>3
  <2>4. hold' \in [Holders -> 0..tick']
    BY <1>1, <1>2, InvFacts
  <2> QED
    BY <2>1, <2>2, <2>3, <2>4 DEF TypeOK, Live
<1> QED
  BY <1>6, <1>7, <1>8, <1>9 DEF Inv

\* An entry that changes its class, or its recency to the clock's.
LEMMA TouchStep ==
  ASSUME Inv, NEW m \in DOMAIN entries, NEW b \in Entry,
         entries' = [entries EXCEPT ![m] = b],
         b.key = entries[m].key, b.bytes = entries[m].bytes, b.removed = entries[m].removed,
         b.pins = entries[m].pins,
         \/ tick' = tick /\ b.recency = entries[m].recency
         \/ tick' = tick + 1 /\ tick < MaxTick /\ b.recency = tick + 1,
         UNCHANGED <<map, resident, hold>>
  PROVE  Inv'
<1>1. /\ DOMAIN entries' = DOMAIN entries /\ entries' = [i \in DOMAIN entries |-> entries'[i]]
      /\ \A i \in DOMAIN entries : i # m => entries'[i] = entries[i]
      /\ entries'[m] = b
  BY InvFacts
<1>2. tick' \in Nat /\ tick <= tick' /\ tick' <= MaxTick /\ entries[m] \in Entry
  BY InvFacts, KeyedStoreAssumption
<1>3. RecencyDistinct(entries')
  <2>1. \A i, j \in DOMAIN entries : i # j => entries[i].recency # entries[j].recency
    BY DEF Inv, Sound, Store, RecencyDistinct
  <2>2. \A i \in DOMAIN entries : i # m => entries'[i].recency # entries'[m].recency
    <3>1. CASE b.recency = entries[m].recency
      BY <1>1, <2>1, <3>1
    <3>2. CASE b.recency = tick + 1
      BY <1>1, <3>2, InvFacts DEF Inv, RecencySoFar, Live, Entry
    <3> QED
      BY <3>1, <3>2
  <2>3. ASSUME NEW i \in DOMAIN entries, NEW j \in DOMAIN entries, i # j
        PROVE  entries'[i].recency # entries'[j].recency
    <3>1. CASE i = m \/ j = m
      BY <2>2, <2>3, <3>1
    <3>2. CASE i # m /\ j # m
      BY <1>1, <2>1, <2>3, <3>2
    <3> QED
      BY <3>1, <3>2
  <2> QED
    BY <1>1, <2>3 DEF RecencyDistinct
<1>4. \A i \in DOMAIN entries :
           /\ entries'[i] \in Entry /\ entries'[i].key = entries[i].key
           /\ entries'[i].bytes = entries[i].bytes
           /\ entries'[i].removed = entries[i].removed
           /\ entries'[i].pins = entries[i].pins
           /\ entries[i].removed => entries'[i].pins > 0
  BY <1>1, InvFacts DEF Inv, Sound, Store, Placed
<1>5. Sound(Store)'
  BY <1>1, <1>3, <1>4, TouchSound
<1>6. PinsExact'
  BY <1>1, <1>4 DEF Inv, PinsExact, Live
<1>7. RecencySoFar'
  <2>1. ASSUME NEW i \in DOMAIN entries PROVE entries'[i].recency <= tick'
    <3>1. entries[i].recency <= tick /\ entries[i].recency \in Nat
      BY InvFacts DEF Inv, RecencySoFar, Live, Entry
    <3> QED
      BY <1>1, <1>2, <3>1, InvFacts
  <2> QED
    BY <1>1, <2>1 DEF RecencySoFar, Live
<1>8. TypeOK'
  <2>1. tick' \in 0..MaxTick /\ resident' \in Int
    BY <1>2, KeyedStoreAssumption DEF Inv, TypeOK
  <2>2. 1..tick \subseteq 1..tick' /\ 0..tick \subseteq 0..tick'
    BY <1>2, InvFacts
  <2>3. DOMAIN map' \subseteq Keys /\ \A k \in DOMAIN map' : map'[k] \in 1..tick'
    BY <2>2 DEF Inv, TypeOK
  <2>4. DOMAIN entries' \subseteq 1..tick' /\ \A i \in DOMAIN entries' : entries'[i] \in Entry
    BY <1>1, <1>4, <2>2, InvFacts
  <2>5. hold' \in [Holders -> 0..tick']
    BY <2>2, InvFacts
  <2> QED
    BY <2>1, <2>3, <2>4, <2>5 DEF TypeOK, Live
<1> QED
  BY <1>5, <1>6, <1>7, <1>8 DEF Inv

LEMMA ReclassifyStep ==
  ASSUME Inv, NEW key \in Keys, NEW klass \in Classes, Reclassify(key, klass) \/ Prime(key, klass)
  PROVE  Inv'
<1>1. PICK m : m = map[key] /\ m \in DOMAIN entries
  BY InvFacts DEF Reclassify, Prime
<1>2. PICK a \in Entry : a = entries[m]
  BY <1>1, InvFacts
<1>3. PICK r : /\ \/ tick' = tick /\ r = a.recency
                  \/ tick' = tick + 1 /\ tick < MaxTick /\ r = tick + 1
               /\ entries' = [entries EXCEPT ![m] = [a EXCEPT !.recency = r, !.klass = klass]]
               /\ UNCHANGED <<map, resident, hold>>
  <2>1. CASE Reclassify(key, klass)
    <3>1. [a EXCEPT !.recency = a.recency, !.klass = klass] = [a EXCEPT !.klass = klass]
      BY DEF Entry
    <3> QED
      BY <1>1, <1>2, <2>1, <3>1 DEF Reclassify
  <2>2. CASE Prime(key, klass)
    BY <1>1, <1>2, <2>2 DEF Prime
  <2> QED
    BY <2>1, <2>2
<1>4. PICK b : b = [a EXCEPT !.recency = r, !.klass = klass]
  OBVIOUS
<1>5. /\ b \in Entry /\ b.recency = r /\ b.key = a.key /\ b.bytes = a.bytes
      /\ b.removed = a.removed /\ b.pins = a.pins
  <2>1. /\ a.key \in Keys /\ a.bytes \in Sizes /\ a.recency \in 1..MaxTick /\ a.pins \in Nat
        /\ a.removed \in BOOLEAN
    BY DEF Entry
  <2>2. r \in 1..MaxTick
    BY <1>3, <2>1, InvFacts, KeyedStoreAssumption
  <2>3. b = [key |-> a.key, bytes |-> a.bytes, klass |-> klass, recency |-> r,
             pins |-> a.pins, removed |-> a.removed]
    BY <1>4 DEF Entry
  <2> QED
    BY <2>1, <2>2, <2>3 DEF Entry
<1> QED
  BY <1>1, <1>2, <1>3, <1>4, <1>5, TouchStep

\* The last hold of an orphan takes it away with its bytes; any other hold
\* only leaves the count.
LEMMA ReleaseStep ==
  ASSUME Inv, NEW h \in Holders, Release(h)
  PROVE  Inv'
<1>1. PICK m : m = hold[h] /\ m \in DOMAIN entries /\ m # NoEntry /\ entries[m].pins > 0
  BY HeldIsPinned DEF Release
<1>2. PICK a \in Entry : a = entries[m]
  BY <1>1, InvFacts
<1>3. hold' = [hold EXCEPT ![h] = NoEntry] /\ UNCHANGED <<map, tick>>
  BY DEF Release
<1>4. hold' \in [Holders -> 0..tick] /\ \A g \in Holders : hold'[g] = IF g = h THEN NoEntry ELSE hold[g]
  BY <1>3, InvFacts DEF NoEntry
<1>5. ASSUME NEW i \in DOMAIN entries
      PROVE  Cardinality({g \in Holders : hold'[g] = i}) =
               IF i = m THEN entries[i].pins - 1 ELSE entries[i].pins
  <2>1. PICK H : H = {g \in Holders : hold[g] = i} /\ entries[i].pins = Cardinality(H)
    BY DEF Inv, PinsExact, Live
  <2>2. IsFiniteSet(H) /\ i # NoEntry
    BY <2>1, FS_Subset, InvFacts, KeyedStoreAssumption DEF NoEntry
  <2>3. CASE i = m
    <3>1. {g \in Holders : hold'[g] = i} = H \ {h} /\ h \in H
      BY <1>1, <1>4, <2>1, <2>2, <2>3
    <3> QED
      BY <2>1, <2>2, <2>3, <3>1, FS_RemoveElement
  <2>4. CASE i # m
    <3>1. {g \in Holders : hold'[g] = i} = H
      BY <1>1, <1>4, <2>1, <2>2, <2>4
    <3> QED
      BY <2>1, <2>4, <3>1
  <2> QED
    BY <2>3, <2>4
<1>6. CASE a.pins = 1 /\ a.removed
  <2>1. PICK d : d = [map |-> map, entries |-> Drop(entries, {m}), resident |-> resident - a.bytes]
    OBVIOUS
  <2>2. entries' = d.entries /\ resident' = d.resident /\ map' = d.map
    BY <1>1, <1>2, <1>3, <1>6, <2>1 DEF Release
  <2>3. /\ DOMAIN d.entries = DOMAIN entries \ {m} /\ d.map = map
        /\ d.entries = [i \in DOMAIN d.entries |-> entries[i]]
        /\ \A i \in DOMAIN d.entries : d.entries[i] = entries[i]
    BY <2>1 DEF Drop, Restrict
  <2>4. IsStore(d)
    <3>1. IsFiniteSet(DOMAIN d.entries)
      BY <2>3, InvFacts, FS_RemoveElement
    <3> QED
      BY <2>3, <3>1, InvFacts DEF IsStore
  <2>5. Placed(d)
    <3>1. \A k \in DOMAIN map : map[k] # m
      BY <1>2, <1>6, InvFacts
    <3> QED
      BY <2>3, <3>1 DEF Inv, Sound, Store, Placed
  <2>6. Balanced(d)
    <3>1. PICK es, fs : es = entries /\ fs = d.entries
      OBVIOUS
    <3>2. HasBytes(es) /\ DOMAIN fs \subseteq DOMAIN es
      BY <2>3, <3>1, InvFacts
    <3>3. \A i \in DOMAIN fs : fs[i].bytes = es[i].bytes
      BY <2>3, <3>1
    <3>4. Bytes(fs, DOMAIN fs) = Bytes(es, DOMAIN es) - Bytes(es, DOMAIN es \ DOMAIN fs)
      BY <3>2, <3>3, BytesKept
    <3>5. DOMAIN es \ DOMAIN fs = {m}
      BY <1>1, <2>3, <3>1
    <3>6. Bytes(es, {m}) = a.bytes
      <4>1. PICK f : f = [i \in DOMAIN es |-> es[i].bytes]
        OBVIOUS
      <4>2. f[m] = a.bytes /\ f[m] \in Int /\ m \notin {} /\ IsFiniteSet({})
        BY <1>1, <1>2, <3>1, <3>2, <4>1, FS_EmptySet DEF HasBytes
      <4>3. \A i \in {} : f[i] \in Int
        OBVIOUS
      <4>4. SumFunctionOnSet(f, {} \cup {m}) = SumFunctionOnSet(f, {}) + f[m]
        BY <4>2, <4>3, SumAdd
      <4>5. {} \cup {m} = {m}
        OBVIOUS
      <4>6. SumFunctionOnSet(f, {m}) = 0 + f[m]
        BY <4>4, <4>5, SumEmpty
      <4> QED
        BY <4>1, <4>2, <4>6 DEF Bytes
    <3>7. d.resident = resident - a.bytes /\ resident = Bytes(es, DOMAIN es)
      BY <2>1, <3>1, InvFacts
    <3> QED
      BY <3>1, <3>4, <3>5, <3>6, <3>7 DEF Balanced
  <2>7. Sound(d)
    <3>1. RecencyDistinct(d.entries)
      BY <2>3 DEF Inv, Sound, Store, RecencyDistinct
    <3> QED
      BY <2>4, <2>5, <2>6, <3>1 DEF Sound
  <2>8. Sound(Store)'
    <3>1. Store' = d
      BY <2>1, <2>2 DEF Store
    <3> QED
      BY <2>7, <3>1
  <2>9. PinsExact'
    <3>1. \A g \in Holders : hold'[g] # m
      <4>1. Cardinality({g \in Holders : hold'[g] = m}) = 0
        BY <1>1, <1>2, <1>5, <1>6
      <4>2. IsFiniteSet({g \in Holders : hold'[g] = m})
        BY FS_Subset, KeyedStoreAssumption
      <4> QED
        BY <4>1, <4>2, FS_EmptySet
    <3>2. \A g \in Holders : hold'[g] # NoEntry => hold'[g] \in DOMAIN entries'
      BY <1>4, <2>2, <2>3, <3>1 DEF Inv, PinsExact, Live
    <3>3. \A i \in DOMAIN entries' : entries'[i].pins = Cardinality({g \in Holders : hold'[g] = i})
      BY <1>5, <2>2, <2>3
    <3> QED
      BY <3>2, <3>3 DEF PinsExact, Live
  <2>10. RecencySoFar' /\ TypeOK'
    <3>1. resident' \in Int
      BY <2>2, <2>7, SoundHasBytes, BytesGrow DEF Sound, Balanced
    <3>2. \A i \in DOMAIN entries' : entries'[i] = entries[i] /\ i \in DOMAIN entries
      BY <2>2, <2>3
    <3> QED
      BY <1>3, <1>4, <3>1, <3>2 DEF Inv, TypeOK, RecencySoFar, Live
  <2> QED
    BY <2>8, <2>9, <2>10 DEF Inv
<1>7. CASE ~ (a.pins = 1 /\ a.removed)
  <2>1. PICK b : b = [a EXCEPT !.pins = @ - 1]
    OBVIOUS
  <2>2. /\ b \in Entry /\ b.pins = a.pins - 1 /\ b.key = a.key /\ b.bytes = a.bytes
        /\ b.removed = a.removed /\ b.recency = a.recency /\ b.klass = a.klass
        /\ a.removed => b.pins > 0
    <3>1. /\ a.key \in Keys /\ a.bytes \in Sizes /\ a.recency \in 1..MaxTick /\ a.pins \in Nat
          /\ a.removed \in BOOLEAN /\ a.klass \in Classes /\ a.pins > 0
      BY <1>1, <1>2 DEF Entry
    <3>2. b = [key |-> a.key, bytes |-> a.bytes, klass |-> a.klass, recency |-> a.recency,
               pins |-> a.pins - 1, removed |-> a.removed]
      BY <2>1 DEF Entry
    <3> QED
      BY <1>7, <3>1, <3>2 DEF Entry
  <2>3. entries' = [entries EXCEPT ![m] = b] /\ resident' = resident
    BY <1>1, <1>2, <1>7, <2>1 DEF Release
  <2>4. /\ DOMAIN entries' = DOMAIN entries /\ entries' = [i \in DOMAIN entries |-> entries'[i]]
        /\ \A i \in DOMAIN entries : i # m => entries'[i] = entries[i]
        /\ entries'[m] = b
    BY <1>1, <2>3, InvFacts
  <2>5. \A i \in DOMAIN entries :
           /\ entries'[i] \in Entry /\ entries'[i].key = entries[i].key
           /\ entries'[i].bytes = entries[i].bytes
           /\ entries'[i].removed = entries[i].removed
           /\ entries'[i].recency = entries[i].recency
           /\ entries'[i].pins = IF i = m THEN entries[i].pins - 1 ELSE entries[i].pins
           /\ entries[i].removed => entries'[i].pins > 0
    BY <1>2, <2>2, <2>4, InvFacts DEF Inv, Sound, Store, Placed
  <2>6. RecencyDistinct(entries')
    BY <2>4, <2>5 DEF Inv, Sound, Store, RecencyDistinct
  <2>7. Sound(Store)'
    BY <1>3, <2>3, <2>4, <2>5, <2>6, TouchSound
  <2>8. PinsExact'
    <3>1. \A g \in Holders : hold'[g] # NoEntry => hold'[g] \in DOMAIN entries'
      BY <1>4, <2>4 DEF Inv, PinsExact, Live
    <3>2. \A i \in DOMAIN entries' : entries'[i].pins = Cardinality({g \in Holders : hold'[g] = i})
      BY <1>5, <2>4, <2>5
    <3> QED
      BY <3>1, <3>2 DEF PinsExact, Live
  <2>9. RecencySoFar' /\ TypeOK'
    BY <1>3, <1>4, <2>3, <2>4, <2>5 DEF Inv, TypeOK, RecencySoFar, Live
  <2> QED
    BY <2>7, <2>8, <2>9 DEF Inv
<1> QED
  BY <1>6, <1>7

\* What an insert leaves behind: the store d without the replaced entry, the
\* store e with room made, and the new entry in it.
Inserts(h, key, bytes, klass, d, e, new) ==
  /\ d = Detach({key} \cap DOMAIN map) /\ e = EvictToFit(d, bytes)
  /\ new = [key |-> key, bytes |-> bytes, klass |-> klass, recency |-> tick + 1,
            pins |-> 1, removed |-> FALSE]
  /\ map' = Put(e.map, key, tick + 1) /\ entries' = Put(e.entries, tick + 1, new)
  /\ resident' = e.resident + bytes
  /\ tick < MaxTick /\ tick' = tick + 1
  /\ hold[h] = NoEntry /\ hold' = [hold EXCEPT ![h] = tick + 1]

LEMMA InsertFacts ==
  ASSUME Inv, NEW h \in Holders, NEW key \in Keys, NEW bytes \in Sizes, NEW klass \in Classes,
         NEW d, NEW e, NEW new, Inserts(h, key, bytes, klass, d, e, new)
  PROVE  /\ Sound(d) /\ Spares(Store, d) /\ Sound(e) /\ Spares(d, e)
         /\ key \notin DOMAIN e.map /\ tick + 1 \notin DOMAIN e.entries
         /\ DOMAIN e.map \subseteq DOMAIN map /\ \A k \in DOMAIN e.map : e.map[k] = map[k]
         /\ DOMAIN e.entries \subseteq DOMAIN entries
         /\ bytes \in Nat
<1>1. bytes \in Nat
  BY KeyedStoreAssumption
<1>2. /\ Sound(d) /\ Spares(Store, d)
      /\ DOMAIN d.map = DOMAIN map \ {key} /\ \A k \in DOMAIN d.map : d.map[k] = map[k]
  BY DetachSound DEF Inserts, Inv
<1>3. e = EvictToFit(d, bytes)
  BY DEF Inserts
<1>4. /\ Sound(e) /\ Spares(d, e)
      /\ DOMAIN e.map \subseteq DOMAIN d.map /\ \A k \in DOMAIN e.map : e.map[k] = d.map[k]
  BY <1>1, <1>2, <1>3, EvictSound
<1>5. DOMAIN e.entries \subseteq DOMAIN entries
  BY <1>2, <1>4 DEF Spares, Store
<1>6. tick + 1 \notin DOMAIN entries
  BY InvFacts
<1> QED
  BY <1>1, <1>2, <1>4, <1>5, <1>6

LEMMA InsertStep ==
  ASSUME Inv, NEW h \in Holders, NEW key \in Keys, NEW bytes \in Sizes, NEW klass \in Classes,
         Insert(h, key, bytes, klass)
  PROVE  Inv'
<1>1. PICK d, e, new : Inserts(h, key, bytes, klass, d, e, new)
  BY DEF Insert, Install, Inserts
<1>2. /\ Sound(d) /\ Spares(Store, d) /\ Sound(e) /\ Spares(d, e)
      /\ key \notin DOMAIN e.map /\ tick + 1 \notin DOMAIN e.entries
      /\ DOMAIN e.map \subseteq DOMAIN map /\ (\A k \in DOMAIN e.map : e.map[k] = map[k])
      /\ DOMAIN e.entries \subseteq DOMAIN entries
      /\ bytes \in Nat
  BY <1>1, InsertFacts
<1>3. /\ DOMAIN entries' = DOMAIN e.entries \cup {tick + 1} /\ entries'[tick + 1] = new
      /\ \A i \in DOMAIN e.entries : entries'[i] = e.entries[i]
  <2>1. entries' = Put(e.entries, tick + 1, new)
    BY <1>1 DEF Inserts
  <2> QED
    BY <1>2, <2>1 DEF Put
<1>4. /\ map' = Put(e.map, key, tick + 1) /\ entries' = Put(e.entries, tick + 1, new)
      /\ resident' = e.resident + bytes /\ tick < MaxTick /\ tick' = tick + 1
      /\ hold[h] = NoEntry /\ hold' = [hold EXCEPT ![h] = tick + 1]
  BY <1>1 DEF Inserts
<1>5. /\ DOMAIN map' = DOMAIN e.map \cup {key} /\ map'[key] = tick + 1
      /\ \A k \in DOMAIN e.map : map'[k] = e.map[k]
  BY <1>2, <1>4 DEF Put
<1>6. tick + 1 \in 1..MaxTick /\ tick \in Nat
  BY <1>4, InvFacts, KeyedStoreAssumption
<1>7. /\ new \in Entry /\ new.key = key /\ new.bytes = bytes /\ new.recency = tick + 1
      /\ new.pins = 1 /\ ~ new.removed
  <2>1. new = [key |-> key, bytes |-> bytes, klass |-> klass, recency |-> tick + 1,
               pins |-> 1, removed |-> FALSE]
    BY <1>1 DEF Inserts
  <2> QED
    BY <1>6, <2>1 DEF Entry
<1>8. \A i \in DOMAIN e.entries :
        /\ e.entries[i] \in Entry
        /\ e.entries[i].pins = entries[i].pins /\ e.entries[i].recency = entries[i].recency
  BY <1>2 DEF Sound, IsStore, Spares, Store
<1>9. \A i \in DOMAIN entries : entries[i].pins > 0 => i \in DOMAIN e.entries
  <2>1. ASSUME NEW i \in DOMAIN entries, entries[i].pins > 0
        PROVE  i \in DOMAIN e.entries
    <3>1. i \in DOMAIN d.entries
      BY <1>2, <2>1 DEF Spares, Store
    <3>2. d.entries[i].pins > 0
      BY <1>2, <2>1, <3>1 DEF Spares, Store
    <3> QED
      BY <1>2, <3>1, <3>2 DEF Spares
  <2> QED
    BY <2>1
<1>10. PICK f : f = [map |-> map', entries |-> entries', resident |-> resident']
  OBVIOUS
<1>11. IsStore(f)
  <2>1. IsFiniteSet(DOMAIN entries')
    BY <1>2, <1>3, FS_AddElement DEF Sound, IsStore
  <2>2. DOMAIN map' \subseteq Keys
    BY <1>2, <1>5, InvFacts
  <2>3. \A i \in DOMAIN entries' : entries'[i] \in Entry
    BY <1>3, <1>7, <1>8
  <2>4. map' = [k \in DOMAIN map' |-> map'[k]] /\ entries' = [i \in DOMAIN entries' |-> entries'[i]]
    BY <1>4 DEF Put
  <2> QED
    BY <1>10, <2>1, <2>2, <2>3, <2>4 DEF IsStore
<1>12. Placed(f)
  <2>1. /\ \A k \in DOMAIN e.map : /\ e.map[k] \in DOMAIN e.entries
                                   /\ e.entries[e.map[k]].key = k
                                   /\ ~ e.entries[e.map[k]].removed
        /\ \A i \in DOMAIN e.entries :
             ~ e.entries[i].removed => \E k \in DOMAIN e.map : e.map[k] = i
        /\ \A i \in DOMAIN e.entries : e.entries[i].removed => e.entries[i].pins > 0
    BY <1>2 DEF Sound, Placed
  <2>2. \A k \in DOMAIN map' : /\ map'[k] \in DOMAIN entries'
                               /\ entries'[map'[k]].key = k
                               /\ ~ entries'[map'[k]].removed
    <3>1. ASSUME NEW k \in DOMAIN e.map
          PROVE  /\ map'[k] \in DOMAIN entries'
                 /\ entries'[map'[k]].key = k
                 /\ ~ entries'[map'[k]].removed
      BY <1>3, <1>5, <2>1
    <3> QED
      BY <1>3, <1>5, <1>7, <3>1
  <2>3. ASSUME NEW i \in DOMAIN entries', ~ entries'[i].removed
        PROVE  \E k \in DOMAIN map' : map'[k] = i
    <3>1. CASE i = tick + 1
      BY <1>5, <3>1
    <3>2. CASE i \in DOMAIN e.entries
      BY <1>3, <1>5, <2>1, <2>3, <3>2
    <3> QED
      BY <1>3, <3>1, <3>2
  <2>4. \A i \in DOMAIN entries' : entries'[i].removed => entries'[i].pins > 0
    BY <1>3, <1>7, <2>1
  <2> QED
    BY <1>10, <2>2, <2>3, <2>4 DEF Placed
<1>13. Balanced(f)
  <2>1. HasBytes(e.entries) /\ e.resident = Bytes(e.entries, DOMAIN e.entries)
    BY <1>2, SoundHasBytes DEF Sound, Balanced
  <2>2. new.bytes \in Nat
    BY <1>2, <1>7
  <2>3. Bytes(entries', DOMAIN entries') = Bytes(e.entries, DOMAIN e.entries) + new.bytes
    BY <1>2, <1>4, <2>1, <2>2, BytesAdded
  <2> QED
    BY <1>4, <1>7, <1>10, <2>1, <2>3 DEF Balanced
<1>14. RecencyDistinct(entries')
  <2>1. \A i \in DOMAIN e.entries : entries'[i].recency # tick + 1
    BY <1>2, <1>3, <1>6, <1>8 DEF Inv, RecencySoFar, Live, Entry
  <2>2. \A i, j \in DOMAIN e.entries : i # j => e.entries[i].recency # e.entries[j].recency
    BY <1>2 DEF Sound, RecencyDistinct
  <2>3. ASSUME NEW i \in DOMAIN entries', NEW j \in DOMAIN entries', i # j
        PROVE  entries'[i].recency # entries'[j].recency
    <3>1. CASE i = tick + 1 \/ j = tick + 1
      BY <1>3, <1>7, <2>1, <2>3, <3>1
    <3>2. CASE i \in DOMAIN e.entries /\ j \in DOMAIN e.entries
      BY <1>3, <2>2, <2>3, <3>2
    <3> QED
      BY <1>3, <3>1, <3>2
  <2> QED
    BY <2>3 DEF RecencyDistinct
<1>15. Sound(Store)'
  <2>1. Sound(f)
    BY <1>10, <1>11, <1>12, <1>13, <1>14 DEF Sound
  <2>2. f = Store'
    BY <1>10 DEF Store
  <2> QED
    BY <2>1, <2>2
<1>16. PinsExact'
  <2>1. hold \in [Holders -> 0..tick] /\ hold' \in [Holders -> 0..tick + 1]
        /\ \A g \in Holders : hold'[g] = IF g = h THEN tick + 1 ELSE hold[g]
    BY <1>4, <1>6, InvFacts
  <2>2. \A g \in Holders : hold'[g] # NoEntry => hold'[g] \in DOMAIN entries'
    BY <1>3, <1>9, <2>1, HeldIsPinned
  <2>3. ASSUME NEW i \in DOMAIN e.entries
        PROVE  entries'[i].pins = Cardinality({g \in Holders : hold'[g] = i})
    <3>1. i # tick + 1 /\ i # NoEntry /\ i \in DOMAIN entries
      BY <1>2, InvFacts DEF NoEntry
    <3>2. {g \in Holders : hold'[g] = i} = {g \in Holders : hold[g] = i}
      BY <1>4, <2>1, <3>1
    <3> QED
      BY <1>3, <1>8, <3>1, <3>2 DEF Inv, PinsExact, Live
  <2>4. entries'[tick + 1].pins = Cardinality({g \in Holders : hold'[g] = tick + 1})
    <3>1. {g \in Holders : hold'[g] = tick + 1} = {h}
      BY <1>6, <2>1
    <3> QED
      BY <1>3, <1>7, <3>1, FS_Singleton
  <2> QED
    BY <1>3, <2>2, <2>3, <2>4 DEF PinsExact, Live
<1>17. RecencySoFar'
  <2>1. ASSUME NEW i \in DOMAIN e.entries PROVE entries'[i].recency <= tick + 1
    <3>1. entries[i].recency <= tick /\ entries[i].recency \in Nat
      BY <1>2, InvFacts DEF Inv, RecencySoFar, Live, Entry
    <3> QED
      BY <1>3, <1>6, <1>8, <3>1
  <2> QED
    BY <1>3, <1>4, <1>6, <1>7, <2>1 DEF RecencySoFar, Live
<1>18. TypeOK'
  <2>1. tick' \in 0..MaxTick
    BY <1>4, <1>6, KeyedStoreAssumption
  <2>2. resident' \in Int
    <3>1. Bytes(e.entries, DOMAIN e.entries) \in Nat
      BY <1>2, SoundHasBytes, BytesGrow DEF Sound
    <3> QED
      BY <1>2, <1>4, <3>1 DEF Sound, Balanced
  <2>3. 1..tick \subseteq 1..tick' /\ 0..tick \subseteq 0..tick' /\ tick + 1 \in 1..tick'
    BY <1>4, <1>6
  <2>4. DOMAIN map' \subseteq Keys /\ \A k \in DOMAIN map' : map'[k] \in 1..tick'
    BY <1>2, <1>5, <2>3 DEF Inv, TypeOK
  <2>5. DOMAIN entries' \subseteq 1..tick' /\ \A i \in DOMAIN entries' : entries'[i] \in Entry
    BY <1>2, <1>3, <1>7, <1>8, <2>3, InvFacts
  <2>6. hold' \in [Holders -> 0..tick']
    BY <1>4, <1>6, <2>3, InvFacts
  <2> QED
    BY <2>1, <2>2, <2>4, <2>5, <2>6 DEF TypeOK, Live
<1> QED
  BY <1>15, <1>16, <1>17, <1>18 DEF Inv

THEOREM InvStep == Inv /\ [Next]_vars => Inv'
<1> SUFFICES ASSUME Inv, [Next]_vars PROVE Inv'
  OBVIOUS
<1>1. ASSUME NEW h \in Holders, NEW k \in Keys, NEW b \in Sizes, NEW c \in Classes,
             Insert(h, k, b, c)
      PROVE  Inv'
  BY <1>1, InsertStep
<1>2. ASSUME NEW h \in Holders, NEW k \in Keys, Lookup(h, k) PROVE Inv'
  BY <1>2, LookupStep
<1>3. ASSUME NEW h \in Holders, Release(h) PROVE Inv'
  BY <1>3, ReleaseStep
<1>4. ASSUME NEW k \in Keys, NEW c \in Classes, Reclassify(k, c) \/ Prime(k, c) PROVE Inv'
  BY <1>4, ReclassifyStep
<1>5. ASSUME NEW k \in Keys, Remove(k) PROVE Inv'
  <2>1. {k} \in SUBSET DOMAIN map
    BY <1>5 DEF Remove
  <2> QED
    BY <1>5, <2>1, DetachStep DEF Remove
<1>6. ASSUME NEW c \in Contents, InvalidateContent(c) PROVE Inv'
  <2>1. {k \in DOMAIN map : k[1] = c} \in SUBSET DOMAIN map
    OBVIOUS
  <2> QED
    BY <1>6, <2>1, DetachStep DEF InvalidateContent
<1>7. ASSUME NEW c \in Contents, NEW r \in Revisions, DropSuperseded(c, r) PROVE Inv'
  <2>1. {k \in DOMAIN map : k[1] = c /\ k[2] < r} \in SUBSET DOMAIN map
    OBVIOUS
  <2> QED
    BY <1>7, <2>1, DetachStep DEF DropSuperseded
<1>8. CASE UNCHANGED vars
  <2>1. /\ map' = map /\ entries' = entries /\ resident' = resident /\ tick' = tick /\ hold' = hold
    BY <1>8 DEF vars
  <2>2. Sound(Store)'
    <3>1. Store' = Store
      BY <2>1 DEF Store
    <3> QED
      BY <3>1 DEF Inv
  <2> QED
    BY <2>1, <2>2 DEF Inv, TypeOK, RecencySoFar, PinsExact, Live
<1> QED
  BY <1>1, <1>2, <1>3, <1>4, <1>5, <1>6, <1>7, <1>8 DEF Next

\* The books on the variables are those of the store.
LEMMA InvImpliesAccounted == Inv => Accounted
<1> SUFFICES ASSUME Inv PROVE Accounted
  OBVIOUS
<1>1. BytesAccounted
  BY DEF Inv, Sound, Balanced, Store, BytesAccounted, Live
<1>2. EntriesPlaced
  <2>1. /\ \A k \in DOMAIN map : /\ map[k] \in DOMAIN entries
                                 /\ entries[map[k]].key = k
                                 /\ ~ entries[map[k]].removed
        /\ \A i \in DOMAIN entries :
             ~ entries[i].removed => \E k \in DOMAIN map : map[k] = i
        /\ \A i \in DOMAIN entries : entries[i].removed => entries[i].pins > 0
    BY DEF Inv, Sound, Placed, Store
  <2>2. Mapped \cap Orphans = {}
    BY <2>1 DEF Mapped, Orphans, Live
  <2>4. Mapped \cup Orphans = Live
    <3>1. Mapped \cup Orphans \subseteq Live
      BY <2>1 DEF Mapped, Orphans, Live
    <3>2. ASSUME NEW i \in Live PROVE i \in Mapped \cup Orphans
      <4>1. CASE entries[i].removed
        BY <4>1 DEF Orphans
      <4>2. CASE ~ entries[i].removed
        BY <2>1, <4>2 DEF Mapped, Live
      <4> QED
        BY <4>1, <4>2
    <3> QED
      BY <3>1, <3>2
  <2> QED
    BY <2>1, <2>2, <2>4 DEF EntriesPlaced, Orphans, Live
<1> QED
  BY <1>1, <1>2 DEF Inv, Accounted

(***************************************************************************)
(* d_resident, d_map, the orphan list, the pin counts and the holds agree  *)
(* at every moment, for every mix of operations of the cache and every set *)
(* of sizes: no byte is counted twice or freed uncounted, and no hold      *)
(* dangles.                                                                *)
(***************************************************************************)
THEOREM BooksBalance == Spec => []Accounted
<1>1. Inv => Accounted
  BY InvImpliesAccounted
<1> QED
  BY <1>1, InvInit, InvStep, PTL DEF Spec

\* An insert is the only step that both moves the clock and adds the entry.
LEMMA OnlyInsertAdds ==
  ASSUME Inv, [Next]_vars, tick' > tick
  PROVE  \/ \E h \in Holders, k \in Keys, b \in Sizes, c \in Classes : Insert(h, k, b, c)
         \/ DOMAIN entries' = DOMAIN entries
<1>1. ASSUME NEW h \in Holders, NEW k \in Keys, Lookup(h, k)
      PROVE  DOMAIN entries' = DOMAIN entries
  BY <1>1, InvFacts DEF Lookup
<1>2. ASSUME NEW k \in Keys, NEW c \in Classes, Reclassify(k, c) \/ Prime(k, c)
      PROVE  DOMAIN entries' = DOMAIN entries
  BY <1>2, InvFacts DEF Reclassify, Prime
<1>3. ASSUME tick' = tick PROVE FALSE
  BY <1>3, InvFacts
<1> QED
  BY <1>1, <1>2, <1>3 DEF Next, Release, Remove, InvalidateContent, DropSuperseded, vars

(***************************************************************************)
(* evict_to_fit leaves the store over its budget only when every entry but *)
(* the new one is pinned: the walk never stops early at a pinned entry.    *)
(***************************************************************************)
THEOREM BudgetHolds == Spec => OverBudgetOnlyPinned
<1> DEFINE Fits == \/ resident' <= Budget
                   \/ \A i \in DOMAIN entries' : entries'[i].pins > 0
<1>1. ASSUME Inv, [Next]_vars, tick' > tick, tick' \in DOMAIN entries'
      PROVE  Fits
  <2>1. DOMAIN entries' # DOMAIN entries
    BY <1>1, InvFacts
  <2>2. PICK h \in Holders, key \in Keys, bytes \in Sizes, klass \in Classes :
          Insert(h, key, bytes, klass)
    BY <1>1, <2>1, OnlyInsertAdds
  <2>3. PICK d, e, new : Inserts(h, key, bytes, klass, d, e, new)
    BY <2>2 DEF Insert, Install, Inserts
  <2>4. /\ Sound(d) /\ Sound(e) /\ tick + 1 \notin DOMAIN e.entries /\ bytes \in Nat
    BY <1>1, <2>3, InsertFacts
  <2>5. e = EvictToFit(d, bytes) /\ resident' = e.resident + bytes
        /\ entries' = Put(e.entries, tick + 1, new) /\ new.pins = 1
    BY <2>3 DEF Inserts
  <2>6. \/ e.resident + bytes <= Budget
        \/ \A i \in DOMAIN e.entries : e.entries[i].pins > 0
    BY <2>4, <2>5, EvictSound
  <2>7. /\ DOMAIN entries' = DOMAIN e.entries \cup {tick + 1} /\ entries'[tick + 1] = new
        /\ \A i \in DOMAIN e.entries : entries'[i] = e.entries[i]
    BY <2>4, <2>5 DEF Put
  <2> QED
    BY <2>5, <2>6, <2>7
<1>2. Inv /\ [Next]_vars => [tick' > tick /\ tick' \in DOMAIN entries' => Fits]_vars
  BY <1>1
<1> QED
  BY <1>2, InvInit, InvStep, PTL DEF Spec, OverBudgetOnlyPinned

(***************************************************************************)
(* What pick_victim chooses is of no higher class than anything unpinned   *)
(* that stays, and in one class it is the one used longest ago.            *)
(***************************************************************************)
THEOREM EvictionInOrder == Spec => EvictsInOrder
<1> DEFINE Ordered(i, j) == /\ entries[i].klass <= entries[j].klass
                            /\ entries[i].klass = entries[j].klass
                                 => entries[i].recency < entries[j].recency
<1>1. ASSUME Inv, [Next]_vars, NEW i \in Live \ DOMAIN entries', NEW j \in Mapped, tick' > tick,
             i \in Mapped, j \in DOMAIN entries', entries[j].pins = 0,
             entries[i].key # entries'[tick'].key
      PROVE  Ordered(i, j)
  <2>1. i \in DOMAIN entries /\ DOMAIN entries' # DOMAIN entries
    BY <1>1 DEF Live
  <2>2. PICK h \in Holders, key \in Keys, bytes \in Sizes, klass \in Classes :
          Insert(h, key, bytes, klass)
    BY <1>1, <2>1, OnlyInsertAdds
  <2>3. PICK d, e, new : Inserts(h, key, bytes, klass, d, e, new)
    BY <2>2 DEF Insert, Install, Inserts
  <2>4. /\ Sound(d) /\ Spares(Store, d) /\ Sound(e) /\ tick + 1 \notin DOMAIN e.entries
        /\ bytes \in Nat
    BY <1>1, <2>3, InsertFacts
  <2>5. /\ d = Detach({key} \cap DOMAIN map) /\ e = EvictToFit(d, bytes)
        /\ entries' = Put(e.entries, tick + 1, new) /\ new.key = key /\ tick' = tick + 1
    BY <2>3 DEF Inserts
  <2>6. /\ DOMAIN entries' = DOMAIN e.entries \cup {tick + 1} /\ entries'[tick + 1] = new
        /\ \A n \in DOMAIN e.entries : entries'[n] = e.entries[n]
    BY <2>4, <2>5 DEF Put
  <2>7. j \in DOMAIN entries /\ j \in DOMAIN e.entries
    <3>1. j \in DOMAIN entries
      BY <1>1, InvFacts DEF Mapped
    <3> QED
      BY <1>1, <2>6, <3>1, InvFacts
  <2>8. i \in DOMAIN d.entries
    <3>1. PICK ids : ids = {map[k] : k \in {key} \cap DOMAIN map}
      OBVIOUS
    <3>2. i \notin ids
      BY <1>1, <2>5, <2>6, <3>1, InvFacts
    <3>3. DOMAIN d.entries = DOMAIN entries \ {n \in ids : entries[n].pins = 0}
      BY <2>5, <3>1 DEF Detach
    <3> QED
      BY <2>1, <3>2, <3>3
  <2>9. i \notin DOMAIN e.entries
    BY <1>1, <2>6
  <2>10. j \in DOMAIN d.entries
    BY <2>4, <2>5, <2>7, EvictSound DEF Spares
  <2>11. /\ d.entries[i].klass = entries[i].klass /\ d.entries[i].recency = entries[i].recency
         /\ d.entries[j].klass = entries[j].klass /\ d.entries[j].recency = entries[j].recency
         /\ d.entries[j].pins = 0
    BY <1>1, <2>4, <2>8, <2>10 DEF Spares, Store
  <2>12. Before(d.entries[i], d.entries[j])
    BY <2>4, <2>5, <2>7, <2>8, <2>9, <2>11, EvictSound
  <2>13. d.entries[i] \in Entry /\ d.entries[j] \in Entry
    BY <2>4, <2>8, <2>10 DEF Sound, IsStore
  <2> QED
    BY <2>11, <2>12, <2>13, BeforeIsOrder
<1>2. Inv /\ [Next]_vars =>
        [\A i \in Live \ DOMAIN entries', j \in Mapped :
           (tick' > tick /\ i \in Mapped /\ j \in DOMAIN entries' /\ entries[j].pins = 0
              /\ entries[i].key # entries'[tick'].key)
           => Ordered(i, j)]_vars
  BY <1>1
<1> QED
  BY <1>2, InvInit, InvStep, PTL DEF Spec, EvictsInOrder
=============================================================================
