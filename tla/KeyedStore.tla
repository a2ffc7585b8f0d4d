----------------------------- MODULE KeyedStore -----------------------------
(***************************************************************************)
(* The budgeted cache under the tile and the audio block caches: entries   *)
(* pinned by holds, classes of eviction priority, least recently used      *)
(* first within a class, and entries that leave the map while a hold still *)
(* reads them (orphans).  Single threaded, like the class.                 *)
(***************************************************************************)
EXTENDS Integers, FiniteSets, Containers

CONSTANTS
    Contents, Revisions, \* a key is a content at a revision
    Classes,        \* priority classes, the least valuable lowest
    Sizes,          \* byte costs an entry may have
    Holders,        \* the readers; each keeps at most one hold
    Budget,
    MaxTick         \* bound on the recency clock

ASSUME KeyedStoreAssumption ==
    /\ Sizes \subseteq Nat
    /\ Classes \subseteq Nat
    /\ Revisions \subseteq Nat
    /\ Budget \in Nat
    /\ MaxTick \in Nat
    /\ IsFiniteSet(Holders)

VARIABLES
    map,       \* d_map: key -> the id of its entry
    entries,   \* every live entry, the mapped ones and the orphans, by id
    resident,  \* d_resident
    tick,      \* d_tick
    hold       \* the entry each holder pins, or 0

vars == <<map, entries, resident, tick, hold>>

Keys    == Contents \X Revisions
NoEntry == 0         \* ids are ticks, which start at 1
Entry   == [key : Keys, bytes : Sizes, klass : Classes, recency : 1..MaxTick,
            pins : Nat, removed : BOOLEAN]

Bytes(es, S) == SumFunctionOnSet([i \in DOMAIN es |-> es[i].bytes], S)

\* Mutant: the bytes of an orphan are given back while a hold keeps it alive.
Detach_Uncounted(S) ==
    LET ids == {map[k] : k \in S}
    IN  [map      |-> Drop(map, S),
         entries  |-> [i \in DOMAIN entries \ {j \in ids : entries[j].pins = 0} |->
                         IF i \in ids THEN [entries[i] EXCEPT !.removed = TRUE] ELSE entries[i]],
         resident |-> resident - Bytes(entries, ids)]

\* detach: out of the map; gone at once, or an orphan while a hold pins it.
Detach(S) ==
    LET ids == {map[k] : k \in S}
    IN  [map      |-> Drop(map, S),
         entries  |-> [i \in DOMAIN entries \ {j \in ids : entries[j].pins = 0} |->
                         IF i \in ids THEN [entries[i] EXCEPT !.removed = TRUE] ELSE entries[i]],
         resident |-> resident - Bytes(entries, {j \in ids : entries[j].pins = 0})]

\* Mutant: the class counts only between entries of the same age.
Before_RecencyFirst(a, b) == a.recency < b.recency

\* pick_victim's order: lowest class first, then least recently used.
Before(a, b) == \/ a.klass < b.klass
                \/ a.klass = b.klass /\ a.recency < b.recency

\* Mutant: room is made for what is there, not for what comes.
EvictToFit_NoIncoming(d, incoming) ==
    LET free    == {k \in DOMAIN d.map : d.entries[d.map[k]].pins = 0}
        ahead(k) == {d.map[j] : j \in {f \in free : Before(d.entries[d.map[f]], d.entries[d.map[k]])}}
        victims == {k \in free : d.resident - Bytes(d.entries, ahead(k)) > Budget}
        ids     == {d.map[k] : k \in victims}
    IN  [map      |-> Drop(d.map, victims),
         entries  |-> Drop(d.entries, ids),
         resident |-> d.resident - Bytes(d.entries, ids)]

\* evict_to_fit: victims leave in that order while the incoming bytes do not
\* fit, so one leaves when what is left without its predecessors is too much.
EvictToFit(d, incoming) ==
    LET free    == {k \in DOMAIN d.map : d.entries[d.map[k]].pins = 0}
        ahead(k) == {d.map[j] : j \in {f \in free : Before(d.entries[d.map[f]], d.entries[d.map[k]])}}
        victims == {k \in free : d.resident - Bytes(d.entries, ahead(k)) + incoming > Budget}
        ids     == {d.map[k] : k \in victims}
    IN  [map      |-> Drop(d.map, victims),
         entries  |-> Drop(d.entries, ids),
         resident |-> d.resident - Bytes(d.entries, ids)]

Install(d) == /\ map' = d.map
              /\ entries' = d.entries
              /\ resident' = d.resident

\* insert: replace, make room, and hand the new entry's hold to h.
Insert(h, key, bytes, klass) ==
    /\ hold[h] = NoEntry
    /\ tick < MaxTick
    /\ tick' = tick + 1
    /\ LET out == EvictToFit(Detach({key} \cap DOMAIN map), bytes)
           new == [key |-> key, bytes |-> bytes, klass |-> klass, recency |-> tick + 1,
                   pins |-> 1, removed |-> FALSE]
       IN  Install([map      |-> Put(out.map, key, tick + 1),
                    entries  |-> Put(out.entries, tick + 1, new),
                    resident |-> out.resident + bytes])
    /\ hold' = [hold EXCEPT ![h] = tick + 1]

\* lookup: a hit moves to the front and pins.
Lookup(h, key) ==
    /\ hold[h] = NoEntry
    /\ key \in DOMAIN map
    /\ tick < MaxTick
    /\ tick' = tick + 1
    /\ entries' = [entries EXCEPT ![map[key]].recency = tick + 1, ![map[key]].pins = @ + 1]
    /\ hold' = [hold EXCEPT ![h] = map[key]]
    /\ UNCHANGED <<map, resident>>

\* unpin: the last hold of an orphan frees it.
Release(h) ==
    /\ hold[h] # NoEntry
    /\ LET e    == entries[hold[h]]
           free == e.pins = 1 /\ e.removed
       IN  /\ entries' = IF free THEN Drop(entries, {hold[h]})
                         ELSE [entries EXCEPT ![hold[h]].pins = @ - 1]
           /\ resident' = IF free THEN resident - e.bytes ELSE resident
    /\ hold' = [hold EXCEPT ![h] = NoEntry]
    /\ UNCHANGED <<map, tick>>

Reclassify(key, klass) ==
    /\ key \in DOMAIN map
    /\ entries' = [entries EXCEPT ![map[key]].klass = klass]
    /\ UNCHANGED <<map, resident, tick, hold>>

\* prime_ring on one key of a prefetch ring: a lookup whose hold is dropped
\* at once, and a reclassification.
Prime(key, klass) ==
    /\ key \in DOMAIN map
    /\ tick < MaxTick
    /\ tick' = tick + 1
    /\ entries' = [entries EXCEPT ![map[key]].recency = tick + 1, ![map[key]].klass = klass]
    /\ UNCHANGED <<map, resident, hold>>

Remove(key) ==
    /\ key \in DOMAIN map
    /\ Install(Detach({key}))
    /\ UNCHANGED <<tick, hold>>

\* invalidate_content, and invalidate_region over a content's tiles.
InvalidateContent(c) ==
    /\ Install(Detach({k \in DOMAIN map : k[1] = c}))
    /\ UNCHANGED <<tick, hold>>

DropSuperseded(c, live) ==
    /\ Install(Detach({k \in DOMAIN map : k[1] = c /\ k[2] < live}))
    /\ UNCHANGED <<tick, hold>>

-----------------------------------------------------------------------------

Init ==
    /\ map = <<>>
    /\ entries = <<>>
    /\ resident = 0
    /\ tick = 0
    /\ hold = [h \in Holders |-> NoEntry]

Next ==
    \/ \E h \in Holders, k \in Keys, b \in Sizes, c \in Classes : Insert(h, k, b, c)
    \/ \E h \in Holders, k \in Keys : Lookup(h, k)
    \/ \E h \in Holders : Release(h)
    \/ \E k \in Keys, c \in Classes : Reclassify(k, c) \/ Prime(k, c)
    \/ \E k \in Keys : Remove(k)
    \/ \E c \in Contents : InvalidateContent(c)
    \/ \E c \in Contents, r \in Revisions : DropSuperseded(c, r)

Spec == Init /\ [][Next]_vars

-----------------------------------------------------------------------------

Live    == DOMAIN entries
Mapped  == {map[k] : k \in DOMAIN map}
Orphans == {i \in Live : entries[i].removed}

TypeOK ==
    /\ tick \in 0..MaxTick
    /\ resident \in Int
    /\ DOMAIN map \subseteq Keys /\ \A k \in DOMAIN map : map[k] \in 1..tick
    /\ DOMAIN entries \subseteq 1..tick /\ \A i \in Live : entries[i] \in Entry
    /\ hold \in [Holders -> 0..tick]

\* d_resident is the bytes of every live entry, the orphans that a hold keeps
\* alive included: nothing is counted twice, and nothing is freed uncounted.
BytesAccounted == resident = Bytes(entries, Live)

\* The map and the orphan list partition the live entries, a mapped entry is
\* filed under its own key, and an orphan is held by someone: no entry leaks.
EntriesPlaced ==
    /\ Mapped \cap Orphans = {} /\ Mapped \cup Orphans = Live
    /\ \A k \in DOMAIN map : entries[map[k]].key = k
    /\ \A i \in Orphans : entries[i].pins > 0

\* An entry's pin count is the number of holds on it, and a hold never
\* dangles: eviction, removal and replacement leave what is being read alone.
PinsExact ==
    /\ \A h \in Holders : hold[h] # NoEntry => hold[h] \in Live
    /\ \A i \in Live : entries[i].pins = Cardinality({h \in Holders : hold[h] = i})

\* The books of the store agree: the resident bytes with the live entries, the
\* map and the orphans with each other, the pin counts with the holds, through
\* every mix of inserts, replacements, removals, evictions and late releases.
Accounted == TypeOK /\ BytesAccounted /\ EntriesPlaced /\ PinsExact


\* An insert that leaves the store over its budget found nothing it could
\* evict: every other entry is pinned.
OverBudgetOnlyPinned ==
    [][tick' > tick /\ tick' \in DOMAIN entries' =>
         \/ resident' <= Budget
         \/ \A i \in DOMAIN entries' : entries'[i].pins > 0]_vars

\* What an insert evicts is never more valuable than an unpinned entry that
\* it leaves in the map: an entry of a lower class goes first, and in one class
\* the one that was looked up or inserted longer ago.
EvictsInOrder ==
    [][\A i \in Live \ DOMAIN entries', j \in Mapped :
         (tick' > tick /\ i \in Mapped /\ j \in DOMAIN entries' /\ entries[j].pins = 0
            /\ entries[i].key # entries'[tick'].key)
         => /\ entries[i].klass <= entries[j].klass
            /\ entries[i].klass = entries[j].klass => entries[i].recency < entries[j].recency]_vars

=============================================================================
