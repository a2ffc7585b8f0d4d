---------------------------- MODULE JournalProofs ----------------------------
(***************************************************************************)
(* Theorems about the edit history.  The cost is accounted for whatever    *)
(* the host does; stamps identify records as long as it does not undo with *)
(* a transaction open; and navigation finds the published documents as     *)
(* long as, besides, lowering the budget trims nothing that is undone.     *)
(***************************************************************************)
EXTENDS Journal, CollectionTheorems

(***************************************************************************)
(* Costs.                                                                  *)
(***************************************************************************)
Costs(es) == [i \in 1 .. Len(es) |-> es[i].cost]

LEMMA CostIsSum ==
  ASSUME NEW es \in Seq(JournalEntry)
  PROVE  /\ Len(es) \in Nat /\ IsFiniteSet(1 .. Len(es))
         /\ \A i \in 1 .. Len(es) : Costs(es)[i] \in Nat /\ Costs(es)[i] = es[i].cost
         /\ CostOf(es) = SumFunctionOnSet(Costs(es), 1 .. Len(es))
         /\ CostOf(es) \in Nat
<1>1. Len(es) \in Nat /\ DOMAIN es = 1 .. Len(es) /\ \A i \in 1 .. Len(es) : es[i] \in JournalEntry
  BY LenProperties
<1>2. IsFiniteSet(1 .. Len(es))
  BY <1>1, FS_Interval
<1>3. \A i \in 1 .. Len(es) : Costs(es)[i] \in Nat /\ Costs(es)[i] = es[i].cost
  BY <1>1 DEF Costs, JournalEntry
<1>4. [i \in DOMAIN es |-> es[i].cost] = Costs(es) /\ DOMAIN Costs(es) = 1 .. Len(es)
  BY <1>1 DEF Costs
<1>5. CostOf(es) = SumFunctionOnSet(Costs(es), 1 .. Len(es))
  BY <1>4 DEF CostOf, SumFunction
<1>6. SumFunctionOnSet(Costs(es), 1 .. Len(es)) \in Nat
  BY <1>2, <1>3, SumNat
<1> QED
  BY <1>1, <1>2, <1>3, <1>5, <1>6

\* The cost of a list is that of its first k entries and of the rest.
LEMMA CostSplit ==
  ASSUME NEW es \in Seq(JournalEntry), NEW k \in 0 .. Len(es)
  PROVE  /\ SubSeq(es, 1, k) \in Seq(JournalEntry) /\ Len(SubSeq(es, 1, k)) = k
         /\ SubSeq(es, k + 1, Len(es)) \in Seq(JournalEntry)
         /\ Len(SubSeq(es, k + 1, Len(es))) = Len(es) - k
         /\ CostOf(es) = CostOf(SubSeq(es, 1, k)) + CostOf(SubSeq(es, k + 1, Len(es)))
<1>1. Len(es) \in Nat /\ k \in Nat /\ k <= Len(es)
  BY LenProperties
<1>2. PICK n \in Nat : n = Len(es) - k
  BY <1>1
<1>3. PICK p : p = SubSeq(es, 1, k)
  OBVIOUS
<1>4. PICK r : r = SubSeq(es, k + 1, Len(es))
  OBVIOUS
<1>5. p \in Seq(JournalEntry) /\ Len(p) = k /\ \A i \in 1 .. k : p[i] = es[i]
  <2>1. \A i \in 1 .. k : es[i] \in JournalEntry
    BY <1>1, LenProperties
  <2> QED
    BY <1>1, <1>3, <2>1, SubSeqProperties
<1>6. r \in Seq(JournalEntry) /\ Len(r) = n /\ \A i \in 1 .. n : r[i] = es[k + i]
  <2>1. k + 1 \in 1 .. Len(es) + 1 /\ Len(es) \in k .. Len(es)
    BY <1>1
  <2>2. Len(r) = n /\ r \in Seq(JournalEntry)
    BY <1>1, <1>2, <1>4, <2>1, SubSeqProperties
  <2>3. ASSUME NEW i \in 1 .. n PROVE r[i] = es[k + i]
    <3>1. i \in 1 .. Len(es) - (k + 1) + 1
      BY <1>1, <1>2
    <3>2. SubSeq(es, k + 1, Len(es))[i] = es[(k + 1) + i - 1]
      BY <1>1, <2>1, <3>1, SubSeqProperties
    <3>3. (k + 1) + i - 1 = k + i
      BY <1>1
    <3> QED
      BY <1>4, <3>2, <3>3
  <2> QED
    BY <2>2, <2>3
<1>7. PICK f : f = Costs(es)
  OBVIOUS
<1>8. /\ \A i \in 1 .. Len(es) : f[i] \in Nat /\ f[i] \in Int /\ f[i] = es[i].cost
      /\ IsFiniteSet(1 .. Len(es))
      /\ CostOf(es) = SumFunctionOnSet(f, 1 .. Len(es))
  BY <1>7, CostIsSum
<1>9. CostOf(p) = SumFunctionOnSet(f, 1 .. k)
  <2>1. PICK g : g = Costs(p)
    OBVIOUS
  <2>2. /\ \A i \in 1 .. k : g[i] \in Int /\ g[i] = p[i].cost
        /\ IsFiniteSet(1 .. k) /\ CostOf(p) = SumFunctionOnSet(g, 1 .. k)
    <3>1. /\ \A i \in 1 .. Len(p) : g[i] \in Nat /\ g[i] = p[i].cost
          /\ IsFiniteSet(1 .. Len(p)) /\ CostOf(p) = SumFunctionOnSet(g, 1 .. Len(p))
      BY <1>5, <2>1, CostIsSum
    <3> QED
      BY <1>5, <3>1
  <2>3. \A i \in 1 .. k : g[i] \in Int /\ g[i] = f[i]
    BY <1>1, <1>5, <1>8, <2>2
  <2>4. SumFunctionOnSet(g, 1 .. k) = SumFunctionOnSet(f, 1 .. k)
    BY <2>2, <2>3, SumSame
  <2> QED
    BY <2>2, <2>4
<1>10. CostOf(r) = SumFunctionOnSet(f, k + 1 .. Len(es))
  <2>1. PICK g : g = Costs(r)
    OBVIOUS
  <2>2. /\ \A i \in 1 .. n : g[i] \in Int /\ g[i] = r[i].cost
        /\ CostOf(r) = SumFunctionOnSet(g, 1 .. n)
    <3>1. /\ \A i \in 1 .. Len(r) : g[i] \in Nat /\ g[i] = r[i].cost
          /\ CostOf(r) = SumFunctionOnSet(g, 1 .. Len(r))
      BY <1>6, <2>1, CostIsSum
    <3> QED
      BY <1>6, <3>1
  <2>3. \A i \in 1 .. n : f[k + i] \in Int /\ g[i] = f[k + i]
    <3> SUFFICES ASSUME NEW i \in 1 .. n PROVE f[k + i] \in Int /\ g[i] = f[k + i]
      OBVIOUS
    <3>1. k + i \in 1 .. Len(es)
      BY <1>1, <1>2
    <3> QED
      BY <1>6, <1>8, <2>2, <3>1
  <2>4. SumFunctionOnSet(f, k + 1 .. k + n) = SumFunctionOnSet(g, 1 .. n)
    BY <1>1, <2>3, SumShift DEF Shifted
  <2>5. k + n = Len(es)
    BY <1>1, <1>2
  <2> QED
    BY <2>2, <2>4, <2>5
<1>11. SumFunctionOnSet(f, 1 .. Len(es)) = SumFunctionOnSet(f, 1 .. k) + SumFunctionOnSet(f, k + 1 .. Len(es))
  <2>1. PICK S, T : S = 1 .. Len(es) /\ T = 1 .. k
    OBVIOUS
  <2>2. T \in SUBSET S /\ S \ T = k + 1 .. Len(es)
    BY <1>1, <2>1
  <2>3. IsFiniteSet(S) /\ \A i \in S : f[i] \in Int
    BY <1>8, <2>1
  <2>4. SumFunctionOnSet(f, S) = SumFunctionOnSet(f, T) + SumFunctionOnSet(f, S \ T)
    BY <2>2, <2>3, SumSplit
  <2> QED
    BY <2>1, <2>2, <2>4
<1> QED
  BY <1>2, <1>3, <1>4, <1>5, <1>6, <1>8, <1>9, <1>10, <1>11

LEMMA CostAppend ==
  ASSUME NEW es \in Seq(JournalEntry), NEW e \in JournalEntry
  PROVE  /\ Append(es, e) \in Seq(JournalEntry) /\ Len(Append(es, e)) = Len(es) + 1
         /\ CostOf(Append(es, e)) = CostOf(es) + e.cost
<1>1. PICK n \in Nat : n = Len(es)
  BY LenProperties
<1>2. PICK fs : fs = Append(es, e)
  OBVIOUS
<1>3. /\ fs \in Seq(JournalEntry) /\ Len(fs) = n + 1 /\ fs[n + 1] = e
      /\ \A i \in 1 .. n : fs[i] = es[i]
  BY <1>1, <1>2, AppendProperties
<1>4. PICK f : f = Costs(fs)
  OBVIOUS
<1>5. PICK g : g = Costs(es)
  OBVIOUS
<1>6. /\ \A i \in 1 .. n + 1 : f[i] \in Int /\ f[i] = fs[i].cost
      /\ CostOf(fs) = SumFunctionOnSet(f, 1 .. n + 1)
  <2>1. /\ \A i \in 1 .. Len(fs) : f[i] \in Nat /\ f[i] = fs[i].cost
        /\ CostOf(fs) = SumFunctionOnSet(f, 1 .. Len(fs))
    BY <1>3, <1>4, CostIsSum
  <2> QED
    BY <1>3, <2>1
<1>7. /\ \A i \in 1 .. n : g[i] \in Int /\ g[i] = es[i].cost
      /\ CostOf(es) = SumFunctionOnSet(g, 1 .. n) /\ IsFiniteSet(1 .. n)
  <2>1. /\ \A i \in 1 .. Len(es) : g[i] \in Nat /\ g[i] = es[i].cost
        /\ CostOf(es) = SumFunctionOnSet(g, 1 .. Len(es)) /\ IsFiniteSet(1 .. Len(es))
    BY <1>5, CostIsSum
  <2> QED
    BY <1>1, <2>1
<1>8. SumFunctionOnSet(f, 1 .. n + 1) = SumFunctionOnSet(f, 1 .. n) + f[n + 1]
  <2>1. PICK a \in Int, b \in Int, c \in Int : a = 1 /\ b = n /\ c = n + 1
    OBVIOUS
  <2>2. c = b + 1 /\ a <= c
    BY <2>1
  <2>3. \A y \in a .. c : f[y] \in Int
    BY <1>6, <2>1
  <2>4. SumFunctionOnSet(f, a .. c) = SumFunctionOnSet(f, a .. b) + f[c]
    BY <2>2, <2>3, SumNext
  <2> QED
    BY <2>1, <2>4
<1>9. SumFunctionOnSet(g, 1 .. n) = SumFunctionOnSet(f, 1 .. n)
  <2>1. \A i \in 1 .. n : g[i] \in Int /\ g[i] = f[i]
    BY <1>3, <1>6, <1>7
  <2> QED
    BY <1>7, <2>1, SumSame
<1>10. f[n + 1] = e.cost
  BY <1>3, <1>6
<1> QED
  BY <1>1, <1>2, <1>3, <1>6, <1>7, <1>8, <1>9, <1>10

\* The tip of a list is replaced.
LEMMA CostTip ==
  ASSUME NEW es \in Seq(JournalEntry), es # <<>>, NEW e \in JournalEntry
  PROVE  /\ Len(es) \in Nat /\ Len(es) >= 1 /\ es[Len(es)] \in JournalEntry
         /\ [es EXCEPT ![Len(es)] = e] \in Seq(JournalEntry)
         /\ Len([es EXCEPT ![Len(es)] = e]) = Len(es)
         /\ CostOf([es EXCEPT ![Len(es)] = e]) = CostOf(es) - es[Len(es)].cost + e.cost
<1>1. PICK n \in Nat : n = Len(es)
  BY LenProperties
<1>2. n >= 1 /\ n \in 1 .. n
  BY <1>1, EmptySeq
<1>3. es[n] \in JournalEntry /\ DOMAIN es = 1 .. n
  BY <1>1, <1>2, LenProperties
<1>4. PICK fs : fs = [es EXCEPT ![n] = e]
  OBVIOUS
<1>5. fs \in Seq(JournalEntry) /\ Len(fs) = n /\ fs[n] = e /\ \A i \in 1 .. n : i # n => fs[i] = es[i]
  BY <1>1, <1>2, <1>3, <1>4, ExceptSeq
<1>6. PICK f : f = Costs(fs)
  OBVIOUS
<1>7. PICK g : g = Costs(es)
  OBVIOUS
<1>8. PICK S, T : S = 1 .. n /\ T = S \ {n}
  OBVIOUS
<1>9. /\ \A i \in S : f[i] \in Int /\ f[i] = fs[i].cost
      /\ CostOf(fs) = SumFunctionOnSet(f, S)
  <2>1. /\ \A i \in 1 .. Len(fs) : f[i] \in Nat /\ f[i] = fs[i].cost
        /\ CostOf(fs) = SumFunctionOnSet(f, 1 .. Len(fs))
    BY <1>5, <1>6, CostIsSum
  <2> QED
    BY <1>5, <1>8, <2>1
<1>10. /\ \A i \in S : g[i] \in Int /\ g[i] = es[i].cost
       /\ CostOf(es) = SumFunctionOnSet(g, S) /\ IsFiniteSet(S)
  <2>1. /\ \A i \in 1 .. Len(es) : g[i] \in Nat /\ g[i] = es[i].cost
        /\ CostOf(es) = SumFunctionOnSet(g, 1 .. Len(es)) /\ IsFiniteSet(1 .. Len(es))
    BY <1>7, CostIsSum
  <2> QED
    BY <1>1, <1>8, <2>1
<1>11. n \in S /\ IsFiniteSet(T) /\ T \subseteq S
  BY <1>2, <1>8, <1>10, FS_Subset
<1>12. SumFunctionOnSet(f, S) = f[n] + SumFunctionOnSet(f, T)
  <2>1. \A x \in S : f[x] \in Int
    BY <1>9
  <2> QED
    BY <1>8, <1>10, <1>11, <2>1, SumRemove
<1>13. SumFunctionOnSet(g, S) = g[n] + SumFunctionOnSet(g, T) /\ SumFunctionOnSet(g, T) \in Int
  <2>1. \A x \in S : g[x] \in Int
    BY <1>10
  <2>2. \A x \in T : g[x] \in Int
    BY <2>1, <1>11
  <2> QED
    BY <1>8, <1>10, <1>11, <2>1, <2>2, SumRemove
<1>14. SumFunctionOnSet(g, T) = SumFunctionOnSet(f, T)
  <2>1. \A x \in T : g[x] \in Int /\ g[x] = f[x]
    BY <1>5, <1>8, <1>9, <1>10
  <2> QED
    BY <1>11, <2>1, SumSame
<1>15. f[n] = e.cost /\ g[n] = es[n].cost /\ e.cost \in Nat /\ es[n].cost \in Nat
  BY <1>3, <1>5, <1>9, <1>10, <1>11 DEF JournalEntry
<1> QED
  BY <1>1, <1>2, <1>3, <1>4, <1>5, <1>9, <1>10, <1>12, <1>13, <1>14, <1>15

(***************************************************************************)
(* Trimming.                                                               *)
(***************************************************************************)
LEMMA TrimmedFits ==
  ASSUME NEW es \in Seq(JournalEntry), NEW c \in Int, NEW b \in Nat, NEW k, k = Trimmed(es, c, b)
  PROVE  /\ k \in 0 .. Len(es)
         /\ es = <<>> => k = 0
         /\ es # <<>> => /\ k < Len(es)
                         /\ k = Len(es) - 1 \/ c - CostOf(SubSeq(es, 1, k)) <= b
<1>1. Len(es) \in Nat /\ (es # <<>> => Len(es) >= 1)
  BY LenProperties, EmptySeq
<1>2. ASSUME es # <<>>
      PROVE  k \in 0 .. Len(es) - 1 /\ (k = Len(es) - 1 \/ c - CostOf(SubSeq(es, 1, k)) <= b)
  <2> DEFINE Fits == {j \in 0 .. Len(es) - 1 :
                        j = Len(es) - 1 \/ c - CostOf(SubSeq(es, 1, j)) <= b}
  <2>1. k = Min(Fits)
    BY <1>2 DEF Trimmed
  <2>2. Len(es) - 1 \in Fits
    BY <1>1, <1>2
  <2>3. Fits \in SUBSET Nat
    BY <1>1
  <2>4. PICK F : F = Fits
    OBVIOUS
  <2>5. \E x \in F : \A y \in F : x <= y
    BY <2>2, <2>3, <2>4, LeastAndGreatest
  <2>6. Min(F) \in F
    BY <2>5 DEF Min
  <2> QED
    BY <2>1, <2>4, <2>6
<1>3. ASSUME es = <<>> PROVE k = 0
  BY <1>3 DEF Trimmed
<1> QED
  BY <1>1, <1>2, <1>3

\* What trim leaves is a list with its cost, over the budget only if it is one entry.
LEMMA TrimBooks ==
  ASSUME NEW es \in Seq(JournalEntry), NEW docs \in Seq(Document), Len(docs) = Len(es) + 1,
         NEW cur \in 0 .. Len(es), NEW c, c = CostOf(es), NEW b \in Nat,
         Trim(es, cur, c, b, docs)
  PROVE  /\ entries' \in Seq(JournalEntry) /\ cursor' \in 0 .. Len(entries')
         /\ line' \in Seq(Document) /\ Len(line') = Len(entries') + 1
         /\ total_cost' \in Int /\ total_cost' = CostOf(entries')
         /\ total_cost' <= b \/ Len(entries') = 1
<1>1. PICK k : k = Trimmed(es, c, b)
  OBVIOUS
<1>2. /\ entries' = SubSeq(es, k + 1, Len(es))
      /\ total_cost' = c - CostOf(SubSeq(es, 1, k))
      /\ cursor' = IF cur > k THEN cur - k ELSE 0
      /\ line' = SubSeq(docs, k + 1, Len(docs))
  BY <1>1 DEF Trim
<1>3. c \in Nat /\ c \in Int /\ Len(es) \in Nat
  BY CostIsSum
<1>4. /\ k \in 0 .. Len(es)
      /\ es = <<>> => k = 0
      /\ es # <<>> => k < Len(es) /\ (k = Len(es) - 1 \/ c - CostOf(SubSeq(es, 1, k)) <= b)
  BY <1>1, <1>3, TrimmedFits
<1>5. PICK r, p : r = SubSeq(es, k + 1, Len(es)) /\ p = SubSeq(es, 1, k)
  OBVIOUS
<1>6. /\ r \in Seq(JournalEntry) /\ Len(r) = Len(es) - k /\ p \in Seq(JournalEntry)
      /\ c = CostOf(p) + CostOf(r)
  BY <1>4, <1>5, CostSplit
<1>7. CostOf(p) \in Nat /\ CostOf(r) \in Nat
  BY <1>6, CostIsSum
<1>8. line' \in Seq(Document) /\ Len(line') = Len(docs) - k
  <2>1. \A i \in k + 1 .. Len(docs) : docs[i] \in Document
    BY <1>3, <1>4, LenProperties
  <2>2. k + 1 \in Int /\ Len(docs) \in Int /\ k + 1 <= Len(docs)
    BY <1>3, <1>4
  <2>3. SubSeq(docs, k + 1, Len(docs)) \in Seq(Document)
        /\ Len(SubSeq(docs, k + 1, Len(docs))) = Len(docs) - (k + 1) + 1
    BY <2>1, <2>2, SubSeqProperties
  <2> QED
    BY <1>2, <1>3, <1>4, <2>3
<1>9. c - CostOf(p) <= b \/ Len(r) = 1
  <2>1. CASE es = <<>>
    <3>1. Len(es) = 0 /\ k = 0
      BY <1>4, <2>1, EmptySeq
    <3>2. CostOf(es) = SumFunctionOnSet(Costs(es), {})
      <4>1. 1 .. Len(es) = {}
        BY <3>1
      <4> QED
        BY <4>1, CostIsSum
    <3>3. CostOf(es) = 0
      BY <3>2, SumEmpty
    <3>4. PICK x \in Nat : x = CostOf(p)
      BY <1>7
    <3>5. c = 0 /\ c - x <= b
      BY <3>3, <3>4
    <3> QED
      BY <3>4, <3>5
  <2>2. CASE es # <<>>
    BY <1>3, <1>4, <1>5, <1>6, <2>2
  <2> QED
    BY <2>1, <2>2
<1>10. total_cost' = c - CostOf(p) /\ entries' = r
  BY <1>2, <1>5
<1>11. cursor' \in 0 .. Len(entries') /\ Len(line') = Len(entries') + 1
  BY <1>2, <1>3, <1>4, <1>6, <1>8, <1>10
<1>12. total_cost' \in Int /\ total_cost' = CostOf(r)
  BY <1>6, <1>7, <1>10
<1> QED
  BY <1>6, <1>8, <1>9, <1>10, <1>11, <1>12

-----------------------------------------------------------------------------
(* Types and costs, whatever the host does.                                *)

LEMMA EntryTypes ==
  /\ Absent \in Record
  /\ \A e \in JournalEntry : Costed(e) \in JournalEntry
  /\ \A e, f \in JournalEntry : Coalesced(e, f) \in JournalEntry
<1>1. Absent \in Record
  BY DEF Absent, Record
<1>2. ASSUME NEW e \in JournalEntry PROVE Costed(e) \in JournalEntry
  <2>1. IsFiniteSet(Ids) /\ e.touched \subseteq Ids
    <3>1. IsFiniteSet(Ids)
      <4>1. 1 \in Int /\ MaxId \in Int
        BY MaxIdAssumption
      <4> QED
        BY <4>1, FS_Interval DEF Ids
    <3> QED
      BY <3>1 DEF JournalEntry
  <2>2. /\ {i \in e.touched : e.before[i] # Absent} \subseteq Ids
        /\ {i \in e.touched : e.after[i] # Absent} \subseteq Ids
    BY <2>1
  <2>3. /\ Cardinality({i \in e.touched : e.before[i] # Absent}) \in Nat
        /\ Cardinality({i \in e.touched : e.after[i] # Absent}) \in Nat
    <3>1. ASSUME NEW S, S \subseteq Ids PROVE Cardinality(S) \in Nat
      BY <2>1, <3>1, FS_Subset, FS_CardinalityType
    <3> QED
      BY <2>2, <3>1
  <2>4. entry_cost(e) \in Nat
    BY <2>3 DEF entry_cost
  <2> QED
    BY <2>4 DEF Costed, JournalEntry
<1>3. ASSUME NEW e \in JournalEntry, NEW f \in JournalEntry PROVE Coalesced(e, f) \in JournalEntry
  <2>1. PICK t, bf, af : /\ t = e.touched \cup f.touched
                         /\ bf = [i \in Ids |-> IF i \in e.touched THEN e.before[i] ELSE f.before[i]]
                         /\ af = [i \in Ids |-> IF i \in f.touched THEN f.after[i] ELSE e.after[i]]
    OBVIOUS
  <2>2. t \in SUBSET Ids /\ bf \in Document /\ af \in Document
    BY <2>1 DEF JournalEntry, Document
  <2>3. [e EXCEPT !.touched = t, !.before = bf, !.after = af] \in JournalEntry
    BY <2>2 DEF JournalEntry
  <2> QED
    BY <1>2, <2>1, <2>3 DEF Coalesced
<1> QED
  BY <1>1, <1>2, <1>3

\* The journal entry of an open transaction.
LEMMA EntryOfTxn ==
  ASSUME TypeOK
  PROVE  /\ Entry \in JournalEntry
         /\ Entry.touched = txn.touched /\ Entry.before = txn.base /\ Entry.after = txn.root
<1>1. PICK e : e = [touched |-> txn.touched, before |-> txn.base, after |-> txn.root,
                    key |-> txn.key, cost |-> 0]
  OBVIOUS
<1>2. e \in JournalEntry
  BY <1>1 DEF TypeOK, JournalEntry
<1>3. Entry = Costed(e)
  BY <1>1 DEF Entry
<1> QED
  BY <1>1, <1>2, <1>3, EntryTypes DEF Costed

LEMMA BoundedMax ==
  ASSUME NEW T \in SUBSET Nat, NEW b \in Nat, \A y \in T : y <= b
  PROVE  Max0(T) \in Nat /\ \A y \in T : y <= Max0(T)
<1>1. CASE T = {}
  BY <1>1 DEF Max0
<1>2. CASE T # {}
  <2>1. \E x \in T : \A y \in T : y <= x
    BY <1>2, LeastAndGreatest
  <2>2. \E x \in T : \A y \in T : x >= y
    BY <2>1
  <2>3. Max(T) \in T /\ \A y \in T : Max(T) >= y
    BY <2>2 DEF Max
  <2> QED
    BY <1>2, <2>3 DEF Max0
<1> QED
  BY <1>1, <1>2

\* The greatest id and stamp in a file.
LEMMA FileBounds ==
  ASSUME NEW d \in Document
  PROVE  /\ Max0(Present(d)) \in Nat
         /\ Max0({d[i].stamp : i \in Present(d)}) \in Nat
         /\ \A i \in Present(d) : d[i].stamp <= Max0({d[j].stamp : j \in Present(d)})
<1>1. Present(d) \in SUBSET Nat /\ \A y \in Present(d) : y <= MaxId
  BY MaxIdAssumption DEF Present, Ids
<1>2. PICK f : f = [i \in 1 .. MaxId |-> d[i].stamp]
  OBVIOUS
<1>3. \A i \in 1 .. MaxId : f[i] \in Nat /\ f[i] = d[i].stamp
  BY <1>2 DEF Document, Record, Ids
<1>4. PICK b \in Nat : \A i \in 1 .. MaxId : f[i] <= b
  BY <1>3, MaxIdAssumption, ValuesBounded
<1>5. PICK T : T = {d[i].stamp : i \in Present(d)}
  OBVIOUS
<1>6. T \in SUBSET Nat /\ \A y \in T : y <= b
  BY <1>3, <1>4, <1>5 DEF Present, Ids
<1>7. Max0(T) \in Nat /\ \A y \in T : y <= Max0(T)
  BY <1>6, BoundedMax
<1>8. \A i \in Present(d) : d[i].stamp \in T
  BY <1>5
<1> QED
  BY <1>1, <1>5, <1>7, <1>8, MaxIdAssumption, BoundedMax

LEMMA BooksInit == Init => HistorySound
<1> SUFFICES ASSUME Init PROVE HistorySound
  OBVIOUS
<1>1. Absent \in Record /\ \A i \in Ids : i \in Nat
  BY EntryTypes DEF Ids
<1>2. doc \in Document /\ durable \in Document /\ line = <<doc>>
  BY <1>1 DEF Init, Document, Record
<1>3. Closed \in [status : {"closed", "open", "failed"}, base : Document, root : Document,
                  touched : SUBSET Ids, publish_revision : Nat, key : Nat]
  BY <1>1 DEF Closed, Document, k_no_coalesce
<1>4. seen \subseteq Ids \X Record
  <2>1. \A i \in Ids : doc[i] \in Record
    BY <1>2 DEF Document
  <2>2. seen = {<<i, doc[i]>> : i \in Ids}
    BY DEF Init
  <2> QED
    BY <2>1, <2>2
<1>5. entries = <<>> /\ Len(entries) = 0 /\ entries \in Seq(JournalEntry)
  BY EmptySeq DEF Init
<1>6. line \in Seq(Document) /\ Len(line) = 1
  BY <1>2
<1>7. TypeOK
  BY <1>2, <1>3, <1>4, <1>5, <1>6, BudgetsAssumption DEF Init, TypeOK
<1>8. CostOf(entries) = 0
  <2>1. CostOf(entries) = SumFunctionOnSet(Costs(entries), 1 .. 0)
    BY <1>5, CostIsSum
  <2>2. 1 .. 0 = {}
    OBVIOUS
  <2> QED
    BY <2>1, <2>2, SumEmpty
<1>9. total_cost = 0 /\ budget \in Nat
  BY BudgetsAssumption DEF Init
<1> QED
  BY <1>7, <1>8, <1>9 DEF HistorySound, CostAccounted

\* A step that leaves the journal and the document alone.
LEMMA BooksEdit ==
  ASSUME HistorySound,
         transact \/ add \/ Exhaust \/ abort \/ (\E id \in Ids : set(id) \/ remove(id))
           \/ (\E key \in Keys : coalesce(key))
  PROVE  HistorySound'
<1>1. /\ UNCHANGED <<doc, revision, seen, fileVars, journalVars>>
      /\ next_id' \in Nat \ {0} /\ serial' \in Nat
  BY DEF transact, add, Exhaust, abort, set, remove, coalesce, HistorySound, TypeOK, modelVars
<1>2. TypeOK
  BY DEF HistorySound
<1> DEFINE Txns == [status : {"closed", "open", "failed"}, base : Document, root : Document,
                      touched : SUBSET Ids, publish_revision : Nat, key : Nat]
<1>4. txn \in Txns
  BY <1>2 DEF TypeOK
<1>5. txn' \in Txns
  <2>1. CASE transact
    BY <1>2, <2>1 DEF transact, TypeOK, k_no_coalesce
  <2>2. ASSUME NEW id \in Ids, NEW r \in Record, touch(id, r) PROVE txn' \in Txns
    <3>1. PICK d, t : d = [txn.root EXCEPT ![id] = r] /\ t = txn.touched \cup {id}
      OBVIOUS
    <3>2. d \in Document /\ t \in SUBSET Ids
      BY <1>4, <3>1 DEF Document
    <3>3. txn' = [txn EXCEPT !.root = d, !.touched = t]
      BY <2>2, <3>1 DEF touch
    <3> QED
      BY <1>4, <3>2, <3>3
  <2>3. Stamped \in Record /\ Absent \in Record
    BY <1>2, EntryTypes DEF Stamped, TypeOK, Record
  <2>4. CASE add
    <3>1. next_id \in Ids
      BY <1>2, <2>4, MaxIdAssumption DEF add, Ids, TypeOK
    <3> QED
      BY <2>2, <2>3, <2>4, <3>1 DEF add
  <2>5. CASE \E id \in Ids : set(id) \/ remove(id)
    BY <2>2, <2>3, <2>5 DEF set, remove
  <2>6. CASE Exhaust
    BY <1>4, <2>6 DEF Exhaust
  <2>7. CASE abort
    BY <2>7, EntryTypes DEF abort, Closed, Document, k_no_coalesce
  <2>8. ASSUME NEW key \in Keys, coalesce(key) PROVE txn' \in Txns
    BY <1>4, <2>8, KeysAssumption DEF coalesce
  <2> QED
    BY <2>1, <2>4, <2>5, <2>6, <2>7, <2>8
<1> QED
  BY <1>1, <1>2, <1>5 DEF HistorySound, TypeOK, CostAccounted, fileVars, journalVars

\* The entry list that a commit hands to trim, with its cost.
LEMMA CommitBooks ==
  ASSUME HistorySound, commit
  PROVE  HistorySound'
<1>1. TypeOK /\ CostAccounted
  BY DEF HistorySound
<1>2. PICK e, d : e = Entry /\ d = txn.root
  OBVIOUS
<1>3. e \in JournalEntry /\ d \in Document /\ e.cost \in Nat
  BY <1>1, <1>2, EntryOfTxn DEF TypeOK, JournalEntry
<1>4. /\ entries \in Seq(JournalEntry) /\ line \in Seq(Document) /\ Len(line) = Len(entries) + 1
      /\ cursor \in 0 .. Len(entries) /\ budget \in Nat /\ Len(entries) \in Nat
      /\ total_cost = CostOf(entries) /\ CostOf(entries) \in Nat
  BY <1>1, CostIsSum DEF TypeOK, CostAccounted
<1>5. /\ doc' = d /\ revision' = txn.publish_revision
      /\ seen' = seen \cup {<<i, d[i]>> : i \in Ids}
      /\ on_commit(e, d) /\ txn' = Closed
      /\ UNCHANGED <<next_id, serial, fileVars, budget>>
  BY <1>2 DEF commit, Publish
<1>6. /\ entries' \in Seq(JournalEntry) /\ cursor' \in 0 .. Len(entries')
      /\ line' \in Seq(Document) /\ Len(line') = Len(entries') + 1
      /\ total_cost' \in Int /\ total_cost' = CostOf(entries')
      /\ total_cost' <= budget \/ Len(entries') = 1
  <2>1. CASE Coalesces(e)
    <3>1. entries # <<>>
      BY <2>1 DEF Coalesces
    <3>2. PICK n, tip, f, es, docs, c :
             /\ n = Len(entries) /\ n \in Nat /\ tip = entries[n] /\ f = Coalesced(tip, e)
             /\ es = [entries EXCEPT ![n] = f] /\ docs = [line EXCEPT ![Len(line)] = d]
             /\ c = total_cost - tip.cost + f.cost
      BY <1>4
    <3>3. tip \in JournalEntry /\ f \in JournalEntry /\ n >= 1
      BY <1>3, <3>1, <3>2, <1>4, CostTip, EntryTypes
    <3>4. es \in Seq(JournalEntry) /\ Len(es) = n /\ CostOf(es) = c
      BY <1>4, <3>1, <3>2, <3>3, CostTip
    <3>5. docs \in Seq(Document) /\ Len(docs) = Len(es) + 1
      BY <1>3, <1>4, <3>2, <3>4, ExceptSeq
    <3>6. Trim(es, cursor, c, budget, docs)
      BY <1>5, <2>1, <3>2 DEF on_commit
    <3>7. cursor \in 0 .. Len(es)
      BY <1>4, <3>2, <3>4
    <3> QED
      BY <1>4, <3>4, <3>5, <3>6, <3>7, TrimBooks
  <2>2. CASE ~ Coalesces(e)
    <3>1. PICK p, r, es, q, docs, c :
             /\ p = SubSeq(entries, 1, cursor) /\ r = SubSeq(entries, cursor + 1, Len(entries))
             /\ es = Append(p, e) /\ q = SubSeq(line, 1, cursor + 1) /\ docs = Append(q, d)
             /\ c = total_cost - CostOf(r) + e.cost
      OBVIOUS
    <3>2. /\ p \in Seq(JournalEntry) /\ Len(p) = cursor /\ r \in Seq(JournalEntry)
          /\ CostOf(entries) = CostOf(p) + CostOf(r)
      BY <1>4, <3>1, CostSplit
    <3>3. es \in Seq(JournalEntry) /\ Len(es) = cursor + 1 /\ CostOf(es) = CostOf(p) + e.cost
      BY <1>3, <3>1, <3>2, CostAppend
    <3>4. CostOf(p) \in Nat /\ CostOf(r) \in Nat
      BY <3>2, CostIsSum
    <3>5. c = CostOf(es)
      BY <1>3, <1>4, <3>1, <3>2, <3>3, <3>4
    <3>6. q \in Seq(Document) /\ Len(q) = cursor + 1
      <4>1. \A i \in 1 .. cursor + 1 : line[i] \in Document
        BY <1>4, LenProperties
      <4> QED
        BY <1>4, <3>1, <4>1, SubSeqProperties
    <3>7. docs \in Seq(Document) /\ Len(docs) = Len(es) + 1
      BY <1>3, <1>4, <3>1, <3>3, <3>6, AppendProperties
    <3>8. Trim(es, cursor + 1, c, budget, docs)
      BY <1>5, <2>2, <3>1 DEF on_commit
    <3>9. cursor + 1 \in 0 .. Len(es)
      BY <1>4, <3>3
    <3> QED
      BY <1>4, <3>3, <3>5, <3>7, <3>8, <3>9, TrimBooks
  <2> QED
    BY <2>1, <2>2
<1>7. seen' \subseteq Ids \X Record
  <2>1. \A i \in Ids : d[i] \in Record
    BY <1>3 DEF Document
  <2> QED
    BY <1>1, <1>5, <2>1 DEF TypeOK
<1>8. txn' \in [status : {"closed", "open", "failed"}, base : Document, root : Document,
                touched : SUBSET Ids, publish_revision : Nat, key : Nat]
  BY <1>5, EntryTypes DEF Closed, Document, k_no_coalesce
<1>9. revision' \in Nat
  BY <1>1, <1>5 DEF TypeOK
<1>10. TypeOK'
  BY <1>1, <1>3, <1>5, <1>6, <1>7, <1>8, <1>9 DEF TypeOK, fileVars
<1> QED
  BY <1>5, <1>6, <1>10 DEF HistorySound, CostAccounted

\* An entry bound to one of its sides gives a document.
LEMMA ReboundIsDocument ==
  ASSUME NEW d \in Document, NEW e, NEW side \in Document
  PROVE  Rebound(d, e, side) \in Document
BY DEF Rebound, Document

LEMMA NavigateBooks ==
  ASSUME HistorySound, undo \/ redo
  PROVE  HistorySound'
<1>1. TypeOK /\ CostAccounted
  BY DEF HistorySound
<1>2. /\ entries \in Seq(JournalEntry) /\ cursor \in 0 .. Len(entries) /\ Len(entries) \in Nat
      /\ \A k \in 1 .. Len(entries) : entries[k] \in JournalEntry
  BY <1>1, LenProperties DEF TypeOK
<1>3. PICK k \in 1 .. Len(entries), side \in Document :
        Navigate(entries[k], side) /\ cursor' \in 0 .. Len(entries)
  <2>1. CASE undo
    <3>1. cursor \in 1 .. Len(entries) /\ cursor - 1 \in 0 .. Len(entries)
      BY <1>2, <2>1 DEF undo
    <3>2. entries[cursor].before \in Document
      BY <1>2, <3>1 DEF JournalEntry
    <3> QED
      BY <2>1, <3>1, <3>2 DEF undo
  <2>2. CASE redo
    <3>1. cursor + 1 \in 1 .. Len(entries)
      BY <1>2, <2>2 DEF redo
    <3>2. entries[cursor + 1].after \in Document
      BY <1>2, <3>1 DEF JournalEntry
    <3>3. cursor' \in 0 .. Len(entries)
      BY <2>2, <3>1 DEF redo
    <3> QED
      BY <2>2, <3>1, <3>2, <3>3 DEF redo
  <2> QED
    BY <2>1, <2>2
<1>4. PICK d : d = Rebound(doc, entries[k], side)
  OBVIOUS
<1>5. d \in Document
  BY <1>1, <1>4, ReboundIsDocument DEF TypeOK
<1>6. /\ doc' = d /\ revision' = revision + 1 /\ seen' = seen \cup {<<i, d[i]>> : i \in Ids}
      /\ UNCHANGED <<next_id, serial, fileVars, txn, entries, total_cost, budget, line>>
  BY <1>3, <1>4 DEF Navigate, Publish
<1>7. seen' \subseteq Ids \X Record
  <2>1. \A i \in Ids : d[i] \in Record
    BY <1>5 DEF Document
  <2> QED
    BY <1>1, <1>6, <2>1 DEF TypeOK
<1>8. TypeOK'
  BY <1>1, <1>3, <1>5, <1>6, <1>7 DEF TypeOK, fileVars
<1> QED
  BY <1>1, <1>6, <1>8 DEF HistorySound, CostAccounted

LEMMA BudgetBooks ==
  ASSUME HistorySound, NEW b \in Budgets, set_byte_budget(b)
  PROVE  HistorySound'
<1>1. TypeOK /\ CostAccounted
  BY DEF HistorySound
<1>2. /\ entries \in Seq(JournalEntry) /\ line \in Seq(Document) /\ Len(line) = Len(entries) + 1
      /\ cursor \in 0 .. Len(entries) /\ total_cost = CostOf(entries) /\ b \in Nat
  BY <1>1, BudgetsAssumption DEF TypeOK, CostAccounted
<1>3. Trim(entries, cursor, total_cost, b, line) /\ budget' = b /\ UNCHANGED <<modelVars, txn>>
  BY DEF set_byte_budget
<1>4. /\ entries' \in Seq(JournalEntry) /\ cursor' \in 0 .. Len(entries')
      /\ line' \in Seq(Document) /\ Len(line') = Len(entries') + 1
      /\ total_cost' \in Int /\ total_cost' = CostOf(entries')
      /\ total_cost' <= b \/ Len(entries') = 1
  BY <1>2, <1>3, TrimBooks
<1>5. TypeOK'
  BY <1>1, <1>2, <1>3, <1>4 DEF TypeOK, modelVars, fileVars
<1> QED
  BY <1>3, <1>4, <1>5 DEF HistorySound, CostAccounted

LEMMA ReopenBooks ==
  ASSUME HistorySound, reopen
  PROVE  HistorySound'
<1>1. TypeOK
  BY DEF HistorySound
<1>2. durable \in Document
  BY <1>1 DEF TypeOK
<1>3. /\ doc' = durable /\ durable' = durable /\ serial' = serial /\ txn' = Closed
      /\ entries' = <<>> /\ cursor' = 0 /\ total_cost' = 0 /\ budget' = k_no_budget
      /\ line' = <<durable>> /\ seen' = {<<i, durable[i]>> : i \in Ids}
  BY DEF reopen
<1>4. reopens' \in Nat /\ next_id' \in Nat \ {0} /\ revision' \in Nat
  <2>1. /\ Max0(Present(durable)) \in Nat
        /\ Max0({durable[i].stamp : i \in Present(durable)}) \in Nat
    BY <1>2, FileBounds
  <2> QED
    BY <1>1, <2>1 DEF reopen, TypeOK
<1>5. seen' \subseteq Ids \X Record
  <2>1. \A i \in Ids : durable[i] \in Record
    BY <1>2 DEF Document
  <2> QED
    BY <1>3, <2>1
<1>6. txn' \in [status : {"closed", "open", "failed"}, base : Document, root : Document,
                touched : SUBSET Ids, publish_revision : Nat, key : Nat]
  BY <1>3, EntryTypes DEF Closed, Document, k_no_coalesce
<1>7. /\ entries' \in Seq(JournalEntry) /\ Len(entries') = 0
      /\ line' \in Seq(Document) /\ Len(line') = 1
  BY <1>2, <1>3, EmptySeq
<1>8. CostOf(entries') = 0
  <2>1. CostOf(entries') = SumFunctionOnSet(Costs(entries'), 1 .. 0)
    BY <1>7, CostIsSum
  <2>2. 1 .. 0 = {}
    OBVIOUS
  <2> QED
    BY <2>1, <2>2, SumEmpty
<1>9. TypeOK'
  BY <1>1, <1>2, <1>3, <1>4, <1>5, <1>6, <1>7, BudgetsAssumption DEF TypeOK
<1> QED
  BY <1>3, <1>8, <1>9, BudgetsAssumption DEF HistorySound, CostAccounted

LEMMA BooksStep == HistorySound /\ [Next]_vars => HistorySound'
<1> SUFFICES ASSUME HistorySound, [Next]_vars PROVE HistorySound'
  OBVIOUS
<1>1. CASE checkpoint
  BY <1>1 DEF checkpoint, HistorySound, TypeOK, CostAccounted, journalVars
<1>2. CASE UNCHANGED vars
  BY <1>2 DEF vars, modelVars, fileVars, journalVars, HistorySound, TypeOK, CostAccounted
<1> QED
  BY <1>1, <1>2, BooksEdit, CommitBooks, NavigateBooks, BudgetBooks, ReopenBooks DEF Next

(***************************************************************************)
(* The books of the journal agree, whatever the host does: the cursor      *)
(* stays in the list, and the running cost is that of the entries kept and *)
(* over the budget only if a single entry is (Journal::on_commit, trim).   *)
(***************************************************************************)
THEOREM CostsAgree == Spec => []HistorySound
BY BooksInit, BooksStep, PTL DEF Spec

-----------------------------------------------------------------------------
(* Stamps, as long as the host does not undo with a transaction open.      *)

\* A transaction works on the document it has pinned and stamps what it
\* writes with the revision that it will publish.
TxnSound ==
  txn.status # "closed" =>
    /\ txn.base = doc /\ txn.publish_revision = revision + 1
    /\ \A i \in txn.touched : txn.root[i] = Absent \/ txn.root[i].stamp = revision + 1
    /\ \A i \in Ids \ txn.touched : txn.root[i] = doc[i]

\* S holds no two records of an object with one stamp, and no stamp after n.
Identifies(S, n) ==
  /\ \A i \in Ids, r, s \in Record :
       <<i, r>> \in S /\ <<i, s>> \in S /\ r.stamp = s.stamp /\ r # Absent /\ s # Absent => r = s
  /\ \A i \in Ids, r \in Record : <<i, r>> \in S => r.stamp <= n

\* What an entry rebinds its objects to has been published.
Recorded(e, S) == \A i \in e.touched : <<i, e.before[i]>> \in S /\ <<i, e.after[i]>> \in S

StampInv ==
  /\ HistorySound /\ TxnSound
  /\ Identifies(seen, revision)
  /\ \A i \in Ids : <<i, doc[i]>> \in seen
  /\ \A k \in 1 .. Len(entries) : Recorded(entries[k], seen)

LEMMA StampsFollow == StampInv => StampsIdentify
<1> SUFFICES ASSUME StampInv,
                    NEW a \in seen, NEW b \in seen, a[1] = b[1], a[2].stamp = b[2].stamp,
                    a[2] # Absent, b[2] # Absent
             PROVE  a[2] = b[2]
  BY DEF StampsIdentify
<1>1. seen \subseteq Ids \X Record
  BY DEF StampInv, HistorySound, TypeOK
<1>2. PICK i \in Ids, r \in Record : a = <<i, r>>
  BY <1>1
<1>3. PICK j \in Ids, s \in Record : b = <<j, s>>
  BY <1>1
<1> QED
  BY <1>2, <1>3 DEF StampInv, Identifies

\* Publishing records of a new revision next to published ones.
LEMMA PublishIdentifies ==
  ASSUME NEW S, NEW n \in Nat, Identifies(S, n), NEW d \in Document, NEW T,
         T = S \cup {<<i, d[i]>> : i \in Ids},
         \A i \in Ids : d[i] = Absent \/ d[i].stamp = n + 1 \/ <<i, d[i]>> \in S
  PROVE  Identifies(T, n + 1)
<1>1. ASSUME NEW i \in Ids, NEW r \in Record, <<i, r>> \in T
      PROVE  <<i, r>> \in S \/ r = d[i]
  BY <1>1
<1>2. ASSUME NEW i \in Ids, NEW r \in Record, <<i, r>> \in T
      PROVE  /\ r.stamp <= n + 1
             /\ r # Absent => <<i, r>> \in S \/ (r = d[i] /\ r.stamp = n + 1)
  <2>1. CASE <<i, r>> \in S
    <3>1. r.stamp <= n
      BY <2>1 DEF Identifies
    <3>2. r.stamp \in Nat
      BY DEF Record
    <3>3. r.stamp <= n + 1
      BY <3>1, <3>2
    <3> QED
      BY <2>1, <3>3
  <2>2. CASE r = d[i] /\ <<i, r>> \notin S
    <3>1. r = Absent \/ r.stamp = n + 1
      BY <2>2
    <3>2. Absent.stamp = 0
      BY DEF Absent
    <3> QED
      BY <2>2, <3>1, <3>2
  <2> QED
    BY <1>1, <1>2, <2>1, <2>2
<1>3. ASSUME NEW i \in Ids, NEW r \in Record, NEW s \in Record, <<i, r>> \in T, <<i, s>> \in T,
             r.stamp = s.stamp, r # Absent, s # Absent
      PROVE  r = s
  <2>1. \A u \in Record : <<i, u>> \in S => u.stamp <= n
    BY DEF Identifies
  <2>2. <<i, r>> \in S \/ (r = d[i] /\ r.stamp = n + 1)
    BY <1>2, <1>3
  <2>3. <<i, s>> \in S \/ (s = d[i] /\ s.stamp = n + 1)
    BY <1>2, <1>3
  <2>4. (<<i, r>> \in S /\ <<i, s>> \in S) \/ (r = d[i] /\ s = d[i])
    BY <1>3, <2>1, <2>2, <2>3
  <2> QED
    BY <1>3, <2>4 DEF Identifies
<1> QED
  BY <1>2, <1>3 DEF Identifies

\* The first k entries leave, the others keep their order and their documents.
Drops(k, es, cur, docs) ==
  /\ es # <<>> => k < Len(es)
  /\ Len(entries') = Len(es) - k /\ Len(line') = Len(docs) - k
  /\ \A j \in 1 .. Len(es) - k : entries'[j] = es[k + j]
  /\ \A j \in 1 .. Len(docs) - k : line'[j] = docs[k + j]
  /\ cursor' = IF cur > k THEN cur - k ELSE 0

\* What trim leaves is the end of the list it was given, from place k + 1 on.
LEMMA TrimShifts ==
  ASSUME NEW es \in Seq(JournalEntry), NEW docs \in Seq(Document), Len(docs) = Len(es) + 1,
         NEW cur \in 0 .. Len(es), NEW c \in Int, NEW b \in Nat, Trim(es, cur, c, b, docs)
  PROVE  \E k \in 0 .. Len(es) : k = Trimmed(es, c, b) /\ Drops(k, es, cur, docs)
<1>1. PICK k : k = Trimmed(es, c, b)
  OBVIOUS
<1>2. Len(es) \in Nat /\ k \in 0 .. Len(es) /\ (es # <<>> => k < Len(es))
  BY <1>1, TrimmedFits, LenProperties
<1>3. /\ entries' = SubSeq(es, k + 1, Len(es))
      /\ cursor' = IF cur > k THEN cur - k ELSE 0
      /\ line' = SubSeq(docs, k + 1, Len(docs))
  BY <1>1 DEF Trim
<1>4. ASSUME NEW R, NEW q \in Seq(R), k <= Len(q)
      PROVE  /\ Len(SubSeq(q, k + 1, Len(q))) = Len(q) - k
             /\ \A j \in 1 .. Len(q) - k : SubSeq(q, k + 1, Len(q))[j] = q[k + j]
  <2>1. Len(q) \in Nat /\ \A i \in k + 1 .. Len(q) : q[i] \in R
    BY <1>2, LenProperties
  <2>2. k + 1 \in Int /\ Len(q) \in Int
    BY <1>2, <2>1
  <2>3. /\ Len(SubSeq(q, k + 1, Len(q))) = IF k + 1 <= Len(q) THEN Len(q) - (k + 1) + 1 ELSE 0
        /\ \A j \in 1 .. Len(q) - (k + 1) + 1 : SubSeq(q, k + 1, Len(q))[j] = q[(k + 1) + j - 1]
    BY <2>1, <2>2, SubSeqProperties
  <2>4. Len(q) - (k + 1) + 1 = Len(q) - k /\ \A j \in Int : (k + 1) + j - 1 = k + j
    BY <1>2, <2>1
  <2>5. ASSUME NEW j \in 1 .. Len(q) - k PROVE SubSeq(q, k + 1, Len(q))[j] = q[k + j]
    <3>1. SubSeq(q, k + 1, Len(q))[j] = q[(k + 1) + j - 1]
      BY <2>3, <2>4
    <3>2. (k + 1) + j - 1 = k + j
      BY <2>4
    <3> QED
      BY <3>1, <3>2
  <2> QED
    <3>1. Len(SubSeq(q, k + 1, Len(q))) = Len(q) - k
      <4>1. PICK m : m = Len(SubSeq(q, k + 1, Len(q)))
        OBVIOUS
      <4>2. m = IF k + 1 <= Len(q) THEN Len(q) - (k + 1) + 1 ELSE 0
        BY <2>3, <4>1
      <4>3. m = Len(q) - k
        BY <1>2, <1>4, <2>1, <4>2
      <4> QED
        BY <4>1, <4>3
    <3> QED
      BY <2>5, <3>1
<1>5. /\ Len(entries') = Len(es) - k
      /\ \A j \in 1 .. Len(es) - k : entries'[j] = es[k + j]
  BY <1>2, <1>3, <1>4
<1>6. /\ Len(line') = Len(docs) - k
      /\ \A j \in 1 .. Len(docs) - k : line'[j] = docs[k + j]
  <2>1. k <= Len(docs)
    BY <1>2
  <2> QED
    BY <1>3, <1>4, <2>1
<1>7. Drops(k, es, cur, docs)
  BY <1>2, <1>3, <1>5, <1>6 DEF Drops
<1> QED
  BY <1>1, <1>2, <1>7

LEMMA StampsInit == Init => StampInv
<1> SUFFICES ASSUME Init PROVE StampInv
  OBVIOUS
<1>1. HistorySound
  BY BooksInit
<1>2. TxnSound
  BY DEF Init, Closed, TxnSound
<1>3. Identifies(seen, revision)
  <2>1. \A i \in Ids : doc[i].stamp = 0
    BY DEF Init, Absent
  <2>2. seen = {<<i, doc[i]>> : i \in Ids} /\ revision = 0
    BY DEF Init
  <2>3. ASSUME NEW i \in Ids, NEW r \in Record, <<i, r>> \in seen PROVE r = doc[i]
    BY <2>2, <2>3
  <2> QED
    BY <2>1, <2>2, <2>3 DEF Identifies
<1>4. \A i \in Ids : <<i, doc[i]>> \in seen
  BY DEF Init
<1>5. \A k \in 1 .. Len(entries) : Recorded(entries[k], seen)
  BY EmptySeq DEF Init
<1> QED
  BY <1>1, <1>2, <1>3, <1>4, <1>5 DEF StampInv

\* A step of the transaction publishes nothing.
LEMMA TxnSteps ==
  ASSUME HistorySound, TxnSound,
         transact \/ add \/ Exhaust \/ abort \/ (\E id \in Ids : set(id) \/ remove(id))
           \/ (\E key \in Keys : coalesce(key))
  PROVE  TxnSound' /\ UNCHANGED <<doc, revision, seen, fileVars, journalVars>>
<1>1. UNCHANGED <<doc, revision, seen, fileVars, journalVars>>
  BY DEF transact, add, Exhaust, abort, set, remove, coalesce, modelVars
<1> SUFFICES TxnSound'
  BY <1>1
<1>2. TypeOK
  BY DEF HistorySound
<1>3. txn.root \in Document /\ txn.touched \subseteq Ids /\ DOMAIN txn.root = Ids
  BY <1>2 DEF TypeOK, Document
<1>4. CASE transact
  BY <1>1, <1>4 DEF transact, TxnSound
<1>5. CASE Exhaust \/ abort \/ \E key \in Keys : coalesce(key)
  <2>1. txn'.status # "closed" =>
          /\ txn.status # "closed" /\ txn'.base = txn.base /\ txn'.root = txn.root
          /\ txn'.touched = txn.touched /\ txn'.publish_revision = txn.publish_revision
    BY <1>2, <1>5 DEF Exhaust, abort, coalesce, Closed, TypeOK
  <2> QED
    BY <1>1, <2>1 DEF TxnSound
<1>6. ASSUME NEW id \in Ids, NEW r, r = Absent \/ r.stamp = txn.publish_revision,
             txn.status = "open", touch(id, r)
      PROVE  TxnSound'
  <2>1. PICK d, t : d = [txn.root EXCEPT ![id] = r] /\ t = txn.touched \cup {id}
    OBVIOUS
  <2>2. txn' = [txn EXCEPT !.root = d, !.touched = t]
    BY <1>6, <2>1 DEF touch
  <2>3. /\ txn'.status = "open" /\ txn'.base = txn.base /\ txn'.root = d /\ txn'.touched = t
        /\ txn'.publish_revision = txn.publish_revision
    BY <1>2, <1>6, <2>2 DEF TypeOK
  <2>4. /\ txn.base = doc /\ txn.publish_revision = revision + 1
        /\ \A i \in txn.touched : txn.root[i] = Absent \/ txn.root[i].stamp = revision + 1
        /\ \A i \in Ids \ txn.touched : txn.root[i] = doc[i]
    BY <1>6 DEF TxnSound
  <2>5. /\ d[id] = r /\ \A i \in Ids : i # id => d[i] = txn.root[i]
    BY <1>3, <2>1
  <2>6. \A i \in t : d[i] = Absent \/ d[i].stamp = revision + 1
    BY <1>3, <1>6, <2>1, <2>4, <2>5
  <2>7. \A i \in Ids \ t : d[i] = doc[i]
    BY <2>1, <2>4, <2>5
  <2> QED
    BY <1>1, <2>3, <2>4, <2>6, <2>7 DEF TxnSound
<1>7. Stamped.stamp = txn.publish_revision
  BY DEF Stamped
<1>8. CASE add
  <2>1. next_id \in Ids
    BY <1>2, <1>8, MaxIdAssumption DEF add, Ids, TypeOK
  <2> QED
    BY <1>6, <1>7, <1>8, <2>1 DEF add
<1>9. CASE \E id \in Ids : set(id) \/ remove(id)
  BY <1>6, <1>7, <1>9 DEF set, remove
<1> QED
  BY <1>4, <1>5, <1>8, <1>9

LEMMA StampsEdit ==
  ASSUME StampInv,
         transact \/ add \/ Exhaust \/ abort \/ (\E id \in Ids : set(id) \/ remove(id))
           \/ (\E key \in Keys : coalesce(key))
  PROVE  StampInv'
<1>1. HistorySound' /\ TxnSound' /\ UNCHANGED <<doc, revision, seen, fileVars, journalVars>>
  BY BooksEdit, TxnSteps DEF StampInv
<1> QED
  BY <1>1 DEF StampInv, journalVars

\* What trim keeps has been published.
LEMMA TrimRecorded ==
  ASSUME NEW es \in Seq(JournalEntry), NEW docs \in Seq(Document), Len(docs) = Len(es) + 1,
         NEW cur \in 0 .. Len(es), NEW c \in Int, NEW b \in Nat, Trim(es, cur, c, b, docs),
         NEW S, \A k \in 1 .. Len(es) : Recorded(es[k], S)
  PROVE  \A k \in 1 .. Len(entries') : Recorded(entries'[k], S)
<1>1. PICK k \in 0 .. Len(es) : k = Trimmed(es, c, b) /\ Drops(k, es, cur, docs)
  BY TrimShifts
<1>2. ASSUME NEW j \in 1 .. Len(es) - k PROVE Recorded(entries'[j], S)
  <2>1. Len(es) \in Nat
    BY LenProperties
  <2>2. PICK m : m = k + j
    OBVIOUS
  <2>5. m \in 1 .. Len(es)
    BY <2>1, <2>2
  <2>3. entries'[j] = es[m]
    BY <1>1, <2>2 DEF Drops
  <2>4. Recorded(es[m], S)
    BY <2>5
  <2> QED
    BY <2>3, <2>4
<1> QED
  BY <1>1, <1>2 DEF Drops

\* What the journal hands to trim at a commit, in either of its two cases.
LEMMA CommitLists ==
  ASSUME TypeOK, NEW e \in JournalEntry, NEW d \in Document, on_commit(e, d)
  PROVE  \E es \in Seq(JournalEntry), docs \in Seq(Document), c \in Int :
           /\ Len(docs) = Len(es) + 1 /\ es # <<>>
           /\ Trim(es, Len(es), c, budget, docs)
           /\ \/ /\ Coalesces(e) /\ Len(es) = Len(entries) /\ Len(es) = cursor
                 /\ es[Len(es)] = Coalesced(entries[Len(es)], e)
                 /\ docs[Len(es) + 1] = d
                 /\ \A j \in 1 .. Len(es) - 1 : es[j] = entries[j]
                 /\ \A j \in 1 .. Len(es) : docs[j] = line[j]
              \/ /\ Len(es) = cursor + 1
                 /\ es[cursor + 1] = e /\ docs[cursor + 2] = d
                 /\ \A j \in 1 .. cursor : es[j] = entries[j]
                 /\ \A j \in 1 .. cursor + 1 : docs[j] = line[j]
<1>1. /\ entries \in Seq(JournalEntry) /\ line \in Seq(Document) /\ Len(line) = Len(entries) + 1
      /\ cursor \in 0 .. Len(entries) /\ Len(entries) \in Nat /\ total_cost \in Int
  BY LenProperties DEF TypeOK
<1>2. CASE Coalesces(e)
  <2>1. entries # <<>> /\ cursor = Len(entries)
    BY <1>2 DEF Coalesces
  <2>2. PICK n, tip, f, es, docs, c :
           /\ n = Len(entries) /\ tip = entries[n] /\ f = Coalesced(tip, e)
           /\ es = [entries EXCEPT ![n] = f] /\ docs = [line EXCEPT ![Len(line)] = d]
           /\ c = total_cost - tip.cost + f.cost
    OBVIOUS
  <2>3. n \in Nat /\ n >= 1 /\ tip \in JournalEntry /\ f \in JournalEntry
    BY <1>1, <2>1, <2>2, CostTip, EntryTypes
  <2>4. /\ es \in Seq(JournalEntry) /\ Len(es) = n /\ es[n] = f
        /\ \A j \in 1 .. n - 1 : es[j] = entries[j]
    <3>1. es \in Seq(JournalEntry) /\ Len(es) = n
      BY <1>1, <2>1, <2>2, <2>3, CostTip
    <3>2. DOMAIN entries = 1 .. n
      BY <1>1, <2>2, LenProperties
    <3> QED
      BY <2>2, <2>3, <3>1, <3>2
  <2>5. /\ docs \in Seq(Document) /\ Len(docs) = n + 1 /\ docs[n + 1] = d
        /\ \A j \in 1 .. n : docs[j] = line[j]
    <3>1. DOMAIN line = 1 .. n + 1
      BY <1>1, <2>2, LenProperties
    <3>2. docs \in Seq(Document) /\ Len(docs) = n + 1
      BY <1>1, <2>2, <2>3, ExceptSeq
    <3> QED
      BY <1>1, <2>2, <2>3, <3>1, <3>2
  <2>6. c \in Int
    BY <1>1, <2>2, <2>3 DEF JournalEntry
  <2>7. Trim(es, cursor, c, budget, docs)
    BY <1>2, <2>2 DEF on_commit
  <2>8. es # <<>>
    BY <2>3, <2>4, EmptySeq
  <2>9. Len(docs) = Len(es) + 1 /\ Len(es) = cursor
    BY <2>1, <2>2, <2>4, <2>5
  <2> es \in Seq(JournalEntry) /\ docs \in Seq(Document) /\ c \in Int
    BY <2>4, <2>5, <2>6
  <2> WITNESS es \in Seq(JournalEntry), docs \in Seq(Document), c \in Int
  <2> QED
    BY <1>2, <2>1, <2>2, <2>4, <2>5, <2>7, <2>8, <2>9
<1>3. CASE ~ Coalesces(e)
  <2>1. PICK p, r, es, q, docs, c :
           /\ p = SubSeq(entries, 1, cursor) /\ r = SubSeq(entries, cursor + 1, Len(entries))
           /\ es = Append(p, e) /\ q = SubSeq(line, 1, cursor + 1) /\ docs = Append(q, d)
           /\ c = total_cost - CostOf(r) + e.cost
    OBVIOUS
  <2>2. /\ p \in Seq(JournalEntry) /\ Len(p) = cursor /\ \A j \in 1 .. cursor : p[j] = entries[j]
    <3>1. \A j \in 1 .. cursor : entries[j] \in JournalEntry
      BY <1>1, LenProperties
    <3> QED
      BY <1>1, <2>1, <3>1, SubSeqProperties
  <2>3. /\ q \in Seq(Document) /\ Len(q) = cursor + 1 /\ \A j \in 1 .. cursor + 1 : q[j] = line[j]
    <3>1. \A j \in 1 .. cursor + 1 : line[j] \in Document
      BY <1>1, LenProperties
    <3> QED
      BY <1>1, <2>1, <3>1, SubSeqProperties
  <2>4. /\ es \in Seq(JournalEntry) /\ Len(es) = cursor + 1 /\ es[cursor + 1] = e
        /\ \A j \in 1 .. cursor : es[j] = entries[j]
    BY <1>1, <2>1, <2>2, AppendProperties
  <2>5. /\ docs \in Seq(Document) /\ Len(docs) = cursor + 2 /\ docs[cursor + 2] = d
        /\ \A j \in 1 .. cursor + 1 : docs[j] = line[j]
    <3>1. Len(docs) = Len(q) + 1 /\ docs \in Seq(Document) /\ docs[Len(q) + 1] = d
          /\ \A j \in 1 .. Len(q) : docs[j] = q[j]
      BY <2>1, <2>3, AppendProperties
    <3>2. (cursor + 1) + 1 = cursor + 2
      BY <1>1
    <3> QED
      BY <2>3, <3>1, <3>2
  <2>6. c \in Int
    <3>1. r \in Seq(JournalEntry)
      BY <1>1, <2>1, CostSplit
    <3>2. CostOf(r) \in Nat /\ e.cost \in Nat
      BY <3>1, CostIsSum DEF JournalEntry
    <3> QED
      BY <1>1, <2>1, <3>2
  <2>7. Trim(es, cursor + 1, c, budget, docs)
    BY <1>3, <2>1 DEF on_commit
  <2>8. es # <<>>
    BY <1>1, <2>4, EmptySeq
  <2>9. Len(docs) = Len(es) + 1
    BY <1>1, <2>4, <2>5
  <2> es \in Seq(JournalEntry) /\ docs \in Seq(Document) /\ c \in Int
    BY <2>4, <2>5, <2>6
  <2> WITNESS es \in Seq(JournalEntry), docs \in Seq(Document), c \in Int
  <2> QED
    BY <2>4, <2>5, <2>7, <2>8, <2>9
<1> QED
  BY <1>2, <1>3

LEMMA StampsCommit ==
  ASSUME StampInv, commit
  PROVE  StampInv'
<1>1. HistorySound' /\ TypeOK
  BY CommitBooks DEF StampInv, HistorySound
<1>2. PICK e, d : e = Entry /\ d = txn.root
  OBVIOUS
<1>3. /\ e \in JournalEntry /\ e.touched = txn.touched /\ e.before = txn.base /\ e.after = d
      /\ d \in Document /\ e.touched \subseteq Ids
  BY <1>1, <1>2, EntryOfTxn DEF TypeOK
<1>4. /\ doc' = d /\ revision' = revision + 1
      /\ seen' = seen \cup {<<i, d[i]>> : i \in Ids}
      /\ on_commit(e, d) /\ txn' = Closed /\ txn.base = doc
      /\ \A i \in Ids : d[i] = Absent \/ d[i].stamp = revision + 1 \/ d[i] = doc[i]
  BY <1>2 DEF commit, Publish, StampInv, TxnSound
<1>5. \A i \in Ids : <<i, d[i]>> \in seen' /\ <<i, doc[i]>> \in seen'
  BY <1>4 DEF StampInv
<1>6. Identifies(seen', revision')
  <2>1. \A i \in Ids : d[i] = Absent \/ d[i].stamp = revision + 1 \/ <<i, d[i]>> \in seen
    BY <1>4 DEF StampInv
  <2>2. revision \in Nat /\ Identifies(seen, revision)
    BY <1>1 DEF StampInv, TypeOK
  <2>3. PICK S : S = seen'
    OBVIOUS
  <2>4. Identifies(S, revision + 1)
    BY <1>3, <1>4, <2>1, <2>2, <2>3, PublishIdentifies
  <2> QED
    BY <1>4, <2>3, <2>4
<1>7. Recorded(e, seen')
  BY <1>3, <1>4, <1>5 DEF Recorded
<1>8. \A k \in 1 .. Len(entries) : Recorded(entries[k], seen')
  BY <1>4 DEF StampInv, Recorded
<1>9. PICK es \in Seq(JournalEntry), docs \in Seq(Document), c \in Int :
        /\ Len(docs) = Len(es) + 1 /\ es # <<>>
        /\ Trim(es, Len(es), c, budget, docs)
        /\ \/ /\ Coalesces(e) /\ Len(es) = Len(entries) /\ Len(es) = cursor
              /\ es[Len(es)] = Coalesced(entries[Len(es)], e)
              /\ docs[Len(es) + 1] = d
              /\ \A j \in 1 .. Len(es) - 1 : es[j] = entries[j]
              /\ \A j \in 1 .. Len(es) : docs[j] = line[j]
           \/ /\ Len(es) = cursor + 1
              /\ es[cursor + 1] = e /\ docs[cursor + 2] = d
              /\ \A j \in 1 .. cursor : es[j] = entries[j]
              /\ \A j \in 1 .. cursor + 1 : docs[j] = line[j]
  BY <1>1, <1>3, <1>4, CommitLists, Zenon
<1>10. Len(es) \in Nat /\ Len(es) >= 1 /\ cursor \in 0 .. Len(entries) /\ Len(entries) \in Nat
  BY <1>1, <1>9, LenProperties, EmptySeq DEF TypeOK
<1>11. \A k \in 1 .. Len(es) : Recorded(es[k], seen')
  <2>1. CASE /\ Coalesces(e) /\ Len(es) = Len(entries)
             /\ es[Len(es)] = Coalesced(entries[Len(es)], e)
             /\ \A j \in 1 .. Len(es) - 1 : es[j] = entries[j]
    <3>1. PICK tip, f : tip = entries[Len(es)] /\ f = Coalesced(tip, e)
      OBVIOUS
    <3>2. tip \in JournalEntry /\ Recorded(tip, seen')
      <4>1. Len(es) \in 1 .. Len(entries) /\ entries \in Seq(JournalEntry)
        BY <1>1, <1>10, <2>1 DEF TypeOK
      <4> QED
        BY <1>8, <3>1, <4>1, LenProperties
    <3>3. /\ f.touched = tip.touched \cup e.touched
          /\ f.before = [i \in Ids |-> IF i \in tip.touched THEN tip.before[i] ELSE e.before[i]]
          /\ f.after = [i \in Ids |-> IF i \in e.touched THEN e.after[i] ELSE tip.after[i]]
      BY <3>1, <3>2 DEF Coalesced, Costed, JournalEntry
    <3>4. tip.touched \subseteq Ids
      BY <3>2 DEF JournalEntry
    <3>5. Recorded(f, seen')
      BY <1>3, <1>7, <3>2, <3>3, <3>4 DEF Recorded
    <3>6. ASSUME NEW k \in 1 .. Len(es), k # Len(es) PROVE Recorded(es[k], seen')
      <4>1. k \in 1 .. Len(es) - 1 /\ k \in 1 .. Len(entries)
        BY <1>10, <2>1, <3>6
      <4>2. es[k] = entries[k] /\ Recorded(entries[k], seen')
        BY <1>8, <2>1, <4>1
      <4> QED
        BY <4>2
    <3> QED
      BY <2>1, <3>1, <3>5, <3>6
  <2>2. CASE /\ Len(es) = cursor + 1 /\ es[cursor + 1] = e
             /\ \A j \in 1 .. cursor : es[j] = entries[j]
    <3>1. ASSUME NEW k \in 1 .. Len(es), k # Len(es) PROVE Recorded(es[k], seen')
      <4>1. k \in 1 .. cursor /\ k \in 1 .. Len(entries)
        BY <1>10, <2>2, <3>1
      <4>2. es[k] = entries[k] /\ Recorded(entries[k], seen')
        BY <1>8, <2>2, <4>1
      <4> QED
        BY <4>2
    <3> QED
      BY <1>7, <2>2, <3>1
  <2> QED
    BY <1>9, <2>1, <2>2
<1>12. \A k \in 1 .. Len(entries') : Recorded(entries'[k], seen')
  <2>1. Len(es) \in 0 .. Len(es) /\ budget \in Nat
    BY <1>1, <1>10 DEF TypeOK
  <2>2. PICK S : S = seen'
    OBVIOUS
  <2>3. \A k \in 1 .. Len(es) : Recorded(es[k], S)
    BY <1>11, <2>2
  <2>4. \A k \in 1 .. Len(entries') : Recorded(entries'[k], S)
    BY <1>9, <2>1, <2>3, TrimRecorded
  <2> QED
    BY <2>2, <2>4
<1>13. TxnSound'
  BY <1>4 DEF TxnSound, Closed
<1> QED
  BY <1>1, <1>4, <1>5, <1>6, <1>12, <1>13 DEF StampInv

LEMMA StampsNavigate ==
  ASSUME ~ Overlap, StampInv, undo \/ redo
  PROVE  StampInv'
<1>1. HistorySound' /\ TypeOK
  BY NavigateBooks DEF StampInv, HistorySound
<1>2. /\ entries \in Seq(JournalEntry) /\ cursor \in 0 .. Len(entries) /\ Len(entries) \in Nat
      /\ \A k \in 1 .. Len(entries) : entries[k] \in JournalEntry
  BY <1>1, LenProperties DEF TypeOK
<1>3. PICK k \in 1 .. Len(entries), side \in Document :
        /\ Navigate(entries[k], side)
        /\ \A i \in entries[k].touched : <<i, side[i]>> \in seen
  <2>1. CASE undo
    <3>1. cursor \in 1 .. Len(entries)
      BY <1>2, <2>1 DEF undo
    <3>2. entries[cursor].before \in Document /\ Recorded(entries[cursor], seen)
      BY <1>2, <3>1 DEF JournalEntry, StampInv
    <3> QED
      BY <2>1, <3>1, <3>2 DEF undo, Recorded
  <2>2. CASE redo
    <3>1. cursor + 1 \in 1 .. Len(entries)
      BY <1>2, <2>2 DEF redo
    <3>2. entries[cursor + 1].after \in Document /\ Recorded(entries[cursor + 1], seen)
      BY <1>2, <3>1 DEF JournalEntry, StampInv
    <3> QED
      BY <2>2, <3>1, <3>2 DEF redo, Recorded
  <2> QED
    BY <1>1, <2>1, <2>2
<1>4. PICK d : d = Rebound(doc, entries[k], side)
  OBVIOUS
<1>5. /\ doc' = d /\ revision' = revision + 1 /\ seen' = seen \cup {<<i, d[i]>> : i \in Ids}
      /\ txn' = txn /\ txn.status = "closed" /\ entries' = entries
  BY <1>3, <1>4 DEF Navigate, Publish
<1>6. \A i \in Ids : <<i, d[i]>> \in seen
  BY <1>3, <1>4 DEF Rebound, StampInv
<1>7. seen' = seen
  BY <1>5, <1>6
<1>8. Identifies(seen, revision + 1)
  <2>1. ASSUME NEW i \in Ids, NEW r \in Record, <<i, r>> \in seen PROVE r.stamp <= revision + 1
    <3>1. r.stamp <= revision
      BY <2>1 DEF StampInv, Identifies
    <3>2. r.stamp \in Nat /\ revision \in Nat
      BY <1>1 DEF Record, TypeOK
    <3> QED
      BY <3>1, <3>2
  <2> QED
    BY <2>1 DEF StampInv, Identifies
<1>9. TxnSound'
  BY <1>5 DEF TxnSound
<1> QED
  BY <1>1, <1>5, <1>6, <1>7, <1>8, <1>9 DEF StampInv

LEMMA StampsBudget ==
  ASSUME StampInv, NEW b \in Budgets, set_byte_budget(b)
  PROVE  StampInv'
<1>1. HistorySound' /\ TypeOK
  BY BudgetBooks DEF StampInv, HistorySound
<1>2. /\ entries \in Seq(JournalEntry) /\ line \in Seq(Document) /\ Len(line) = Len(entries) + 1
      /\ cursor \in 0 .. Len(entries) /\ total_cost \in Int /\ b \in Nat
  BY <1>1, BudgetsAssumption DEF TypeOK
<1>3. Trim(entries, cursor, total_cost, b, line) /\ UNCHANGED <<doc, revision, seen, txn>>
  BY DEF set_byte_budget, modelVars
<1>4. \A k \in 1 .. Len(entries) : Recorded(entries[k], seen)
  BY DEF StampInv
<1>5. PICK S : S = seen
  OBVIOUS
<1>6. \A k \in 1 .. Len(entries) : Recorded(entries[k], S)
  BY <1>4, <1>5
<1>7. \A k \in 1 .. Len(entries') : Recorded(entries'[k], S)
  BY <1>2, <1>3, <1>6, TrimRecorded
<1> QED
  BY <1>1, <1>3, <1>5, <1>7 DEF StampInv, TxnSound

LEMMA StampsReopen ==
  ASSUME StampInv, reopen
  PROVE  StampInv'
<1>1. HistorySound' /\ TypeOK
  BY ReopenBooks DEF StampInv, HistorySound
<1>2. /\ doc' = durable /\ txn' = Closed /\ entries' = <<>>
      /\ seen' = {<<i, durable[i]>> : i \in Ids}
      /\ revision' = IF Present(durable) = {} THEN 0
                     ELSE 1 + Max0({durable[i].stamp : i \in Present(durable)})
  BY DEF reopen
<1>3. durable \in Document /\ \A i \in Ids : durable[i] \in Record
  BY <1>1 DEF TypeOK, Document
<1>4. ASSUME NEW i \in Ids PROVE durable[i].stamp <= revision'
  <2>1. CASE i \in Present(durable)
    <3>1. PICK m \in Nat : m = Max0({durable[j].stamp : j \in Present(durable)})
      BY <1>3, FileBounds
    <3>2. durable[i].stamp <= m
      BY <1>3, <2>1, <3>1, FileBounds
    <3>3. revision' = 1 + m
      BY <1>2, <2>1, <3>1
    <3>4. durable[i].stamp \in Nat
      BY <1>3 DEF Record
    <3> QED
      BY <3>2, <3>3, <3>4
  <2>2. CASE i \notin Present(durable)
    <3>1. durable[i].stamp = 0
      BY <2>2 DEF Present, Absent
    <3>2. revision' \in Nat
      BY <1>1 DEF HistorySound, TypeOK
    <3> QED
      BY <3>1, <3>2
  <2> QED
    BY <2>1, <2>2
<1>5. ASSUME NEW i \in Ids, NEW r \in Record, <<i, r>> \in seen' PROVE r = durable[i]
  BY <1>2, <1>5
<1>6. Identifies(seen', revision')
  BY <1>4, <1>5 DEF Identifies
<1>7. \A i \in Ids : <<i, doc'[i]>> \in seen'
  BY <1>2
<1>8. \A k \in 1 .. Len(entries') : Recorded(entries'[k], seen')
  BY <1>2, EmptySeq
<1>9. TxnSound'
  BY <1>2 DEF TxnSound, Closed
<1> QED
  BY <1>1, <1>6, <1>7, <1>8, <1>9 DEF StampInv

LEMMA StampsStep == ~ Overlap /\ StampInv /\ [Next]_vars => StampInv'
<1> SUFFICES ASSUME ~ Overlap, StampInv, [Next]_vars PROVE StampInv'
  OBVIOUS
<1>1. CASE checkpoint \/ UNCHANGED vars
  <2>1. HistorySound'
    BY <1>1, BooksStep DEF StampInv, Next
  <2>2. UNCHANGED <<doc, revision, seen, txn, entries>>
    BY <1>1 DEF checkpoint, vars, modelVars, fileVars, journalVars
  <2> QED
    BY <2>1, <2>2 DEF StampInv, TxnSound
<1> QED
  BY <1>1, StampsEdit, StampsCommit, StampsNavigate, StampsBudget, StampsReopen DEF Next

(***************************************************************************)
(* In one session a stamp belongs to one record of an object, although     *)
(* undo restores records with their old stamps and a reopen keeps those of *)
(* the file (Transaction::stamp, Model::navigate, Model::open): a document *)
(* may have any number of objects, commits, undos and reopens.             *)
(***************************************************************************)
THEOREM StampsAreUnique ==
  ASSUME ~ Overlap
  PROVE  Spec => []StampsIdentify
<1>1. StampInv /\ [Next]_vars => StampInv'
  BY StampsStep
<1> QED
  BY <1>1, StampsInit, StampsFollow, PTL DEF Spec

(***************************************************************************)
(* A publish is one revision increment (Transaction::commit,               *)
(* Model::navigate): a commit publishes the revision its transaction has   *)
(* stamped, which is still the next one.                                   *)
(***************************************************************************)
THEOREM RevisionsAdvance ==
  ASSUME ~ Overlap
  PROVE  Spec => RevisionAdvances
<1>1. StampInv /\ [Next]_vars => StampInv'
  BY StampsStep
<1>2. StampInv /\ [Next]_vars => [doc' # doc /\ reopens' = reopens => revision' = revision + 1]_vars
  <2> SUFFICES ASSUME StampInv, Next, doc' # doc, reopens' = reopens
               PROVE  revision' = revision + 1
    OBVIOUS
  <2>1. CASE commit
    BY <2>1 DEF commit, Publish, StampInv, TxnSound
  <2>2. CASE undo \/ redo
    BY <2>2 DEF undo, redo, Navigate, Publish
  <2>3. CASE reopen
    BY <2>3 DEF reopen, StampInv, HistorySound, TypeOK
  <2>4. CASE checkpoint \/ \E b \in Budgets : set_byte_budget(b)
    BY <2>4 DEF checkpoint, set_byte_budget, modelVars
  <2>5. CASE transact \/ add \/ Exhaust \/ abort \/ (\E id \in Ids : set(id) \/ remove(id))
               \/ (\E key \in Keys : coalesce(key))
    BY <2>5, TxnSteps DEF StampInv
  <2> QED
    BY <2>1, <2>2, <2>3, <2>4, <2>5 DEF Next
<1> QED
  BY <1>1, <1>2, StampsInit, PTL DEF Spec, RevisionAdvances

-----------------------------------------------------------------------------
(* Navigation.                                                             *)

\* An entry leads from document d to document f.
Links(d, e, f) ==
  \A i \in Ids : IF i \in e.touched THEN d[i] = e.before[i] /\ f[i] = e.after[i] ELSE f[i] = d[i]

\* Every entry leads from the document at its place of the line to the next.
Linked(es, docs) == \A k \in 1 .. Len(es) : Links(docs[k], es[k], docs[k + 1])

HistoryInv == StampInv /\ Linked(entries, line) /\ NavigationReturns

LEMMA NavigationInit == Init => HistoryInv
<1> SUFFICES ASSUME Init PROVE HistoryInv
  OBVIOUS
<1>1. entries = <<>> /\ cursor = 0 /\ line = <<doc>>
  BY DEF Init
<1>2. Linked(entries, line)
  BY <1>1, EmptySeq DEF Linked
<1>3. NavigationReturns
  BY <1>1 DEF NavigationReturns
<1> QED
  BY <1>2, <1>3, StampsInit DEF HistoryInv

\* Trimming keeps the links, and the place in the line when it stays in the list.
LEMMA TrimLinked ==
  ASSUME NEW es \in Seq(JournalEntry), NEW docs \in Seq(Document), Len(docs) = Len(es) + 1,
         NEW cur \in 0 .. Len(es), NEW c \in Int, NEW b \in Nat, Trim(es, cur, c, b, docs),
         Linked(es, docs), cur >= Trimmed(es, c, b)
  PROVE  Linked(entries', line') /\ line'[cursor' + 1] = docs[cur + 1]
<1>1. PICK k \in 0 .. Len(es) : k = Trimmed(es, c, b) /\ Drops(k, es, cur, docs)
  BY TrimShifts
<1>2. Len(es) \in Nat /\ k <= cur
  BY <1>1, LenProperties
<1>3. ASSUME NEW j \in 1 .. Len(es) - k
      PROVE  Links(line'[j], entries'[j], line'[j + 1])
  <2>1. PICK m : m = k + j
    OBVIOUS
  <2>2. m \in 1 .. Len(es) /\ k + (j + 1) = m + 1
    BY <1>2, <2>1
  <2>3. j \in 1 .. Len(docs) - k /\ j + 1 \in 1 .. Len(docs) - k
    BY <1>2
  <2>4. entries'[j] = es[m] /\ line'[j] = docs[m]
    BY <1>1, <2>1, <2>3 DEF Drops
  <2>5. line'[j + 1] = docs[m + 1]
    <3>1. line'[j + 1] = docs[k + (j + 1)]
      BY <1>1, <2>3 DEF Drops
    <3> QED
      BY <2>2, <3>1
  <2>6. Links(docs[m], es[m], docs[m + 1])
    BY <2>2 DEF Linked
  <2> QED
    BY <2>4, <2>5, <2>6
<1>4. line'[cursor' + 1] = docs[cur + 1]
  <2>1. PICK n : n = cursor' + 1
    OBVIOUS
  <2>2. n \in 1 .. Len(docs) - k /\ k + n = cur + 1
    <3>1. cursor' = cur - k
      <4>1. cursor' = IF cur > k THEN cur - k ELSE 0
        BY <1>1 DEF Drops
      <4> QED
        BY <1>2, <4>1
    <3> QED
      BY <1>2, <2>1, <3>1
  <2>3. line'[n] = docs[k + n]
    BY <1>1, <2>2 DEF Drops
  <2> QED
    BY <2>1, <2>2, <2>3
<1>5. Linked(entries', line')
  BY <1>1, <1>3 DEF Linked, Drops
<1> QED
  BY <1>4, <1>5

\* Two entries in a row lead where their coalesced entry does.
LEMMA CoalescedLinks ==
  ASSUME NEW e \in JournalEntry, NEW f \in JournalEntry, NEW d, NEW m, NEW u,
         Links(d, e, m), Links(m, f, u)
  PROVE  Links(d, Coalesced(e, f), u)
<1>1. PICK g : g = Coalesced(e, f)
  OBVIOUS
<1>2. /\ g.touched = e.touched \cup f.touched
      /\ g.before = [i \in Ids |-> IF i \in e.touched THEN e.before[i] ELSE f.before[i]]
      /\ g.after = [i \in Ids |-> IF i \in f.touched THEN f.after[i] ELSE e.after[i]]
  BY <1>1 DEF Coalesced, Costed, JournalEntry
<1>3. ASSUME NEW i \in Ids
      PROVE  IF i \in g.touched THEN d[i] = g.before[i] /\ u[i] = g.after[i] ELSE u[i] = d[i]
  BY <1>2 DEF Links
<1> QED
  BY <1>1, <1>3 DEF Links

LEMMA NavigationCommit ==
  ASSUME HistoryInv, commit
  PROVE  Linked(entries', line') /\ NavigationReturns'
<1>1. TypeOK
  BY DEF HistoryInv, StampInv, HistorySound
<1>2. PICK e, d : e = Entry /\ d = txn.root
  OBVIOUS
<1>3. /\ e \in JournalEntry /\ e.touched = txn.touched /\ e.before = txn.base /\ e.after = d
      /\ d \in Document
  BY <1>1, <1>2, EntryOfTxn DEF TypeOK
<1>4. /\ doc' = d /\ on_commit(e, d) /\ txn.base = doc
      /\ \A i \in Ids \ txn.touched : d[i] = doc[i]
  BY <1>2 DEF commit, Publish, HistoryInv, StampInv, TxnSound
<1>5. doc = line[cursor + 1] /\ Links(line[cursor + 1], e, d)
  BY <1>3, <1>4 DEF HistoryInv, NavigationReturns, Links
<1>6. PICK es \in Seq(JournalEntry), docs \in Seq(Document), c \in Int :
        /\ Len(docs) = Len(es) + 1 /\ es # <<>>
        /\ Trim(es, Len(es), c, budget, docs)
        /\ \/ /\ Coalesces(e) /\ Len(es) = Len(entries) /\ Len(es) = cursor
              /\ es[Len(es)] = Coalesced(entries[Len(es)], e)
              /\ docs[Len(es) + 1] = d
              /\ \A j \in 1 .. Len(es) - 1 : es[j] = entries[j]
              /\ \A j \in 1 .. Len(es) : docs[j] = line[j]
           \/ /\ Len(es) = cursor + 1
              /\ es[cursor + 1] = e /\ docs[cursor + 2] = d
              /\ \A j \in 1 .. cursor : es[j] = entries[j]
              /\ \A j \in 1 .. cursor + 1 : docs[j] = line[j]
  BY <1>1, <1>3, <1>4, CommitLists, Zenon
<1>7. PICK n : n = Len(es)
  OBVIOUS
<1>8. /\ n \in Nat /\ n >= 1 /\ cursor \in 0 .. Len(entries) /\ Len(entries) \in Nat
      /\ entries \in Seq(JournalEntry)
  BY <1>1, <1>6, <1>7, LenProperties, EmptySeq DEF TypeOK
<1>9. ASSUME NEW j \in 1 .. n - 1 PROVE Links(docs[j], es[j], docs[j + 1])
  <2>1. j \in 1 .. Len(entries) /\ j + 1 \in 1 .. n
    BY <1>6, <1>7, <1>8
  <2>2. Links(line[j], entries[j], line[j + 1])
    BY <2>1 DEF HistoryInv, Linked
  <2>3. es[j] = entries[j] /\ docs[j] = line[j] /\ docs[j + 1] = line[j + 1]
    <3>1. CASE /\ \A i \in 1 .. Len(es) - 1 : es[i] = entries[i]
               /\ \A i \in 1 .. Len(es) : docs[i] = line[i]
      BY <1>7, <1>8, <2>1, <3>1
    <3>2. CASE /\ Len(es) = cursor + 1
               /\ \A i \in 1 .. cursor : es[i] = entries[i]
               /\ \A i \in 1 .. cursor + 1 : docs[i] = line[i]
      BY <1>7, <1>8, <2>1, <3>2
    <3> QED
      BY <1>6, <3>1, <3>2
  <2> QED
    BY <2>2, <2>3
<1>10. Links(docs[n], es[n], docs[n + 1]) /\ docs[n + 1] = d
  <2>1. CASE /\ Len(es) = Len(entries) /\ Len(es) = cursor
             /\ es[Len(es)] = Coalesced(entries[Len(es)], e)
             /\ docs[Len(es) + 1] = d
             /\ \A j \in 1 .. Len(es) : docs[j] = line[j]
    <3>1. PICK tip : tip = entries[n]
      OBVIOUS
    <3>2. tip \in JournalEntry /\ Links(line[n], tip, line[n + 1])
      <4>1. n \in 1 .. Len(entries)
        BY <1>7, <1>8, <2>1
      <4> QED
        BY <1>8, <3>1, <4>1, LenProperties DEF HistoryInv, Linked
    <3>3. Links(line[n + 1], e, d)
      BY <1>5, <1>7, <2>1
    <3>4. Links(line[n], Coalesced(tip, e), d)
      BY <1>3, <3>2, <3>3, CoalescedLinks
    <3>5. docs[n] = line[n] /\ es[n] = Coalesced(tip, e) /\ docs[n + 1] = d
      BY <1>7, <1>8, <2>1, <3>1
    <3> QED
      BY <3>4, <3>5
  <2>2. CASE /\ Len(es) = cursor + 1
             /\ es[cursor + 1] = e /\ docs[cursor + 2] = d
             /\ \A j \in 1 .. cursor + 1 : docs[j] = line[j]
    <3>1. n = cursor + 1 /\ n + 1 = cursor + 2 /\ n \in 1 .. cursor + 1
      BY <1>7, <1>8, <2>2
    <3>2. docs[n] = line[n] /\ es[n] = e /\ docs[n + 1] = d
      BY <2>2, <3>1
    <3> QED
      BY <1>5, <3>1, <3>2
  <2> QED
    BY <1>6, <2>1, <2>2
<1>11. Linked(es, docs)
  <2>1. ASSUME NEW j \in 1 .. n PROVE Links(docs[j], es[j], docs[j + 1])
    <3>1. CASE j = n
      BY <1>10, <3>1
    <3>2. CASE j # n
      <4>1. j \in 1 .. n - 1
        BY <1>8, <3>2
      <4> QED
        BY <1>9, <4>1
    <3> QED
      BY <3>1, <3>2
  <2> QED
    BY <1>7, <2>1 DEF Linked
<1>12. budget \in Nat /\ Len(es) \in 0 .. Len(es) /\ Len(es) >= Trimmed(es, c, budget)
  <2>1. budget \in Nat
    BY <1>1 DEF TypeOK
  <2>2. Trimmed(es, c, budget) \in 0 .. Len(es)
    BY <2>1, TrimmedFits
  <2> QED
    BY <1>7, <1>8, <2>1, <2>2
<1>13. Linked(entries', line') /\ line'[cursor' + 1] = docs[Len(es) + 1]
  BY <1>6, <1>11, <1>12, TrimLinked
<1> QED
  BY <1>4, <1>7, <1>10, <1>13 DEF NavigationReturns

LEMMA NavigationUndo ==
  ASSUME HistoryInv, undo
  PROVE  Linked(entries', line') /\ NavigationReturns'
<1>1. TypeOK
  BY DEF HistoryInv, StampInv, HistorySound
<1>2. PICK k : k = cursor
  OBVIOUS
<1>3. PICK e, d, f : e = entries[k] /\ d = line[k] /\ f = line[k + 1]
  OBVIOUS
<1>4. k \in 1 .. Len(entries) /\ k \in 1 .. Len(line) /\ k + 1 = cursor + 1 /\ k - 1 + 1 = k
  <2>1. Len(entries) \in Nat /\ cursor \in 0 .. Len(entries) /\ Len(line) = Len(entries) + 1
    BY <1>1, LenProperties DEF TypeOK
  <2> QED
    BY <1>2, <2>1 DEF undo
<1>5. /\ doc' = Rebound(doc, e, e.before) /\ cursor' = k - 1
      /\ entries' = entries /\ line' = line
  BY <1>2, <1>3 DEF undo, Navigate, Publish
<1>6. doc = f /\ Links(d, e, f)
  BY <1>2, <1>3, <1>4 DEF HistoryInv, NavigationReturns, Linked
<1>7. d \in Document /\ doc \in Document
  BY <1>1, <1>3, <1>4 DEF TypeOK
<1>8. doc' = d
  <2>1. PICK g : g = Rebound(doc, e, e.before)
    OBVIOUS
  <2>2. g = [i \in Ids |-> IF i \in e.touched THEN e.before[i] ELSE doc[i]]
    BY <2>1 DEF Rebound
  <2>3. ASSUME NEW i \in Ids PROVE d[i] = IF i \in e.touched THEN e.before[i] ELSE doc[i]
    BY <1>6 DEF Links
  <2>4. d = [i \in Ids |-> d[i]]
    BY <1>7 DEF Document
  <2> QED
    BY <1>5, <2>1, <2>2, <2>3, <2>4
<1>9. NavigationReturns'
  BY <1>3, <1>4, <1>5, <1>8 DEF NavigationReturns
<1> QED
  BY <1>5, <1>9 DEF HistoryInv

LEMMA NavigationRedo ==
  ASSUME HistoryInv, redo
  PROVE  Linked(entries', line') /\ NavigationReturns'
<1>1. TypeOK
  BY DEF HistoryInv, StampInv, HistorySound
<1>2. PICK k : k = cursor + 1
  OBVIOUS
<1>3. PICK e, d, f : e = entries[k] /\ d = line[k] /\ f = line[k + 1]
  OBVIOUS
<1>4. k \in 1 .. Len(entries) /\ k + 1 \in 1 .. Len(line)
  <2>1. Len(entries) \in Nat /\ cursor \in 0 .. Len(entries) /\ Len(line) = Len(entries) + 1
    BY <1>1, LenProperties DEF TypeOK
  <2> QED
    BY <1>2, <2>1 DEF redo
<1>5. /\ doc' = Rebound(doc, e, e.after) /\ cursor' = k
      /\ entries' = entries /\ line' = line
  BY <1>2, <1>3 DEF redo, Navigate, Publish
<1>6. doc = d /\ Links(d, e, f)
  BY <1>2, <1>3, <1>4 DEF HistoryInv, NavigationReturns, Linked
<1>7. f \in Document
  BY <1>1, <1>3, <1>4 DEF TypeOK
<1>8. doc' = f
  <2>1. PICK g : g = Rebound(doc, e, e.after)
    OBVIOUS
  <2>2. g = [i \in Ids |-> IF i \in e.touched THEN e.after[i] ELSE doc[i]]
    BY <2>1 DEF Rebound
  <2>3. ASSUME NEW i \in Ids PROVE f[i] = IF i \in e.touched THEN e.after[i] ELSE doc[i]
    BY <1>6 DEF Links
  <2>4. f = [i \in Ids |-> f[i]]
    BY <1>7 DEF Document
  <2> QED
    BY <1>5, <2>1, <2>2, <2>3, <2>4
<1>9. NavigationReturns'
  BY <1>3, <1>5, <1>8 DEF NavigationReturns
<1> QED
  BY <1>5, <1>9 DEF HistoryInv

\* A budget that trims applied entries only keeps the place in the line.
LEMMA NavigationBudget ==
  ASSUME ~ TrimsUndone, HistoryInv, NEW b \in Budgets, set_byte_budget(b)
  PROVE  Linked(entries', line') /\ NavigationReturns'
<1>1. TypeOK
  BY DEF HistoryInv, StampInv, HistorySound
<1>2. /\ entries \in Seq(JournalEntry) /\ line \in Seq(Document) /\ Len(line) = Len(entries) + 1
      /\ cursor \in 0 .. Len(entries) /\ total_cost \in Int /\ b \in Nat
  BY <1>1, BudgetsAssumption DEF TypeOK
<1>3. /\ Trim(entries, cursor, total_cost, b, line) /\ doc' = doc
      /\ cursor >= Trimmed(entries, total_cost, b)
  BY DEF set_byte_budget, modelVars
<1>4. Linked(entries, line) /\ doc = line[cursor + 1]
  BY DEF HistoryInv, NavigationReturns
<1>5. Linked(entries', line') /\ line'[cursor' + 1] = line[cursor + 1]
  BY <1>2, <1>3, <1>4, TrimLinked
<1> QED
  BY <1>3, <1>4, <1>5 DEF NavigationReturns

LEMMA NavigationReopen ==
  ASSUME reopen
  PROVE  Linked(entries', line') /\ NavigationReturns'
<1>1. doc' = durable /\ entries' = <<>> /\ cursor' = 0 /\ line' = <<durable>>
  BY DEF reopen
<1>2. Linked(entries', line')
  BY <1>1, EmptySeq DEF Linked
<1> QED
  BY <1>1, <1>2 DEF NavigationReturns

LEMMA HistoryStep == ~ Overlap /\ ~ TrimsUndone /\ HistoryInv /\ [Next]_vars => HistoryInv'
<1> SUFFICES ASSUME ~ Overlap, ~ TrimsUndone, HistoryInv, [Next]_vars PROVE HistoryInv'
  OBVIOUS
<1>1. StampInv'
  BY StampsStep DEF HistoryInv
<1>2. ASSUME UNCHANGED <<doc, journalVars>> PROVE Linked(entries', line') /\ NavigationReturns'
  BY <1>2 DEF HistoryInv, NavigationReturns, journalVars
<1>3. ASSUME checkpoint \/ UNCHANGED vars PROVE Linked(entries', line') /\ NavigationReturns'
  BY <1>2, <1>3 DEF checkpoint, vars, modelVars
<1>4. ASSUME transact \/ add \/ Exhaust \/ abort \/ (\E id \in Ids : set(id) \/ remove(id))
               \/ (\E key \in Keys : coalesce(key))
      PROVE  Linked(entries', line') /\ NavigationReturns'
  <2>1. UNCHANGED <<doc, revision, seen, fileVars, journalVars>>
    BY <1>4, TxnSteps DEF HistoryInv, StampInv
  <2> QED
    BY <1>2, <2>1
<1>5. Linked(entries', line') /\ NavigationReturns'
  BY <1>3, <1>4, NavigationCommit, NavigationUndo, NavigationRedo, NavigationBudget,
     NavigationReopen DEF Next
<1> QED
  BY <1>1, <1>5 DEF HistoryInv

(***************************************************************************)
(* The user finds again what the history says (Model::navigate,            *)
(* Journal::on_commit and trim): at every position of the cursor the       *)
(* document is the one published when the history stood there, as long as  *)
(* the host does not undo with a transaction open and no smaller budget    *)
(* trims an entry that is undone.                                          *)
(***************************************************************************)
THEOREM NavigationFindsHistory ==
  ASSUME ~ Overlap, ~ TrimsUndone
  PROVE  Spec => []NavigationReturns
<1>1. HistoryInv /\ [Next]_vars => HistoryInv'
  BY HistoryStep
<1>2. HistoryInv => NavigationReturns
  BY DEF HistoryInv
<1> QED
  BY <1>1, <1>2, NavigationInit, PTL DEF Spec
=============================================================================
