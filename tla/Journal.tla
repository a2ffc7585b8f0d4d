------------------------------- MODULE Journal -------------------------------
(***************************************************************************)
(* The document's edit history: transactions over an immutable document,   *)
(* published versions and the undo/redo journal (Model::Transaction,       *)
(* Model::navigate, Journal).  All of it runs on the writer thread.        *)
(*                                                                         *)
(* Abstractions.  A document maps ids to records; the persistent map that  *)
(* holds it is a function.  A record is its revision stamp and a serial    *)
(* number no two records share, in place of its fields.  An entry's cost   *)
(* counts the record edges it owns.                                        *)
(***************************************************************************)
EXTENDS Integers, Sequences, FiniteSets, Functions, FiniteSetsExt

CONSTANTS MaxId,       \* bound: object ids allocated
          MaxSerial,   \* bound: records written
          MaxRevision, \* bound: versions published
          Keys,        \* gesture keys, 0 = no coalescing
          Budgets,     \* byte budgets a host may set, in record edges
          k_no_budget, \* the budget of a new journal, which never trims
          MaxReopens,  \* bound: times the workspace file is reopened
          Overlap,     \* TRUE: the host may undo while a transaction is open
          TrimsUndone  \* TRUE: it may lower the budget when that trims entries
                       \* that are undone

ASSUME MaxIdAssumption == MaxId \in Nat
ASSUME MaxSerialAssumption == MaxSerial \in Nat
ASSUME MaxRevisionAssumption == MaxRevision \in Nat
ASSUME KeysAssumption == Keys \subseteq Nat
ASSUME BudgetsAssumption == Budgets \subseteq Nat /\ k_no_budget \in Nat
ASSUME MaxReopensAssumption == MaxReopens \in Nat
ASSUME OverlapAssumption == Overlap \in BOOLEAN
ASSUME TrimsUndoneAssumption == TrimsUndone \in BOOLEAN

Ids == 1 .. MaxId
Absent == [stamp |-> 0, serial |-> 0]
Record == [stamp : Nat, serial : Nat]
Document == [Ids -> Record]
k_no_coalesce == 0

VARIABLES
  doc, revision,     \* d_current
  txn,               \* the host's transaction
  next_id, serial,
  entries, cursor, total_cost, budget,
  durable,           \* the document of the last checkpoint
  reopens,           \* times the file has been reopened
  line,              \* history: the document at each position of the cursor
  seen               \* history: every <<id, record>> of a published version

fileVars == <<durable, reopens>>
modelVars == <<doc, revision, next_id, serial, seen, fileVars>>
journalVars == <<entries, cursor, total_cost, budget, line>>
vars == <<modelVars, txn, journalVars>>

Closed == [status |-> "closed", base |-> [i \in Ids |-> Absent], root |-> [i \in Ids |-> Absent],
           touched |-> {}, publish_revision |-> 0, key |-> k_no_coalesce]

\* load_baseline publishes revision 0 with every record stamped 0, and nothing
\* in the journal.
Init ==
  /\ doc = [i \in Ids |-> IF i = 1 THEN [stamp |-> 0, serial |-> 1] ELSE Absent]
  /\ revision = 0 /\ next_id = 2 /\ serial = 2
  /\ txn = Closed
  /\ entries = <<>> /\ cursor = 0 /\ total_cost = 0 /\ budget = k_no_budget
  /\ durable = [i \in Ids |-> Absent] /\ reopens = 0
  /\ line = <<doc>>
  /\ seen = {<<i, doc[i]>> : i \in Ids}

(***************************************************************************)
(* Transactions.                                                           *)
(***************************************************************************)
\* transact: pins the base version.
transact ==
  /\ txn.status = "closed" /\ revision < MaxRevision
  /\ txn' = [status |-> "open", base |-> doc, root |-> doc, touched |-> {},
             publish_revision |-> revision + 1, key |-> k_no_coalesce]
  /\ UNCHANGED <<modelVars, journalVars>>

\* A mutation rebinds one object of the working root.
touch(id, record) ==
  txn' = [txn EXCEPT !.root = [@ EXCEPT ![id] = record], !.touched = @ \cup {id}]

\* A fresh record, stamped with the revision the transaction will publish.
Stamped == [stamp |-> txn.publish_revision, serial |-> serial]

add ==
  /\ txn.status = "open" /\ serial <= MaxSerial /\ next_id <= MaxId
  /\ touch(next_id, Stamped)
  /\ next_id' = next_id + 1 /\ serial' = serial + 1
  /\ UNCHANGED <<doc, revision, seen, fileVars, journalVars>>

\* set_transform and its like copy the record; an absent object is left alone.
set(id) ==
  /\ txn.status = "open" /\ serial <= MaxSerial
  /\ txn.root[id] # Absent
  /\ touch(id, Stamped)
  /\ serial' = serial + 1
  /\ UNCHANGED <<doc, revision, next_id, seen, fileVars, journalVars>>

remove(id) ==
  /\ txn.status = "open"
  /\ txn.root[id] # Absent
  /\ touch(id, Absent)
  /\ UNCHANGED <<modelVars, journalVars>>

coalesce(key) ==
  /\ txn.status = "open"
  /\ txn' = [txn EXCEPT !.key = key]
  /\ UNCHANGED <<modelVars, journalVars>>

\* An allocation fails: the status is sticky, later mutations and the commit do
\* nothing.
Exhaust ==
  /\ txn.status = "open"
  /\ txn' = [txn EXCEPT !.status = "failed"]
  /\ UNCHANGED <<modelVars, journalVars>>

\* abort, or the transaction is dropped without a commit.
abort ==
  /\ txn.status # "closed"
  /\ txn' = Closed
  /\ UNCHANGED <<modelVars, journalVars>>

(***************************************************************************)
(* The journal.                                                            *)
(***************************************************************************)
\* Rebind the objects of an entry to one side of it.
Rebound(d, e, side) == [i \in Ids |-> IF i \in e.touched THEN side[i] ELSE d[i]]

\* The record edges an entry owns, its cost.
entry_cost(e) == Cardinality({i \in e.touched : e.before[i] # Absent})
                 + Cardinality({i \in e.touched : e.after[i] # Absent})
Costed(e) == [e EXCEPT !.cost = entry_cost(e)]

\* Mutant: the state between the two edits is what an undo returns to.
Coalesced_LastBefore(e, f) ==
  Costed([e EXCEPT !.touched = e.touched \cup f.touched,
                   !.before = [i \in Ids |-> IF i \in f.touched THEN f.before[i] ELSE e.before[i]],
                   !.after = [i \in Ids |-> IF i \in f.touched THEN f.after[i] ELSE e.after[i]]])

\* coalesce_entries: the first entry's before, the last one's after.
Coalesced(e, f) ==
  Costed([e EXCEPT !.touched = e.touched \cup f.touched,
                   !.before = [i \in Ids |-> IF i \in e.touched THEN e.before[i] ELSE f.before[i]],
                   !.after = [i \in Ids |-> IF i \in f.touched THEN f.after[i] ELSE e.after[i]]])

CostOf(es) == SumFunction([i \in DOMAIN es |-> es[i].cost])

\* trim: how many entries leave the front of the list of total cost c.
Trimmed(es, c, b) ==
  IF es = <<>> THEN 0
  ELSE Min({k \in 0 .. Len(es) - 1 :
              k = Len(es) - 1 \/ c - CostOf(SubSeq(es, 1, k)) <= b})

\* The end of every commit path and of set_byte_budget: trim the list es whose
\* first cur entries are applied.
Trim(es, cur, c, b, docs) ==
  LET k == Trimmed(es, c, b)
  IN /\ entries' = SubSeq(es, k + 1, Len(es))
     /\ total_cost' = c - CostOf(SubSeq(es, 1, k))
     /\ cursor' = IF cur > k THEN cur - k ELSE 0
     /\ line' = SubSeq(docs, k + 1, Len(docs))

\* on_commit coalesces into the tip, else drops the redo tail and appends.
Coalesces(e) ==
  /\ e.key # k_no_coalesce /\ cursor = Len(entries) /\ entries # <<>>
  /\ entries[Len(entries)].key = e.key

\* Mutant: the redo tail is dropped with its cost still in the total.
on_commit_KeepsTailCost(e, after) ==
  IF Coalesces(e)
  THEN LET tip == entries[Len(entries)]
       IN Trim([entries EXCEPT ![Len(entries)] = Coalesced(tip, e)], cursor,
               total_cost - tip.cost + Coalesced(tip, e).cost, budget,
               [line EXCEPT ![Len(line)] = after])
  ELSE Trim(Append(SubSeq(entries, 1, cursor), e), cursor + 1, total_cost + e.cost, budget,
            Append(SubSeq(line, 1, cursor + 1), after))

on_commit(e, after) ==
  IF Coalesces(e)
  THEN LET tip == entries[Len(entries)]
       IN Trim([entries EXCEPT ![Len(entries)] = Coalesced(tip, e)], cursor,
               total_cost - tip.cost + Coalesced(tip, e).cost, budget,
               [line EXCEPT ![Len(line)] = after])
  ELSE Trim(Append(SubSeq(entries, 1, cursor), e), cursor + 1,
            total_cost - CostOf(SubSeq(entries, cursor + 1, Len(entries))) + e.cost, budget,
            Append(SubSeq(line, 1, cursor + 1), after))

\* The journal entry of the transaction: what its objects were in the base it
\* pinned and are in its root.
Entry ==
  Costed([touched |-> txn.touched, before |-> txn.base, after |-> txn.root,
          key |-> txn.key, cost |-> 0])

Publish(d, r) ==
  /\ doc' = d /\ revision' = r
  /\ seen' = seen \cup {<<i, d[i]>> : i \in Ids}

commit ==
  /\ txn.status = "open"
  /\ Publish(txn.root, txn.publish_revision)
  /\ on_commit(Entry, txn.root)
  /\ txn' = Closed
  /\ UNCHANGED <<next_id, serial, fileVars, budget>>

\* Mutant: an undo republishes under the revision it found.
Navigate_SameRevision(e, side) ==
  /\ Overlap \/ txn.status = "closed"
  /\ revision < MaxRevision
  /\ Publish(Rebound(doc, e, side), revision)
  /\ UNCHANGED <<next_id, serial, fileVars, txn, entries, total_cost, budget, line>>

\* navigate: an ordinary publish.  One that cannot allocate changes nothing.
Navigate(e, side) ==
  /\ Overlap \/ txn.status = "closed"
  /\ revision < MaxRevision
  /\ Publish(Rebound(doc, e, side), revision + 1)
  /\ UNCHANGED <<next_id, serial, fileVars, txn, entries, total_cost, budget, line>>

undo ==
  /\ cursor > 0
  /\ Navigate(entries[cursor], entries[cursor].before)
  /\ cursor' = cursor - 1

redo ==
  /\ cursor < Len(entries)
  /\ Navigate(entries[cursor + 1], entries[cursor + 1].after)
  /\ cursor' = cursor + 1

set_byte_budget(b) ==
  /\ TrimsUndone \/ cursor >= Trimmed(entries, total_cost, b)
  /\ budget' = b
  /\ Trim(entries, cursor, total_cost, b, line)
  /\ UNCHANGED <<modelVars, txn>>

(***************************************************************************)
(* The workspace file keeps the document of the last checkpoint            *)
(* (Workspace.tla says when); the history is not in it.                    *)
(***************************************************************************)
checkpoint ==
  /\ durable' = doc
  /\ UNCHANGED <<doc, revision, next_id, serial, seen, reopens, txn, journalVars>>

Max0(S) == IF S = {} THEN 0 ELSE Max(S)
Present(d) == {i \in Ids : d[i] # Absent}

\* Mutant: the recovered version is published at revision 0.
reopen_AtZero ==
  /\ reopens < MaxReopens /\ reopens' = reopens + 1
  /\ doc' = durable
  /\ revision' = 0
  /\ next_id' = 1 + Max0(Present(durable))
  /\ txn' = Closed
  /\ entries' = <<>> /\ cursor' = 0 /\ total_cost' = 0 /\ budget' = k_no_budget
  /\ line' = <<durable>> /\ seen' = {<<i, durable[i]>> : i \in Ids}
  /\ UNCHANGED <<durable, serial>>

\* rebuild_counts takes the greatest id and stamp; Model::open resumes above.
reopen ==
  /\ reopens < MaxReopens /\ reopens' = reopens + 1
  /\ doc' = durable
  /\ revision' = IF Present(durable) = {} THEN 0
                 ELSE 1 + Max0({durable[i].stamp : i \in Present(durable)})
  /\ next_id' = 1 + Max0(Present(durable))
  /\ txn' = Closed
  /\ entries' = <<>> /\ cursor' = 0 /\ total_cost' = 0 /\ budget' = k_no_budget
  /\ line' = <<durable>> /\ seen' = {<<i, durable[i]>> : i \in Ids}
  /\ UNCHANGED <<durable, serial>>

Next ==
  \/ checkpoint \/ reopen
  \/ transact \/ add \/ Exhaust \/ abort \/ commit
  \/ \E id \in Ids : set(id) \/ remove(id)
  \/ \E key \in Keys : coalesce(key)
  \/ undo \/ redo
  \/ \E b \in Budgets : set_byte_budget(b)

Spec == Init /\ [][Next]_vars

(***************************************************************************)
(* Properties.                                                             *)
(***************************************************************************)
JournalEntry == [touched : SUBSET Ids, before : Document, after : Document,
                 key : Nat, cost : Nat]

TypeOK ==
  /\ doc \in Document /\ durable \in Document /\ reopens \in Nat
  /\ revision \in Nat /\ next_id \in Nat \ {0} /\ serial \in Nat
  /\ txn \in [status : {"closed", "open", "failed"}, base : Document, root : Document,
              touched : SUBSET Ids, publish_revision : Nat, key : Nat]
  /\ entries \in Seq(JournalEntry) /\ cursor \in 0 .. Len(entries)
  /\ total_cost \in Int /\ budget \in Nat
  /\ line \in Seq(Document) /\ Len(line) = Len(entries) + 1
  /\ seen \subseteq Ids \X Record

(* The user finds again what the history says: after any mix of commits,   *)
(* coalesced gestures, undos, redos, dropped redo tails and trimmed        *)
(* entries, the document is the one that was published when the history    *)
(* stood at this position (Model::navigate, Journal::on_commit and trim).  *)
NavigationReturns == doc = line[cursor + 1]

(* A revision stamp identifies what it is the cache key of: in one session *)
(* no object is published with two different records of one stamp,         *)
(* although undo restores old stamps and a reopen keeps the stamps of the  *)
(* file (Transaction::stamp, Model::navigate, Model::open).                *)
StampsIdentify ==
  \A a, b \in seen : a[1] = b[1] /\ a[2].stamp = b[2].stamp /\ a[2] # Absent /\ b[2] # Absent
                     => a[2] = b[2]

(* Every publish is exactly one revision increment (Transaction::commit,   *)
(* Model::navigate).                                                       *)
RevisionAdvances ==
  [][doc' # doc /\ reopens' = reopens => revision' = revision + 1]_vars

(* The running total is what the entries cost, and it exceeds the budget   *)
(* only when a single entry does (Journal::on_commit, trim).               *)
CostAccounted ==
  /\ total_cost = CostOf(entries)
  /\ total_cost <= budget \/ Len(entries) = 1

(* The books of the journal agree: entries, cursor and cost have their     *)
(* types and bounds, and the running cost is that of the entries kept.     *)
HistorySound == TypeOK /\ CostAccounted
=============================================================================
