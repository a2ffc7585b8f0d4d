----------------------------- MODULE Reclamation -----------------------------
(***************************************************************************)
(* Reference counts, the deferred reclamation of slots and the thread that *)
(* drains it (pool/refs.hpp, pool/reclamation.hpp, model/hamt.hpp,         *)
(* runtime/housekeeping.cpp, runtime/housekeeping_thread.cpp).             *)
(*                                                                         *)
(* Any thread may drop the last reference to a slot: it pushes the slot on *)
(* a lock-free list.  The writer after a commit, a host in drain and the   *)
(* background thread on each tick detach the lists and reclaim what is on  *)
(* them, one thread at a time under the mutex of HousekeepingThread.       *)
(*                                                                         *)
(* One action is one atomic operation on shared state, or one critical     *)
(* section.  A record has at most one edge, a node's to a node or to an    *)
(* object record.  The shared pointer that owns a version is folded into   *)
(* the count of its root.  A freed slot may be allocated at once.  The     *)
(* checkpoints that after_commit and tick may make are in Workspace.       *)
(***************************************************************************)
EXTENDS Integers, FiniteSets

CONSTANTS Nodes, Records,  \* slots of the two stores
          Writer, Readers, Keeper,  \* threads
          MaxCreates       \* bound: records created

ASSUME StoresAssumption == Nodes \cap Records = {}
ASSUME ThreadsAssumption == Writer \notin Readers /\ Keeper \notin Readers \cup {Writer}
ASSUME MaxCreatesAssumption == MaxCreates \in Nat

Slots == Nodes \cup Records
Clients == Readers \cup {Writer}
Threads == Clients \cup {Keeper}
nil == "nil"            \* k_reclaim_nil, an empty Ref, a free mutex

ASSUME FiniteAssumption == IsFiniteSet(Slots) /\ IsFiniteSet(Threads)
ASSUME NilAssumption == nil \notin Slots \cup Threads

Stores == 1 .. 2        \* registration order: nodes, then records
StoreOf(s) == IF s \in Nodes THEN 1 ELSE 2

VARIABLES
  count, generation, \* columns of the slot stores
  edge,              \* the SlotRef a record holds
  free,
  d_reclaim_head,    \* each store's list of slots to reclaim
  link,              \* its next column
  d_current,         \* the published root
  held,              \* the Refs each client holds
  thread,            \* where each thread is
  d_mutex, d_stop, d_poke,
  creates,
  due                \* history: what was on the lists when a client called flush

columns == <<count, generation, edge, free>>
lists == <<d_reclaim_head, link>>
refs == <<d_current, held>>
flags == <<d_stop, d_poke>>
vars == <<columns, lists, refs, thread, d_mutex, flags, creates, due>>

Ref(s) == [slot |-> s, gen |-> generation[s]]
NoRef == [slot |-> nil, gen |-> 0]
HeldSlots(t) == {r.slot : r \in held[t]}

Idle == [pc |-> "idle",
         slot |-> nil, expect |-> nil, then |-> "idle",                \* enqueue_reclaim
         batch |-> nil, next |-> nil, store |-> 1, progressed |-> FALSE, \* drain
         job |-> "none",                            \* what the keeper drains for
         ticked |-> FALSE]                          \* flush

Init ==
  /\ count = [s \in Slots |-> 0] /\ generation = [s \in Slots |-> 0]
  /\ edge = [s \in Slots |-> NoRef] /\ free = Slots
  /\ d_reclaim_head = [i \in Stores |-> nil] /\ link = [s \in Slots |-> nil]
  /\ d_current = NoRef /\ held = [t \in Clients |-> {}]
  /\ thread = [t \in Threads |-> IF t = Keeper THEN [Idle EXCEPT !.pc = "start"] ELSE Idle]
  /\ d_mutex = nil /\ d_stop = FALSE /\ d_poke = FALSE
  /\ creates = 0 /\ due = [t \in Clients |-> {}]

(***************************************************************************)
(* References.                                                             *)
(***************************************************************************)
Enqueue(th, s, then) == [th EXCEPT !.pc = "enqueue", !.slot = s, !.then = then]
\* The push is over.
Pushed(th) == [th EXCEPT !.pc = th.then, !.slot = nil, !.expect = nil, !.then = "idle"]

\* Drop a count; the last one goes on to enqueue_reclaim, then to `then'.
release_index(t, s, then) ==
  /\ count' = [count EXCEPT ![s] = @ - 1]
  /\ thread' = [thread EXCEPT ![t] = IF count[s] = 1 THEN Enqueue(thread[t], s, then)
                                     ELSE [thread[t] EXCEPT !.pc = then]]

\* RefStore::create, on the writer, of a record that holds an edge to child.
create(s, child) ==
  /\ thread[Writer].pc = "idle" /\ creates < MaxCreates /\ s \in free
  /\ child # NoRef => s \in Nodes
  /\ free' = free \ {s}
  /\ edge' = [edge EXCEPT ![s] = child]
  /\ count' = [x \in Slots |-> IF x = s THEN 1 ELSE IF x = child.slot THEN count[x] + 1 ELSE count[x]]
  /\ held' = [held EXCEPT ![Writer] = @ \cup {Ref(s)}]
  /\ creates' = creates + 1
  /\ UNCHANGED <<generation, lists, d_current, thread, d_mutex, flags, due>>

\* The commit stores the new root, which takes over the writer's Ref, drops
\* the old version and goes on to after_commit.
publish(r) ==
  /\ thread[Writer].pc = "idle" /\ r.slot \in Nodes
  /\ d_current' = r /\ held' = [held EXCEPT ![Writer] = @ \ {r}]
  /\ IF d_current = NoRef
     THEN /\ thread' = [thread EXCEPT ![Writer].pc = "lock"]
          /\ UNCHANGED count
     ELSE release_index(Writer, d_current.slot, "lock")
  /\ UNCHANGED <<generation, edge, free, lists, d_mutex, flags, creates, due>>

\* Model::current: a client pins the published version.
pin(t) ==
  /\ thread[t].pc = "idle" /\ d_current # NoRef /\ d_current.slot \notin HeldSlots(t)
  /\ count' = [count EXCEPT ![d_current.slot] = @ + 1]
  /\ held' = [held EXCEPT ![t] = @ \cup {d_current}]
  /\ UNCHANGED <<generation, edge, free, lists, d_current, thread, d_mutex, flags, creates, due>>

\* RefStore::resolve of an edge inside a version the client holds.
resolve(t, r) ==
  /\ thread[t].pc = "idle"
  /\ edge[r.slot] # NoRef /\ edge[r.slot].slot \notin HeldSlots(t)
  /\ count' = [count EXCEPT ![edge[r.slot].slot] = @ + 1]
  /\ held' = [held EXCEPT ![t] = @ \cup {edge[r.slot]}]
  /\ UNCHANGED <<generation, edge, free, lists, d_current, thread, d_mutex, flags, creates, due>>

\* Ref::reset.
reset(t, r) ==
  /\ thread[t].pc = "idle"
  /\ held' = [held EXCEPT ![t] = @ \ {r}]
  /\ release_index(t, r.slot, "idle")
  /\ UNCHANGED <<generation, edge, free, lists, d_current, d_mutex, flags, creates, due>>

(***************************************************************************)
(* The lists.                                                              *)
(***************************************************************************)
\* enqueue_reclaim: load the head and link to it ...
enqueue_reclaim(t) ==
  LET s == thread[t].slot
      head == d_reclaim_head[StoreOf(s)]
  IN /\ thread[t].pc = "enqueue"
     /\ link' = [link EXCEPT ![s] = head]
     /\ thread' = [thread EXCEPT ![t].pc = "cas", ![t].expect = head]
     /\ UNCHANGED <<columns, d_reclaim_head, refs, d_mutex, flags, creates, due>>

\* ... and swing it, or link to the head that is there now.
compare_exchange(t) ==
  LET s == thread[t].slot
      head == d_reclaim_head[StoreOf(s)]
  IN /\ thread[t].pc = "cas"
     /\ IF head = thread[t].expect
        THEN /\ d_reclaim_head' = [d_reclaim_head EXCEPT ![StoreOf(s)] = s]
             /\ thread' = [thread EXCEPT ![t] = Pushed(thread[t])]
             /\ UNCHANGED link
        ELSE /\ link' = [link EXCEPT ![s] = head]
             /\ thread' = [thread EXCEPT ![t].expect = head]
             /\ UNCHANGED d_reclaim_head
     /\ UNCHANGED <<columns, refs, d_mutex, flags, creates, due>>

\* ReclamationQueue::drain starts.
Draining(th) == [th EXCEPT !.pc = "exchange", !.store = 1, !.progressed = FALSE]

\* after_commit and drain_and_quiesce take the mutex and drain.
lock(t) ==
  /\ thread[t].pc = "lock" /\ d_mutex = nil
  /\ d_mutex' = t
  /\ thread' = [thread EXCEPT ![t] = Draining(thread[t])]
  /\ UNCHANGED <<columns, lists, refs, flags, creates, due>>

\* Mutant: one pass over the stores is all.
NextStore_OnePass(th) ==
  IF th.store = 1 THEN [th EXCEPT !.pc = "exchange", !.store = 2] ELSE [th EXCEPT !.pc = "quiet"]

\* The next store, another pass if this one reclaimed something, or done.
NextStore(th) ==
  IF th.store = 1 THEN [th EXCEPT !.pc = "exchange", !.store = 2]
  ELSE IF th.progressed THEN Draining(th)
  ELSE [th EXCEPT !.pc = "quiet"]

\* drain_pending detaches a store's list.
drain_pending(t) ==
  LET th == thread[t]
      head == d_reclaim_head[th.store]
  IN /\ th.pc = "exchange"
     /\ d_reclaim_head' = [d_reclaim_head EXCEPT ![th.store] = nil]
     /\ thread' = [thread EXCEPT ![t] =
                     IF head = nil THEN NextStore(th)
                     ELSE [th EXCEPT !.pc = "destruct", !.batch = head, !.progressed = TRUE]]
     /\ UNCHANGED <<columns, link, refs, d_mutex, flags, creates, due>>

\* reclaim runs the destructor, which releases the record's edge.
destruct(t) ==
  LET s == thread[t].batch
      child == edge[s].slot
      zero == child # nil /\ count[child] = 1
  IN /\ thread[t].pc = "destruct"
     /\ edge' = [edge EXCEPT ![s] = NoRef]
     /\ count' = IF child = nil THEN count ELSE [count EXCEPT ![child] = @ - 1]
     /\ thread' = [thread EXCEPT ![t] =
                     LET th == [thread[t] EXCEPT !.pc = "bump", !.next = link[s]]
                     IN IF zero THEN Enqueue(th, child, "bump") ELSE th]
     /\ UNCHANGED <<generation, free, lists, refs, d_mutex, flags, creates, due>>

\* On to the rest of the batch.
NextSlot(th) ==
  IF th.next = nil THEN NextStore([th EXCEPT !.batch = nil])
  ELSE [th EXCEPT !.pc = "destruct", !.batch = th.next, !.next = nil]

\* Mutant: the slot is released before its generation is bumped.
reclaim_ReleaseFirst(t) ==
  /\ \/ /\ thread[t].pc = "bump"
        /\ free' = free \cup {thread[t].batch}
        /\ thread' = [thread EXCEPT ![t].pc = "release"]
        /\ UNCHANGED generation
     \/ /\ thread[t].pc = "release"
        /\ generation' = [generation EXCEPT ![thread[t].batch] = @ + 1]
        /\ thread' = [thread EXCEPT ![t] = NextSlot(thread[t])]
        /\ UNCHANGED free
  /\ UNCHANGED <<count, edge, lists, refs, d_mutex, flags, creates, due>>

\* ... then bumps the slot's generation, and only then releases the slot.
reclaim(t) ==
  /\ \/ /\ thread[t].pc = "bump"
        /\ generation' = [generation EXCEPT ![thread[t].batch] = @ + 1]
        /\ thread' = [thread EXCEPT ![t].pc = "release"]
        /\ UNCHANGED free
     \/ /\ thread[t].pc = "release"
        /\ free' = free \cup {thread[t].batch}
        /\ thread' = [thread EXCEPT ![t] = NextSlot(thread[t])]
        /\ UNCHANGED generation
  /\ UNCHANGED <<count, edge, lists, refs, d_mutex, flags, creates, due>>

\* after_commit and drain_and_quiesce return.
unlock(t) ==
  /\ t \in Clients /\ thread[t].pc = "quiet"
  /\ d_mutex' = nil
  /\ thread' = [thread EXCEPT ![t] = Idle]
  /\ UNCHANGED <<columns, lists, refs, flags, creates, due>>

(***************************************************************************)
(* The background thread.                                                  *)
(***************************************************************************)
\* Mutant: only a poke makes a tick.
Check_NoPeriod(th, elapsed) ==
  IF d_stop THEN [Draining(th) EXCEPT !.job = "exit"]
  ELSE IF d_poke THEN [Draining(th) EXCEPT !.job = "tick"]
  ELSE [th EXCEPT !.pc = "parked"]

\* The wait's predicate under the mutex: stop, tick, or park.
Check(th, elapsed) ==
  IF d_stop THEN [Draining(th) EXCEPT !.job = "exit"]
  ELSE IF elapsed \/ d_poke THEN [Draining(th) EXCEPT !.job = "tick"]
  ELSE [th EXCEPT !.pc = "parked"]

\* run takes the mutex at its start, and again when the wait ends: notified,
\* or with the period elapsed, which is a tick too.
run ==
  /\ thread[Keeper].pc \in {"start", "notified", "elapsed"} /\ d_mutex = nil
  /\ LET th == Check(thread[Keeper], thread[Keeper].pc = "elapsed")
     IN /\ thread' = [thread EXCEPT ![Keeper] = th]
        /\ d_mutex' = IF th.pc = "parked" THEN nil ELSE Keeper
        /\ d_poke' = (d_poke /\ th.job # "tick")
  /\ UNCHANGED <<columns, lists, refs, d_stop, creates, due>>

\* wait_for times out.
period ==
  /\ thread[Keeper].pc = "parked"
  /\ thread' = [thread EXCEPT ![Keeper].pc = "elapsed"]
  /\ UNCHANGED <<columns, lists, refs, d_mutex, flags, creates, due>>

\* d_progress_cv.notify_all.
Progressed(ths) ==
  [t \in Threads |-> IF ths[t].pc = "waiting" THEN [ths[t] EXCEPT !.pc = "recheck"] ELSE ths[t]]

\* ++d_background_ticks: of the count, a flush asks whether it grew since.
Ticked(ths) ==
  [t \in Threads |-> IF ths[t].pc \in {"waiting", "recheck"} THEN [ths[t] EXCEPT !.ticked = TRUE]
                     ELSE ths[t]]

Parked == [Idle EXCEPT !.pc = "parked"]

\* Mutant: the tick wakes no flush.
tick_Silent ==
  /\ thread[Keeper].pc = "quiet" /\ thread[Keeper].job = "tick"
  /\ thread' = Ticked([thread EXCEPT ![Keeper] = Parked])
  /\ d_mutex' = nil
  /\ UNCHANGED <<columns, lists, refs, flags, creates, due>>

\* The tick ends; the mutex kept both flags down, so the thread parks again.
tick ==
  /\ thread[Keeper].pc = "quiet" /\ thread[Keeper].job = "tick"
  /\ thread' = Progressed(Ticked([thread EXCEPT ![Keeper] = Parked]))
  /\ d_mutex' = nil
  /\ UNCHANGED <<columns, lists, refs, flags, creates, due>>

\* The final drain is done.
exit ==
  /\ thread[Keeper].pc = "quiet" /\ thread[Keeper].job = "exit"
  /\ thread' = [thread EXCEPT ![Keeper] = [Idle EXCEPT !.pc = "exited"]]
  /\ d_mutex' = nil
  /\ UNCHANGED <<columns, lists, refs, flags, creates, due>>

\* d_wake_cv.notify_one.
Notified(ths) == [ths EXCEPT ![Keeper].pc = IF @ = "parked" THEN "notified" ELSE @]

(***************************************************************************)
(* What clients call.                                                      *)
(***************************************************************************)
drain_and_quiesce(t) ==
  /\ thread[t].pc = "idle"
  /\ thread' = [thread EXCEPT ![t].pc = "lock"]
  /\ UNCHANGED <<columns, lists, refs, d_mutex, flags, creates, due>>

poke ==
  /\ d_mutex = nil /\ ~d_poke
  /\ d_poke' = TRUE
  /\ thread' = Notified(thread)
  /\ UNCHANGED <<columns, lists, refs, d_mutex, d_stop, creates, due>>

\* The slots from the first one on along the next column: the least set that
\* has it and, with a slot, the next.
Chain(next, first) ==
  {s \in Slots : \A S \in SUBSET Slots :
     first \in S \cup {nil} /\ (\A x \in S : next[x] \in S \cup {nil}) => s \in S}
Listed == UNION {Chain(link, d_reclaim_head[i]) : i \in Stores}

\* The slots on the lists and those that go when these are reclaimed: no client
\* uses them and only records that go refer to them.
InUse == {d_current.slot} \cup UNION {HeldSlots(t) : t \in Clients}
Referrers(s) == {p \in Slots : edge[p].slot = s}
Holders(s) == {t \in Clients : s \in HeldSlots(t)}
Falls(s, S) == s \notin InUse /\ Referrers(s) # {} /\ Referrers(s) \subseteq S
Doomed ==
  {s \in Slots : \A S \in SUBSET Slots :
     Listed \subseteq S /\ (\A x \in Slots : Falls(x, S) => x \in S) => s \in S}

\* flush asks for a tick and waits for one that starts after the call.
flush(t) ==
  /\ thread[t].pc = "idle" /\ d_mutex = nil
  /\ d_poke' = TRUE
  /\ thread' = Notified(IF d_stop THEN thread
                        ELSE [thread EXCEPT ![t] = [Idle EXCEPT !.pc = "waiting"]])
  /\ due' = [due EXCEPT ![t] = IF d_stop THEN {} ELSE {Ref(s) : s \in Doomed}]
  /\ UNCHANGED <<columns, lists, refs, d_mutex, d_stop, creates>>

flush_wakes(t) ==
  /\ thread[t].pc = "recheck" /\ d_mutex = nil
  /\ thread' = [thread EXCEPT ![t] = IF d_stop \/ thread[t].ticked THEN Idle
                                     ELSE [thread[t] EXCEPT !.pc = "waiting"]]
  /\ due' = [due EXCEPT ![t] = IF d_stop \/ thread[t].ticked THEN {} ELSE @]
  /\ UNCHANGED <<columns, lists, refs, d_mutex, flags, creates>>

request_stop ==
  /\ d_mutex = nil /\ ~d_stop
  /\ d_stop' = TRUE
  /\ thread' = Progressed(Notified(thread))
  /\ UNCHANGED <<columns, lists, refs, d_mutex, d_poke, creates, due>>

(***************************************************************************)
(* The specification.                                                      *)
(***************************************************************************)
\* What a thread does next without being called.
Push(t) == enqueue_reclaim(t) \/ compare_exchange(t)
Drain(t) == drain_pending(t) \/ destruct(t) \/ reclaim(t) \/ unlock(t)
Acquire(t) == lock(t) \/ flush_wakes(t)
Loop == period \/ tick \/ exit

Next ==
  \/ \E t \in Threads : Push(t) \/ Drain(t)
  \/ \E t \in Clients : Acquire(t) \/ pin(t) \/ drain_and_quiesce(t) \/ flush(t)
  \/ \E t \in Clients : \E r \in held[t] : resolve(t, r) \/ reset(t, r)
  \/ \E s \in Slots, child \in held[Writer] \cup {NoRef} : create(s, child)
  \/ \E r \in held[Writer] : publish(r)
  \/ run \/ Loop
  \/ poke \/ request_stop

\* The scheduler runs every thread, the period elapses, and the mutex, which
\* is held for one drain at a time, is not denied to one thread for ever.
Fairness ==
  /\ \A t \in Threads : WF_vars(Push(t) \/ Drain(t))
  /\ WF_vars(Loop) /\ SF_vars(run)
  /\ \A t \in Clients : SF_vars(Acquire(t))

Spec == Init /\ [][Next]_vars /\ Fairness

(***************************************************************************)
(* Properties.                                                             *)
(***************************************************************************)
SlotOrNil == Slots \cup {nil}
RefType == [slot : SlotOrNil, gen : Nat]

ThreadState ==
  [pc : {"idle", "enqueue", "cas", "lock", "exchange", "destruct", "bump", "release", "quiet",
         "waiting", "recheck", "start", "parked", "notified", "elapsed", "exited"},
   slot : SlotOrNil, expect : SlotOrNil, then : {"idle", "lock", "bump"},
   batch : SlotOrNil, next : SlotOrNil, store : Stores, progressed : BOOLEAN,
   job : {"none", "tick", "exit"}, ticked : BOOLEAN]

TypeOK ==
  /\ count \in [Slots -> Nat] /\ generation \in [Slots -> Nat]
  /\ edge \in [Slots -> RefType] /\ free \subseteq Slots
  /\ d_reclaim_head \in [Stores -> SlotOrNil] /\ link \in [Slots -> SlotOrNil]
  /\ d_current \in RefType /\ held \in [Clients -> SUBSET RefType]
  /\ thread \in [Threads -> ThreadState]
  /\ d_mutex \in Threads \cup {nil} /\ d_stop \in BOOLEAN /\ d_poke \in BOOLEAN
  /\ creates \in 0 .. MaxCreates /\ due \in [Clients -> SUBSET RefType]

\* Every reference there is: the published root's, the clients', and the
\* edges of records not yet destructed.
AllRefs == ({d_current} \cup {edge[s] : s \in Slots} \cup (UNION {held[t] : t \in Clients})) \ {NoRef}

(* A reference always finds its own record: the slot it names is counted,  *)
(* not freed and of the generation it was taken at, although drops, drains *)
(* and reallocations of slots interleave (RefStore::peek's assertion, and  *)
(* the order of bump and release in RefStore::reclaim).                    *)
RefsAreLive ==
  \A r \in AllRefs : r.slot \notin free /\ count[r.slot] > 0 /\ generation[r.slot] = r.gen

(* The count of an allocated slot is the number of references to it, so    *)
(* that no cascade is cut short and none begins early.                     *)
CountsExact ==
  \A s \in Slots \ free :
    count[s] = Cardinality(Holders(s)) + Cardinality(Referrers(s))
               + (IF d_current.slot = s THEN 1 ELSE 0)

\* Where a slot that nothing refers to can be.
OnList(s) == {i \in Stores : s \in Chain(link, d_reclaim_head[i])}
InPush(s) == {t \in Threads : thread[t].pc \in {"enqueue", "cas"} /\ thread[t].slot = s}
Batch(th) == IF th.pc = "destruct" THEN Chain(link, th.batch)
             ELSE ({th.batch} \ {nil}) \cup Chain(link, th.next)
InBatch(s) == {t \in Threads : s \in Batch(thread[t])}

(* A slot whose count has fallen to zero is in exactly one place until it  *)
(* is free again: being pushed, on one list, or in the batch of one drain. *)
(* None is lost and none is reclaimed twice, whatever pushes race a detach *)
(* (enqueue_reclaim, drain_pending).                                       *)
DeadInOnePlace ==
  \A s \in Slots :
    Cardinality(OnList(s)) + Cardinality(InPush(s)) + Cardinality(InBatch(s))
      = IF s \notin free /\ count[s] = 0 THEN 1 ELSE 0

(* No slot is lost, reclaimed twice or reclaimed while something refers to *)
(* it: references find their records, counts are exact, and a dead slot is *)
(* in one place until it is free (refs.hpp, enqueue_reclaim to reclaim).   *)
SlotsSound == TypeOK /\ RefsAreLive /\ CountsExact /\ DeadInOnePlace


(* When a flush has had its tick, everything that was doomed when it was   *)
(* called has been reclaimed, the whole cascade included (flush: "Wait for *)
(* one tick strictly after this call"; ReclamationQueue::drain).           *)
FlushDrains ==
  \A t \in Clients : thread[t].ticked => \A r \in due[t] : generation[r.slot] # r.gen

(* Unless the thread has been asked to stop before, a slot on a list is    *)
(* reclaimed, with no further commit, flush or poke.                       *)
ListedReclaimed == \A s \in Slots : s \in Listed /\ ~d_stop ~> s \in free

(* flush returns, also when the thread is stopped (flush: "never hangs at  *)
(* teardown").                                                             *)
FlushReturns == \A t \in Clients : thread[t].pc = "waiting" ~> thread[t].pc = "idle"
=============================================================================
