-------------------------- MODULE WorkerPoolProofs --------------------------
(***************************************************************************)
(* Proofs about the render worker pool, for any number of workers, drivers *)
(* and contents.  The inductive invariant says where each outstanding task *)
(* is (in one queue, with the driver that admitted it or with the executor *)
(* that runs it), who holds each closed gate, and what the counters owe.   *)
(***************************************************************************)
EXTENDS WorkerPool, CollectionTheorems

Busy == Holding \cup {"gate"}
Started == {"rendering", "returned", "observed", "gate"}
Parked(c) == Range(d_serial[c].parked)

\* The queues hold each task at most once, on the lane its content belongs to.
QueuesSound ==
  /\ Distinct(d_ready) /\ \A t \in Range(d_ready) : content(t) # Job
  /\ Distinct(d_work_ready) /\ \A t \in Range(d_work_ready) : content(t) = Job
  /\ \A c \in Contents :
       /\ Distinct(d_serial[c].parked)
       /\ \A t \in Parked(c) : content(t) = c /\ serialize(t) /\ t \notin Range(d_ready)
  /\ inline => Range(d_ready) = {} /\ Range(d_work_ready) = {}

\* What a thread has in hand is queued nowhere and in no other hand.
HandsSound ==
  /\ \A e \in Executors :
       /\ executor[e].pc \in Busy => executor[e].task \in Tasks
       /\ executor[e].pc \in Holding => executor[e].task \notin AllQueued
       /\ executor[e].pc = "gate" => serialize(executor[e].task)
       /\ inline => /\ executor[e].pc \notin {"check", "asleep", "exited"}
                    /\ executor[e].pc = "idle" \/ driver[e].pc = "inline"
  /\ \A e, f \in Executors :
       executor[e].pc \in Holding /\ executor[f].pc \in Holding
       /\ executor[e].task = executor[f].task => e = f
  /\ \A o \in Owners : driver[o].pc = "admitted" =>
       /\ driver[o].task \in Tasks /\ owner(driver[o].task) = o
       /\ driver[o].task \notin AllQueued
       /\ \A e \in Executors : executor[e].pc \in Holding => executor[e].task # driver[o].task

\* Who holds the gate of c.
Holder(c) ==
  \/ \E t \in Range(d_ready) : content(t) = c
  \/ \E e \in Executors : Gated(e, c)

\* A gate has at most one holder; before a stop a closed one has one.
HoldersSound ==
  \A c \in NotThreadSafe :
    /\ \A t, u \in Range(d_ready) : content(t) = c /\ content(u) = c => t = u
    /\ \A e, f \in Executors : Gated(e, c) /\ Gated(f, c) => e = f
    /\ \A t \in Range(d_ready), e \in Executors : content(t) = c => ~Gated(e, c)
    /\ Holder(c) \/ Parked(c) # {} => d_serial[c].active
    /\ d_serial[c].active /\ ~d_stop => Holder(c)

\* The count of renders of c is that of the executors that started one.
RendersCounted ==
  \A c \in NotThreadSafe :
    d_serial[c].rendering =
      IF \E e \in Executors : executor[e].pc \in Started /\ content(executor[e].task) = c
      THEN 1 ELSE 0

\* The outstanding tasks.
Out == {t \in Tasks : Outstanding(t)}
OutOf(o) == {t \in Out : owner(t) = o}

\* An owner's claims are its outstanding tasks; a dead owner has none.
ClaimsSound ==
  \A o \in Owners :
    /\ d_outstanding[o] = Cardinality(OutOf(o))
    /\ driver[o].pc = "dead" => d_outstanding[o] = 0

\* A render that has returned left its completion settled or to its content.
ReturnsSettled ==
  \A e \in Executors : executor[e].pc \in {"returned", "observed"} =>
    task[executor[e].task].settler # "none" \/ settled(executor[e].task)

\* Renders whose completion was looked at, and those among them that their
\* content left to nobody.
Observed == {e \in Executors : executor[e].pc = "observed"}
Counted == {e \in Observed : task[executor[e].task].settler = "none"}

\* The counters, while renders are between observe and release_outstanding.
LedgerSound ==
  LET accounted == d_completed + d_dropped + Cardinality(Out) IN
  /\ accounted <= Len(task) + Cardinality(Observed)
  /\ Len(task) + Cardinality(Counted) <= accounted + Cardinality(LeftToSettler)

\* A driver that sleeps has seen every settlement and no stop.
WakesSound ==
  \A o \in Owners :
    /\ driver[o].missed => driver[o].behind
    /\ driver[o].pc = "parked" => o \in Frames /\ ~driver[o].behind /\ ~d_stop

IInv ==
  /\ TypeOK /\ Len(task) <= MaxTasks
  /\ QueuesSound /\ HandsSound /\ HoldersSound /\ RendersCounted
  /\ ClaimsSound /\ ReturnsSettled /\ LedgerSound /\ WakesSound

(***************************************************************************)
(* Steps that move no task: what they leave alone.                         *)
(***************************************************************************)
SameTasks ==
  Tasks' = Tasks /\ \A t \in Tasks : content(t)' = content(t) /\ owner(t)' = owner(t)

\* Every executor keeps what it has in hand and the gate it holds.
SameHands ==
  \A e \in Executors :
    /\ executor'[e].pc \in Holding <=> executor[e].pc \in Holding
    /\ executor'[e].pc = "gate" <=> executor[e].pc = "gate"
    /\ executor[e].pc \in Busy => executor'[e].task = executor[e].task
    /\ inline => /\ executor'[e].pc \notin {"check", "asleep", "exited"}
                 /\ executor[e].pc = "idle" => executor'[e].pc = "idle"

\* No driver is admitted or comes back; one that dies has no claim.
SameDrivers ==
  \A o \in Owners :
    /\ driver'[o].pc = "admitted" <=> driver[o].pc = "admitted"
    /\ driver[o].pc = "admitted" => driver'[o].task = driver[o].task
    /\ driver[o].pc = "inline" => driver'[o].pc = "inline"
    /\ driver'[o].pc = "dead" => driver[o].pc = "dead" \/ d_outstanding[o] = 0

SameQueues ==
  /\ UNCHANGED <<d_ready, d_work_ready>>
  /\ \A c \in Contents : /\ d_serial'[c].parked = d_serial[c].parked
                         /\ d_serial'[c].active = d_serial[c].active

\* No task moves.
Still ==
  /\ UNCHANGED <<inline, d_outstanding>>
  /\ SameQueues /\ SameTasks /\ SameHands /\ SameDrivers
  /\ d_stop => d_stop'

\* A step that moves no task keeps the outstanding tasks, the queues, the
\* gates and the claims.
LEMMA StillSafe ==
  ASSUME TypeOK, QueuesSound, HandsSound, HoldersSound, ClaimsSound, Still
  PROVE  /\ QueuesSound' /\ HandsSound' /\ HoldersSound' /\ ClaimsSound'
         /\ Out' = Out
<1>1. AllQueued' = AllQueued /\ Executors' = Executors
  BY DEF Still, SameQueues, AllQueued, Queued, Executors
<1>2. AllQueued \subseteq Tasks
  <2>1. Range(d_ready) \subseteq Tasks /\ Range(d_work_ready) \subseteq Tasks
    BY QueueHolds DEF TypeOK
  <2>2. \A c \in Contents : Range(d_serial[c].parked) \subseteq Tasks
    BY QueueHolds DEF TypeOK
  <2> QED
    BY <2>1, <2>2 DEF AllQueued, Queued
<1>3. QueuesSound'
  BY <1>1, <1>2 DEF Still, SameTasks, SameQueues, QueuesSound, Parked, AllQueued, Queued, serialize
<1>4. HandsSound'
  <2>1. ASSUME NEW e \in Executors, executor'[e].pc \in Busy
        PROVE  executor'[e].task = executor[e].task /\ executor[e].pc \in Busy
    BY <2>1 DEF Still, SameHands, Busy
  <2>2. ASSUME NEW e \in Executors
        PROVE  /\ executor'[e].pc \in Busy => executor'[e].task \in Tasks
               /\ executor'[e].pc \in Holding => executor'[e].task \notin AllQueued
               /\ executor'[e].pc = "gate" => serialize(executor[e].task)'
    BY <2>1 DEF Still, SameTasks, SameHands, HandsSound, serialize, Busy
  <2>3. ASSUME NEW e \in Executors, inline
        PROVE  /\ executor'[e].pc \notin {"check", "asleep", "exited"}
               /\ executor'[e].pc = "idle" \/ driver'[e].pc = "inline"
    BY <2>3 DEF Still, SameHands, SameDrivers, HandsSound, Executors
  <2>4. \A e, f \in Executors : executor'[e].pc \in Holding /\ executor'[f].pc \in Holding
          /\ executor'[e].task = executor'[f].task => e = f
    BY <2>1 DEF Still, SameHands, HandsSound, Busy
  <2>5. ASSUME NEW o \in Owners, driver'[o].pc = "admitted"
        PROVE  /\ driver'[o].task \in Tasks /\ owner(driver[o].task)' = o
               /\ driver'[o].task \notin AllQueued
               /\ \A e \in Executors : executor'[e].pc \in Holding =>
                    executor'[e].task # driver'[o].task
    BY <2>1, <2>5 DEF Still, SameTasks, SameHands, SameDrivers, HandsSound, Busy
  <2>6. Tasks' = Tasks /\ inline' = inline
    BY DEF Still, SameTasks
  <2> QED
    BY <1>1, <2>2, <2>3, <2>4, <2>5, <2>6 DEF HandsSound
<1>5. \A c \in NotThreadSafe : \A e \in Executors : Gated(e, c)' <=> Gated(e, c)
  BY <1>1 DEF Still, SameTasks, SameHands, HandsSound, Gated, Busy, Holding
<1>6. \A c \in NotThreadSafe : Holder(c)' <=> Holder(c)
  BY <1>1, <1>2, <1>5 DEF Still, SameTasks, SameQueues, Holder, AllQueued, Queued
<1>7. HoldersSound'
  BY ContentsAssumption, <1>1, <1>2, <1>5, <1>6 DEF Still, SameTasks, SameQueues, HoldersSound, Parked, AllQueued, Queued
<1>8. \A t \in Tasks : Outstanding(t)' <=> Outstanding(t)
  BY <1>1 DEF Still, SameTasks, SameHands, SameDrivers, Outstanding, Admitted, Executing, Busy
<1>9. Out' = Out
  BY <1>8 DEF Out, Still, SameTasks
<1>10. \A o \in Owners : OutOf(o)' = OutOf(o)
  BY <1>9 DEF OutOf, Out, Still, SameTasks
<1>11. ClaimsSound'
  BY <1>10 DEF ClaimsSound, Still, SameDrivers
<1> QED
  BY <1>3, <1>4, <1>7, <1>9, <1>11

\* Only threads that have nothing in hand change, and there are none without
\* workers but the drivers.
Quiet ==
  /\ UNCHANGED <<inline, task, queues, d_outstanding, counters>>
  /\ \A e \in Executors : executor[e].pc \in Busy \/ executor'[e].pc \in Busy
                          => executor'[e] = executor[e]
  /\ inline => UNCHANGED executor
  /\ SameDrivers
  /\ d_stop => d_stop'

\* A quiet step keeps all of the invariant but the types and the wakes.
LEMMA QuietSafe ==
  ASSUME IInv, Quiet
  PROVE  /\ QueuesSound' /\ HandsSound' /\ HoldersSound' /\ ClaimsSound'
         /\ RendersCounted' /\ ReturnsSettled' /\ LedgerSound'
<1>1. SameHands
  BY DEF Quiet, SameHands, Busy, IInv, HandsSound
<1>2. Still
  BY <1>1 DEF Still, Quiet, SameTasks, SameQueues, Tasks, content, owner, queues
<1>3. /\ QueuesSound' /\ HandsSound' /\ HoldersSound' /\ ClaimsSound'
      /\ Out' = Out
  BY <1>2, StillSafe DEF IInv
<1>4. Executors' = Executors
  BY DEF Quiet, Executors
<1>5. \A e \in Executors : executor'[e].pc \in Busy \/ executor[e].pc \in Busy
                           => executor'[e] = executor[e]
  BY DEF Quiet
<1>6. RendersCounted'
  <2>1. \A c \in NotThreadSafe :
          (\E e \in Executors : executor'[e].pc \in Started /\ content(executor[e].task)' = c)
          <=> (\E e \in Executors : executor[e].pc \in Started /\ content(executor[e].task) = c)
    BY <1>5 DEF Quiet, content, Busy, Holding, Started
  <2> QED
    BY <1>4, <2>1 DEF RendersCounted, IInv, Quiet, queues
<1>7. ReturnsSettled'
  BY <1>4, <1>5 DEF ReturnsSettled, IInv, Quiet, settled, Busy, Holding
<1>8. LedgerSound'
  <2>1. Observed' = Observed
    BY <1>4, <1>5 DEF Observed, Busy, Holding
  <2>2. Counted' = Counted
    BY <1>5, <2>1 DEF Counted, Observed, Quiet, Busy, Holding
  <2>3. LeftToSettler' = LeftToSettler
    BY <1>3 DEF LeftToSettler, Out, Quiet, Tasks
  <2> QED
    BY <1>3, <2>1, <2>2, <2>3 DEF LedgerSound, IInv, Quiet, counters
<1> QED
  BY <1>3, <1>6, <1>7, <1>8

Executor ==
  [pc : {"idle", "check", "asleep", "exited", "popped", "rendering", "returned",
         "observed", "gate"}, task : TaskId]
Driver ==
  [pc : {"idle", "admitted", "inline", "parked", "woken", "draining", "recheck", "dead"},
   task : TaskId, behind : BOOLEAN, missed : BOOLEAN]

LEMMA WaitSafe ==
  ASSUME IInv, NEW o \in Owners, wait_completions(o) \/ timeout(o)
  PROVE  IInv'
<1>1. UNCHANGED <<inline, task, queues, d_outstanding, d_stop, counters, executor>>
  BY DEF wait_completions, timeout
<1>2. /\ \A p \in Owners : p # o => driver'[p] = driver[p]
      /\ driver[o].pc \in {"idle", "woken", "parked"}
      /\ \/ driver'[o] = [driver[o] EXCEPT !.pc = "idle", !.behind = FALSE, !.missed = FALSE]
         \/ /\ o \in Frames /\ ~d_stop /\ ~driver[o].behind
            /\ driver'[o] = [driver[o] EXCEPT !.pc = "parked"]
      /\ driver' = [driver EXCEPT ![o] = driver'[o]]
  BY DEF wait_completions, timeout, Returned, IInv, TypeOK
<1>3. driver[o] \in Driver
  BY DEF IInv, TypeOK, Driver
<1>4. /\ driver'[o] \in Driver /\ driver'[o].pc \in {"idle", "parked"}
      /\ driver'[o].missed => driver'[o].behind
      /\ driver'[o].pc = "parked" => o \in Frames /\ ~driver'[o].behind /\ ~d_stop
  BY <1>2, <1>3 DEF Driver, IInv, WakesSound
<1>5. Quiet
  BY <1>1, <1>2, <1>4 DEF Quiet, SameDrivers, queues, counters
<1>6. TypeOK'
  <2>1. driver' \in [Owners -> Driver]
    BY <1>2, <1>4 DEF IInv, TypeOK, Driver
  <2> QED
    BY <1>1, <2>1 DEF IInv, TypeOK, Driver, queues, counters, Tasks, Executors
<1>7. WakesSound'
  BY <1>1, <1>2, <1>4 DEF IInv, WakesSound
<1> QED
  BY <1>1, <1>5, <1>6, <1>7, QuietSafe DEF IInv

LEMMA DrainAgainSafe ==
  ASSUME IInv, NEW o \in Owners, drain_again(o)
  PROVE  IInv'
<1>1. UNCHANGED <<inline, task, queues, d_outstanding, d_stop, counters, executor>>
  BY DEF drain_again
<1>2. driver \in [Owners -> Driver] /\ driver[o] \in Driver
  BY DEF IInv, TypeOK, Driver
<1>3. /\ driver' \in [Owners -> Driver]
      /\ \A p \in Owners : p # o => driver'[p] = driver[p]
      /\ driver[o].pc = "recheck"
      /\ driver'[o].pc = "draining" \/ (driver'[o].pc = "dead" /\ d_outstanding[o] = 0)
      /\ driver'[o].behind = driver[o].behind /\ driver'[o].missed = driver[o].missed
  BY <1>2 DEF drain_again, Driver
<1>4. Quiet
  BY <1>1, <1>3 DEF Quiet, SameDrivers
<1>5. TypeOK'
  BY <1>1, <1>3 DEF IInv, TypeOK, Driver, queues, counters, Tasks, Executors
<1>6. WakesSound'
  BY <1>1, <1>3 DEF IInv, WakesSound
<1> QED
  BY <1>1, <1>4, <1>5, <1>6, QuietSafe DEF IInv

LEMMA StopSafe ==
  ASSUME IInv, request_stop
  PROVE  IInv'
<1>1. /\ UNCHANGED <<inline, task, queues, d_outstanding, counters>> /\ d_stop' = TRUE
      /\ executor' = AllAwake(executor) /\ driver' = Woken(driver, "parked", "woken")
  BY DEF request_stop
<1>2. driver \in [Owners -> Driver] /\ executor \in [Executors -> Executor]
  BY DEF IInv, TypeOK, Driver, Executor
<1>3. /\ driver' \in [Owners -> Driver]
      /\ \A p \in Owners : \/ driver'[p] = driver[p] /\ driver[p].pc # "parked"
                           \/ /\ driver[p].pc = "parked" /\ driver'[p].pc = "woken"
                              /\ driver'[p].behind = driver[p].behind
                              /\ driver'[p].missed = driver[p].missed
  BY <1>1, <1>2 DEF Woken, Driver
<1>4. /\ executor' \in [Executors -> Executor]
      /\ \A e \in Executors : \/ executor'[e] = executor[e]
                              \/ executor[e].pc = "asleep" /\ executor'[e].pc = "check"
  BY <1>1, <1>2 DEF AllAwake, Executor
<1>5. inline => UNCHANGED executor
  <2>1. inline => \A e \in Executors : executor[e].pc # "asleep"
    BY DEF IInv, HandsSound
  <2> QED
    BY <1>1, <1>2, <2>1 DEF AllAwake
<1>6. Quiet
  BY <1>1, <1>3, <1>4, <1>5 DEF Quiet, SameDrivers, Busy, Holding
<1>7. TypeOK'
  BY <1>1, <1>3, <1>4 DEF IInv, TypeOK, Driver, Executor, queues, counters, Tasks, Executors
<1>8. WakesSound'
  BY <1>1, <1>3 DEF IInv, WakesSound
<1> QED
  BY <1>1, <1>6, <1>7, <1>8, QuietSafe DEF IInv

(***************************************************************************)
(* A render, from its start to the look at its completion, and the content *)
(* that settles it.                                                        *)
(***************************************************************************)
\* A poke wakes whoever sleeps on completions, and leaves everybody behind.
LEMMA PokeWakes ==
  ASSUME IInv, poke, UNCHANGED d_stop
  PROVE  driver' \in [Owners -> Driver] /\ SameDrivers /\ WakesSound'
<1>1. driver \in [Owners -> Driver]
  BY DEF IInv, TypeOK, Driver
<1>2. PICK woken : woken = Woken(driver, "parked", "woken")
  OBVIOUS
<1>3. /\ woken \in [Owners -> Driver]
      /\ \A p \in Owners : /\ woken[p].pc # "parked"
                           /\ woken[p] = driver[p] \/ (driver[p].pc = "parked" /\ woken[p].pc = "woken")
                           /\ woken[p].behind = driver[p].behind
                           /\ woken[p].missed = driver[p].missed
  BY <1>1, <1>2 DEF Woken, Driver
<1>4. driver' = [p \in Owners |-> IF p \in Frames
                                  THEN [woken[p] EXCEPT !.behind = TRUE, !.missed = TRUE]
                                  ELSE woken[p]]
  BY <1>2 DEF poke, Settlement
<1>5. /\ driver' \in [Owners -> Driver]
      /\ \A p \in Owners : /\ driver'[p].pc = woken[p].pc /\ driver'[p].task = woken[p].task
                           /\ \/ driver'[p].missed /\ driver'[p].behind
                              \/ driver'[p] = woken[p]
  BY <1>3, <1>4 DEF Driver
<1>6. SameDrivers
  BY <1>3, <1>5 DEF SameDrivers
<1>7. WakesSound'
  BY <1>3, <1>5 DEF IInv, WakesSound
<1> QED
  BY <1>5, <1>6, <1>7

Task == [content : Contents \cup {Job}, owner : Owners, done : Completion,
         settler : {"none", "has", "poked"}]

LEMMA TasksTyped ==
  ASSUME TypeOK
  PROVE  /\ task \in Seq(Task) /\ Len(task) \in Nat
         /\ \A t \in Tasks : /\ task[t] \in Task /\ owner(t) \in Owners
                            /\ content(t) \in Contents \cup {Job}
<1>1. task \in Seq(Task)
  BY DEF TypeOK, Task
<1>2. \A t \in Tasks : task[t] \in Task
  BY <1>1, ElementOfSeq DEF Tasks
<1> QED
  BY <1>1, <1>2, LenProperties DEF Task, owner, content

Gate == [active : BOOLEAN, rendering : Nat, parked : Seq(Tasks)]

LEMMA GatesTyped ==
  ASSUME TypeOK
  PROVE  d_serial \in [Contents -> Gate]
BY DEF TypeOK, Gate

\* What a task's completion and its content do to it.
Retouched(t, u) ==
  /\ t \in Tasks /\ u \in Task
  /\ u.content = task[t].content /\ u.owner = task[t].owner
  /\ task' = [task EXCEPT ![t] = u]

LEMMA RetouchedSame ==
  ASSUME IInv, NEW t, NEW u, Retouched(t, u)
  PROVE  /\ SameTasks /\ task' \in Seq(Task) /\ Len(task') = Len(task)
         /\ task'[t] = u /\ \A s \in Tasks : s # t => task'[s] = task[s]
<1>1. task \in Seq(Task) /\ t \in 1 .. Len(task) /\ u \in Task
  BY DEF IInv, TypeOK, Task, Retouched, Tasks
<1>2. task' = [task EXCEPT ![t] = u]
  BY DEF Retouched
<1>3. /\ task' \in Seq(Task) /\ Len(task') = Len(task)
      /\ \A s \in 1 .. Len(task) : task'[s] = IF s = t THEN u ELSE task[s]
  BY <1>1, <1>2, ExceptSeq
<1> QED
  BY <1>1, <1>3 DEF Retouched, SameTasks, Tasks, content, owner

\* The ledger is kept by a step that settles nothing that was looked at.
LEMMA LedgerKept ==
  ASSUME IInv, Out' = Out, Tasks' = Tasks, Len(task') = Len(task), Executors' = Executors,
         UNCHANGED counters,
         \A e \in Executors : /\ executor'[e].pc = "observed" <=> executor[e].pc = "observed"
                              /\ executor[e].pc = "observed" => executor'[e].task = executor[e].task,
         \A t \in Tasks :
           \/ task'[t].settler = "none" <=> task[t].settler = "none"
           \/ /\ t \in Out
              /\ \A e \in Executors : executor[e].pc = "observed" => executor[e].task # t
  PROVE  LedgerSound'
<1>1. Observed' = Observed
  BY DEF Observed
<1>2. \A e \in Executors : executor[e].pc = "observed" => executor[e].task \in Tasks
  BY DEF IInv, HandsSound, Busy, Holding
<1>3. Counted' = Counted
  BY <1>1, <1>2 DEF Counted, Observed
<1>4. LeftToSettler' = LeftToSettler
  BY DEF LeftToSettler, Out
<1> QED
  BY <1>1, <1>3, <1>4 DEF LedgerSound, IInv, counters

LEMMA StartSafe ==
  ASSUME IInv, NEW e \in Executors, start(e)
  PROVE  IInv'
<1>1. PICK t : t = executor[e].task
  OBVIOUS
<1>2. /\ UNCHANGED <<inline, task, d_ready, d_work_ready, d_outstanding, d_stop, counters, driver>>
      /\ executor[e].pc = "popped" /\ executor' = [executor EXCEPT ![e].pc = "rendering"]
      /\ d_serial' = IF serialize(t) THEN [d_serial EXCEPT ![content(t)].rendering = @ + 1]
                     ELSE d_serial
  BY <1>1 DEF start, At, Goes
<1>3. t \in Tasks
  BY <1>1, <1>2 DEF IInv, HandsSound, Busy, Holding
<1>4. task[t] \in Task /\ content(t) \in Contents \cup {Job}
  BY <1>3, TasksTyped DEF IInv
<1>5. executor \in [Executors -> Executor] /\ executor[e] \in Executor
  BY DEF IInv, TypeOK, Executor
<1>6. /\ executor' \in [Executors -> Executor]
      /\ executor'[e].pc = "rendering" /\ executor'[e].task = t
      /\ \A f \in Executors : f # e => executor'[f] = executor[f]
  BY <1>1, <1>2, <1>5 DEF Executor
<1>7. /\ d_serial' \in [Contents -> Gate]
      /\ \A c \in Contents :
           /\ d_serial'[c].parked = d_serial[c].parked
           /\ d_serial'[c].active = d_serial[c].active
           /\ d_serial'[c].rendering =
                IF c = content(t) /\ serialize(t) THEN d_serial[c].rendering + 1
                ELSE d_serial[c].rendering
  <2>1. d_serial \in [Contents -> Gate]
    BY GatesTyped DEF IInv
  <2>2. CASE ~serialize(t)
    BY <1>2, <2>1, <2>2 DEF Gate
  <2>3. CASE serialize(t)
    <3>1. PICK c : c = content(t) /\ c \in Contents
      BY ContentsAssumption, <2>3 DEF serialize
    <3>2. PICK g \in Gate : g = d_serial[c]
      BY <2>1, <3>1
    <3>3. [g EXCEPT !.rendering = @ + 1] =
            [active |-> g.active, rendering |-> g.rendering + 1, parked |-> g.parked]
      BY DEF Gate
    <3>4. [active |-> g.active, rendering |-> g.rendering + 1, parked |-> g.parked] \in Gate
      BY DEF Gate
    <3>5. d_serial' = [d_serial EXCEPT ![c] =
            [active |-> g.active, rendering |-> g.rendering + 1, parked |-> g.parked]]
      BY <1>2, <2>1, <2>3, <3>1, <3>2, <3>3
    <3> QED
      BY <2>1, <2>3, <3>1, <3>2, <3>4, <3>5
  <2> QED
    BY <2>2, <2>3
<1>8. Still
  <2>1. SameHands
    BY <1>2, <1>6, <1>1 DEF SameHands, Holding, Busy, IInv, HandsSound
  <2>2. SameDrivers /\ SameTasks
    BY <1>2 DEF SameDrivers, SameTasks, Tasks, content, owner
  <2>3. SameQueues
    BY <1>2, <1>7 DEF SameQueues
  <2> QED
    BY <1>2, <2>1, <2>2, <2>3 DEF Still
<1>9. /\ QueuesSound' /\ HandsSound' /\ HoldersSound' /\ ClaimsSound'
      /\ Out' = Out
  BY <1>8, StillSafe DEF IInv
<1>10. Executors' = Executors /\ Tasks' = Tasks
  BY <1>2 DEF Executors, Tasks
<1>11. RendersCounted'
  <2>1. SUFFICES ASSUME NEW c \in NotThreadSafe
        PROVE  d_serial'[c].rendering =
                 IF \E f \in Executors : executor'[f].pc \in Started
                                        /\ content(executor[f].task)' = c
                 THEN 1 ELSE 0
    BY <1>10 DEF RendersCounted
  <2>2. \A f \in Executors : content(executor[f].task)' = content(executor'[f].task)
    BY <1>2 DEF content
  <2>3. CASE content(t) = c
    <3>1. Gated(e, c)
      BY <1>1, <1>2, <2>3 DEF Gated, Holding
    <3>2. \A f \in Executors : Gated(f, c) => f = e
      BY <3>1 DEF IInv, HoldersSound
    <3>3. ~ \E f \in Executors : executor[f].pc \in Started /\ content(executor[f].task) = c
      BY <1>2, <3>2 DEF Gated, Started, Holding
    <3>4. d_serial[c].rendering = 0
      BY <3>3 DEF IInv, RendersCounted
    <3> QED
      BY ContentsAssumption, <1>6, <1>7, <2>2, <2>3, <3>4 DEF serialize, Started
  <2>4. CASE content(t) # c
    <3>1. d_serial'[c].rendering = d_serial[c].rendering
      BY ContentsAssumption, <1>7, <2>4
    <3>2. (\E f \in Executors : executor'[f].pc \in Started /\ content(executor'[f].task) = c)
          <=> (\E f \in Executors : executor[f].pc \in Started /\ content(executor[f].task) = c)
      BY <1>1, <1>6, <2>4
    <3> QED
      BY <2>2, <3>1, <3>2 DEF IInv, RendersCounted
  <2> QED
    BY <2>3, <2>4
<1>12. ReturnsSettled'
  BY <1>1, <1>2, <1>6, <1>10 DEF IInv, ReturnsSettled, settled
<1>13. LedgerSound'
  BY <1>2, <1>6, <1>9, <1>10, LedgerKept
<1>14. WakesSound'
  BY <1>2 DEF IInv, WakesSound
<1>15. TypeOK'
  BY <1>2, <1>6, <1>7, <1>10 DEF IInv, TypeOK, Executor, Gate, counters
<1> QED
  BY <1>2, <1>9, <1>11, <1>12, <1>13, <1>14, <1>15 DEF IInv

LEMMA HandOffSafe ==
  ASSUME IInv, NEW e \in Executors, hand_off(e)
  PROVE  IInv'
<1>1. PICK t : t = executor[e].task
  OBVIOUS
<1>2. /\ UNCHANGED <<inline, queues, d_outstanding, d_stop, counters, executor, driver>>
      /\ executor[e].pc = "rendering" /\ task' = [task EXCEPT ![t].settler = "has"]
  BY <1>1 DEF hand_off, At
<1>3. t \in Tasks
  BY <1>1, <1>2 DEF IInv, HandsSound, Busy, Holding
<1>4. PICK u : u = [task[t] EXCEPT !.settler = "has"]
  OBVIOUS
<1>5. Retouched(t, u) /\ u.settler = "has" /\ u.done = task[t].done
  BY <1>2, <1>3, <1>4, TasksTyped DEF IInv, Retouched, Task
<1>6. /\ SameTasks /\ task' \in Seq(Task) /\ Len(task') = Len(task)
      /\ task'[t] = u /\ \A s \in Tasks : s # t => task'[s] = task[s]
  BY <1>5, RetouchedSame
<1>7. Still
  BY <1>2, <1>6 DEF Still, SameQueues, SameHands, SameDrivers, queues, IInv, HandsSound
<1>8. /\ QueuesSound' /\ HandsSound' /\ HoldersSound' /\ ClaimsSound'
      /\ Out' = Out
  BY <1>7, StillSafe DEF IInv
<1>9. Executors' = Executors /\ Tasks' = Tasks
  BY <1>2, <1>6 DEF Executors, SameTasks
<1>10. \A f \in Executors : executor[f].pc \in Busy => executor[f].task \in Tasks
  BY DEF IInv, HandsSound
<1>11. RendersCounted'
  BY <1>2, <1>6, <1>9, <1>10 DEF IInv, RendersCounted, queues, SameTasks, Started, Busy, Holding, content
<1>12. ReturnsSettled'
  BY <1>2, <1>5, <1>6, <1>9, <1>10 DEF IInv, ReturnsSettled, settled, Busy, Holding
<1>13. LedgerSound'
  <2>1. t \in Out
    BY <1>1, <1>2, <1>3 DEF Out, Outstanding, Executing, Holding
  <2>2. \A f \in Executors : executor[f].pc = "observed" => executor[f].task # t
    BY <1>1, <1>2 DEF IInv, HandsSound, Holding
  <2> QED
    BY <1>2, <1>6, <1>8, <1>9, <2>1, <2>2, LedgerKept
<1>14. WakesSound'
  BY <1>2 DEF IInv, WakesSound
<1>15. TypeOK'
  BY <1>2, <1>6, <1>9 DEF IInv, TypeOK, Task, queues, counters
<1> QED
  BY <1>2, <1>6, <1>8, <1>11, <1>12, <1>13, <1>14, <1>15 DEF IInv

LEMMA ReturnSafe ==
  ASSUME IInv, NEW e \in Executors, return(e)
  PROVE  IInv'
<1>1. PICK t : t = executor[e].task
  OBVIOUS
<1>2. /\ UNCHANGED <<inline, queues, d_outstanding, d_stop, counters, driver>>
      /\ executor[e].pc = "rendering" /\ executor' = [executor EXCEPT ![e].pc = "returned"]
      /\ task' = IF task[t].settler # "none" THEN task ELSE [task EXCEPT ![t].done = "published"]
  BY <1>1 DEF return, At, Goes
<1>3. t \in Tasks
  BY <1>1, <1>2 DEF IInv, HandsSound, Busy, Holding
<1>4. PICK u : u = IF task[t].settler # "none" THEN task[t]
                   ELSE [task[t] EXCEPT !.done = "published"]
  OBVIOUS
<1>5. /\ Retouched(t, u) /\ u.settler = task[t].settler
      /\ u.settler # "none" \/ u.done = "published"
  <2>1. task \in Seq(Task) /\ task[t] \in Task
    BY <1>3, TasksTyped DEF IInv
  <2>2. task' = [task EXCEPT ![t] = u]
    <3>1. CASE task[t].settler # "none"
      <4>1. [task EXCEPT ![t] = task[t]] = task
        BY <2>1
      <4> QED
        BY <1>2, <1>4, <3>1, <4>1
    <3>2. CASE task[t].settler = "none"
      <4>1. task' = [task EXCEPT ![t] = [task[t] EXCEPT !.done = "published"]]
        BY <1>2, <1>3, <2>1, <3>2 DEF Tasks
      <4> QED
        BY <1>4, <3>2, <4>1
    <3> QED
      BY <3>1, <3>2
  <2>3. /\ u \in Task /\ u.content = task[t].content /\ u.owner = task[t].owner
        /\ u.settler = task[t].settler
        /\ u.settler # "none" \/ u.done = "published"
    BY <1>4, <2>1 DEF Task, Completion
  <2> QED
    BY <1>3, <2>2, <2>3 DEF Retouched
<1>6. /\ SameTasks /\ task' \in Seq(Task) /\ Len(task') = Len(task)
      /\ task'[t] = u /\ \A s \in Tasks : s # t => task'[s] = task[s]
  BY <1>5, RetouchedSame
<1>7. /\ executor' \in [Executors -> Executor]
      /\ executor'[e].pc = "returned" /\ executor'[e].task = t
      /\ \A f \in Executors : f # e => executor'[f] = executor[f]
  BY <1>1, <1>2 DEF Executor, IInv, TypeOK
<1>8. Still
  <2>1. SameHands
    BY <1>1, <1>2, <1>7 DEF SameHands, Holding, Busy, IInv, HandsSound
  <2> QED
    BY <1>2, <1>6, <2>1 DEF Still, SameQueues, SameDrivers, queues
<1>9. /\ QueuesSound' /\ HandsSound' /\ HoldersSound' /\ ClaimsSound'
      /\ Out' = Out
  BY <1>8, StillSafe DEF IInv
<1>10. Executors' = Executors /\ Tasks' = Tasks
  BY <1>2, <1>6 DEF Executors, SameTasks
<1>11. \A f \in Executors : executor[f].pc \in Busy => executor[f].task \in Tasks
  BY DEF IInv, HandsSound
<1>12. \A f \in Executors : executor[f].pc \in {"returned", "observed"} => executor[f].task # t
  BY <1>1, <1>2 DEF IInv, HandsSound, Holding
<1>13. RendersCounted'
  <2>1. ASSUME NEW c \in NotThreadSafe
        PROVE  (\E f \in Executors : executor'[f].pc \in Started /\ content(executor[f].task)' = c)
               <=> (\E f \in Executors : executor[f].pc \in Started /\ content(executor[f].task) = c)
    <3>1. \A f \in Executors : executor'[f].pc \in Started <=> executor[f].pc \in Started
      BY <1>2, <1>7 DEF Started
    <3>2. \A f \in Executors : executor[f].pc \in Started =>
            content(executor[f].task)' = content(executor[f].task)
      BY <1>1, <1>6, <1>7, <1>11 DEF Started, Busy, Holding, SameTasks, content
    <3> QED
      BY <3>1, <3>2
  <2> QED
    BY <1>2, <1>10, <2>1 DEF IInv, RendersCounted, queues
<1>14. ReturnsSettled'
  <2>1. SUFFICES ASSUME NEW f \in Executors, executor'[f].pc \in {"returned", "observed"}
                 PROVE  task'[executor'[f].task].settler # "none"
                        \/ task'[executor'[f].task].done = "published"
    BY <1>10 DEF ReturnsSettled, settled
  <2>2. CASE f = e
    BY <1>5, <1>6, <1>7, <2>2
  <2>3. CASE f # e
    BY <1>6, <1>7, <1>11, <1>12, <2>1, <2>3 DEF IInv, ReturnsSettled, settled, Busy, Holding
  <2> QED
    BY <2>2, <2>3
<1>15. LedgerSound'
  <2>1. \A s \in Tasks : task'[s].settler = "none" <=> task[s].settler = "none"
    BY <1>5, <1>6
  <2>2. \A f \in Executors : /\ executor'[f].pc = "observed" <=> executor[f].pc = "observed"
                             /\ executor[f].pc = "observed" => executor'[f].task = executor[f].task
    BY <1>2, <1>7
  <2> QED
    BY <1>2, <1>6, <1>9, <1>10, <2>1, <2>2, LedgerKept
<1>16. WakesSound'
  BY <1>2 DEF IInv, WakesSound
<1>17. TypeOK'
  BY <1>2, <1>6, <1>7, <1>10 DEF IInv, TypeOK, Task, Executor, queues, counters
<1> QED
  BY <1>2, <1>6, <1>9, <1>13, <1>14, <1>15, <1>16, <1>17 DEF IInv

\* The content settles a completion, or pokes: no executor is concerned.
LEMMA SettlerSafe ==
  ASSUME IInv, NEW t \in Tasks, try_settle(t) \/ settler_poke(t)
  PROVE  IInv'
<1>1. /\ UNCHANGED <<inline, queues, d_outstanding, d_stop, counters, executor>>
      /\ task[t].settler = "has"
  BY DEF try_settle, settler_poke
<1>2. PICK u \in Task : /\ task' = [task EXCEPT ![t] = u]
                        /\ u.content = task[t].content /\ u.owner = task[t].owner
                        /\ u.settler # "none"
  <2>1. task[t] \in Task /\ task \in Seq(Task) /\ t \in 1 .. Len(task)
    BY TasksTyped DEF IInv, Tasks
  <2>2. CASE try_settle(t)
    <3>1. task' = [task EXCEPT ![t] = [task[t] EXCEPT !.done = "published"]]
      BY <2>1, <2>2 DEF try_settle
    <3>2. [task[t] EXCEPT !.done = "published"] \in Task
      BY <2>1 DEF Task, Completion
    <3> QED
      BY <1>1, <2>1, <3>1, <3>2 DEF Task
  <2>3. CASE settler_poke(t)
    <3>1. task' = [task EXCEPT ![t] = [task[t] EXCEPT !.settler = "poked"]]
      BY <2>1, <2>3 DEF settler_poke
    <3>2. [task[t] EXCEPT !.settler = "poked"] \in Task
      BY <2>1 DEF Task, Completion
    <3> QED
      BY <2>1, <3>1, <3>2 DEF Task
  <2> QED
    BY <2>2, <2>3
<1>3. Retouched(t, u)
  BY <1>2 DEF Retouched
<1>4. /\ SameTasks /\ task' \in Seq(Task) /\ Len(task') = Len(task)
      /\ task'[t] = u /\ \A s \in Tasks : s # t => task'[s] = task[s]
  BY <1>3, RetouchedSame
<1>5. driver' \in [Owners -> Driver] /\ SameDrivers /\ WakesSound'
  <2>1. CASE try_settle(t)
    <3>1. driver' = driver
      BY <2>1 DEF try_settle
    <3> QED
      BY <1>1, <3>1 DEF IInv, TypeOK, Driver, SameDrivers, WakesSound
  <2>2. CASE settler_poke(t)
    BY <1>1, <2>2, PokeWakes DEF settler_poke
  <2> QED
    BY <2>1, <2>2
<1>6. Still
  BY <1>1, <1>4, <1>5 DEF Still, SameQueues, SameHands, queues, IInv, HandsSound
<1>7. /\ QueuesSound' /\ HandsSound' /\ HoldersSound' /\ ClaimsSound'
      /\ Out' = Out
  BY <1>6, StillSafe DEF IInv
<1>8. Executors' = Executors /\ Tasks' = Tasks
  BY <1>1, <1>4 DEF Executors, SameTasks
<1>9. \A f \in Executors : executor[f].pc \in Busy => executor[f].task \in Tasks
  BY DEF IInv, HandsSound
<1>10. RendersCounted'
  BY <1>1, <1>4, <1>8, <1>9 DEF IInv, RendersCounted, queues, SameTasks, Started, Busy, Holding, content
<1>11. ReturnsSettled'
  BY <1>1, <1>2, <1>4, <1>8, <1>9 DEF IInv, ReturnsSettled, settled, Busy, Holding
<1>12. LedgerSound'
  <2>1. \A s \in Tasks : task'[s].settler = "none" <=> task[s].settler = "none"
    BY <1>1, <1>2, <1>4
  <2> QED
    BY <1>1, <1>4, <1>7, <1>8, <2>1, LedgerKept
<1>13. TypeOK'
  BY <1>1, <1>4, <1>5, <1>8 DEF IInv, TypeOK, Task, Driver, queues, counters
<1> QED
  BY <1>1, <1>4, <1>5, <1>7, <1>10, <1>11, <1>12, <1>13 DEF IInv

LEMMA ExecutorsFinite ==
  ASSUME NEW S \in SUBSET Executors
  PROVE  IsFiniteSet(S) /\ Cardinality(S) \in Nat
<1>1. IsFiniteSet(Executors)
  BY FiniteAssumption DEF Executors
<1> QED
  BY <1>1, FS_Subset, FS_CardinalityType

LEMMA TasksFinite ==
  ASSUME Len(task) \in Nat, NEW S \in SUBSET Tasks
  PROVE  IsFiniteSet(S) /\ Cardinality(S) \in Nat
<1>1. 1 \in Int /\ Len(task) \in Int
  OBVIOUS
<1>2. IsFiniteSet(Tasks)
  BY <1>1, FS_Interval DEF Tasks
<1> QED
  BY <1>2, FS_Subset, FS_CardinalityType

LEMMA ObserveSafe ==
  ASSUME IInv, NEW e \in Executors, observe(e)
  PROVE  IInv'
<1>1. PICK t : t = executor[e].task
  OBVIOUS
<1>2. /\ UNCHANGED <<inline, task, queues, d_outstanding, d_stop, d_dropped>>
      /\ executor[e].pc = "returned" /\ executor' = [executor EXCEPT ![e].pc = "observed"]
      /\ IF settled(t) THEN d_completed' = d_completed + 1 /\ poke
         ELSE UNCHANGED <<d_completed, driver>>
  BY <1>1 DEF observe, At, Goes
<1>3. t \in Tasks
  BY <1>1, <1>2 DEF IInv, HandsSound, Busy, Holding
<1>4. driver' \in [Owners -> Driver] /\ SameDrivers /\ WakesSound'
  <2>1. CASE settled(t)
    BY <1>2, <2>1, PokeWakes
  <2>2. CASE ~settled(t)
    BY <1>2, <2>2 DEF IInv, TypeOK, Driver, SameDrivers, WakesSound
  <2> QED
    BY <2>1, <2>2
<1>5. /\ executor' \in [Executors -> Executor]
      /\ executor'[e].pc = "observed" /\ executor'[e].task = t
      /\ \A f \in Executors : f # e => executor'[f] = executor[f]
  BY <1>1, <1>2 DEF Executor, IInv, TypeOK
<1>6. Still
  <2>1. SameHands
    BY <1>1, <1>2, <1>5 DEF SameHands, Holding, Busy, IInv, HandsSound
  <2> QED
    BY <1>2, <1>4, <2>1 DEF Still, SameQueues, SameTasks, Tasks, content, owner, queues
<1>7. /\ QueuesSound' /\ HandsSound' /\ HoldersSound' /\ ClaimsSound'
      /\ Out' = Out
  BY <1>6, StillSafe DEF IInv
<1>8. Executors' = Executors /\ Tasks' = Tasks
  BY <1>2 DEF Executors, Tasks
<1>9. RendersCounted'
  <2>1. ASSUME NEW c \in NotThreadSafe
        PROVE  (\E f \in Executors : executor'[f].pc \in Started /\ content(executor[f].task)' = c)
               <=> (\E f \in Executors : executor[f].pc \in Started /\ content(executor[f].task) = c)
    BY <1>1, <1>2, <1>5 DEF Started, content
  <2> QED
    BY <1>2, <1>8, <2>1 DEF IInv, RendersCounted, queues
<1>10. ReturnsSettled'
  BY <1>1, <1>2, <1>5, <1>8 DEF IInv, ReturnsSettled, settled
<1>11. LedgerSound'
  <2>1. LeftToSettler' = LeftToSettler
    BY <1>2, <1>7, <1>8 DEF LeftToSettler, Out
  <2>2. e \notin Observed /\ Observed' = Observed \cup {e}
    BY <1>2, <1>5, <1>8 DEF Observed
  <2>3. IsFiniteSet(Observed) /\ Cardinality(Observed) \in Nat
    BY ExecutorsFinite DEF Observed
  <2>4. Cardinality(Observed') = Cardinality(Observed) + 1
    BY <2>2, <2>3, FS_AddElement
  <2>5. IsFiniteSet(Counted) /\ Cardinality(Counted) \in Nat
    <3>1. Counted \in SUBSET Executors
      BY DEF Counted, Observed
    <3> QED
      BY <3>1, ExecutorsFinite
  <2>6. e \notin Counted
    BY <2>2 DEF Counted
  <2>7. \/ Counted' = Counted
        \/ settled(t) /\ Counted' = Counted \cup {e}
    <3>1. task[t].settler = "none" => settled(t)
      BY <1>1, <1>2 DEF IInv, ReturnsSettled
    <3>2. Counted' = {f \in Observed \cup {e} : task[executor'[f].task].settler = "none"}
      BY <1>2, <2>2 DEF Counted
    <3>3. Counted' = IF task[t].settler = "none" THEN Counted \cup {e} ELSE Counted
      BY <1>5, <2>2, <3>2 DEF Counted, Observed
    <3> QED
      BY <3>1, <3>3
  <2>8. \/ Cardinality(Counted') = Cardinality(Counted)
        \/ settled(t) /\ Cardinality(Counted') = Cardinality(Counted) + 1
    BY <2>5, <2>6, <2>7, FS_AddElement
  <2>9. /\ d_completed' = IF settled(t) THEN d_completed + 1 ELSE d_completed
        /\ d_completed \in Nat /\ d_dropped \in Nat /\ Len(task) \in Nat
        /\ d_dropped' = d_dropped /\ Len(task') = Len(task)
    BY <1>2, TasksTyped DEF IInv, TypeOK
  <2>10. Cardinality(Out) \in Nat /\ Cardinality(LeftToSettler) \in Nat
    <3>1. Out \in SUBSET Tasks /\ LeftToSettler \in SUBSET Tasks
      BY DEF Out, LeftToSettler
    <3> QED
      BY <2>9, <3>1, TasksFinite
  <2> QED
    BY <1>7, <2>1, <2>3, <2>4, <2>5, <2>8, <2>9, <2>10 DEF IInv, LedgerSound
<1>12. TypeOK'
  BY <1>2, <1>4, <1>5, <1>8 DEF IInv, TypeOK, Driver, Executor, queues
<1> QED
  BY <1>2, <1>4, <1>7, <1>9, <1>10, <1>11, <1>12 DEF IInv

(***************************************************************************)
(* Steps that move tasks.  Outstanding, in terms of what holds a task.     *)
(***************************************************************************)
LEMMA QueuedTyped ==
  ASSUME TypeOK
  PROVE  /\ Range(d_ready) \subseteq Tasks /\ Range(d_work_ready) \subseteq Tasks
         /\ \A c \in Contents : Parked(c) \subseteq Tasks
         /\ AllQueued \subseteq Tasks
<1>1. Range(d_ready) \subseteq Tasks /\ Range(d_work_ready) \subseteq Tasks
  BY QueueHolds DEF TypeOK
<1>2. \A c \in Contents : Parked(c) \subseteq Tasks
  BY QueueHolds DEF TypeOK, Parked
<1> QED
  BY <1>1, <1>2 DEF AllQueued, Queued, Parked

\* The sizes that the claims and the ledger speak of.
LEMMA OutSizes ==
  ASSUME TypeOK
  PROVE  /\ IsFiniteSet(Out) /\ Cardinality(Out) \in Nat
         /\ IsFiniteSet(LeftToSettler) /\ Cardinality(LeftToSettler) \in Nat
         /\ IsFiniteSet(Observed) /\ Cardinality(Observed) \in Nat
         /\ IsFiniteSet(Counted) /\ Cardinality(Counted) \in Nat
         /\ \A o \in Owners : IsFiniteSet(OutOf(o)) /\ Cardinality(OutOf(o)) \in Nat
<1>1. Len(task) \in Nat
  BY TasksTyped
<1>2. /\ Out \in SUBSET Tasks /\ LeftToSettler \in SUBSET Tasks
      /\ \A o \in Owners : OutOf(o) \in SUBSET Tasks
  BY DEF Out, LeftToSettler, OutOf
<1>3. Observed \in SUBSET Executors /\ Counted \in SUBSET Executors
  BY DEF Observed, Counted
<1> QED
  BY <1>1, <1>2, <1>3, TasksFinite, ExecutorsFinite

\* A task leaves the outstanding ones, with one claim of its owner.
LEMMA ClaimReleased ==
  ASSUME IInv, NEW t \in Out, Out' = Out \ {t},
         \A s \in Tasks : owner(s)' = owner(s),
         d_outstanding' = [d_outstanding EXCEPT ![owner(t)] = @ - 1],
         \A o \in Owners : driver'[o].pc = "dead" => driver[o].pc = "dead"
  PROVE  ClaimsSound' /\ d_outstanding' \in [Owners -> Nat]
<1>1. t \in Tasks /\ owner(t) \in Owners
  BY TasksTyped DEF Out, IInv
<1>2. d_outstanding \in [Owners -> Nat]
  BY DEF IInv, TypeOK
<1>3. Out \subseteq Tasks
  BY DEF Out
<1>4. SUFFICES ASSUME NEW o \in Owners
               PROVE  /\ d_outstanding'[o] = Cardinality(OutOf(o)')
                      /\ d_outstanding'[o] \in Nat
                      /\ driver'[o].pc = "dead" => d_outstanding'[o] = 0
  <2> HIDE DEF Out
  <2> QED
    BY <1>2 DEF ClaimsSound
<1>5. OutOf(o)' = OutOf(o) \ {t}
  BY <1>3 DEF OutOf
<1>6. t \in OutOf(o) <=> owner(t) = o
  BY DEF OutOf
<1>7. IsFiniteSet(OutOf(o)) /\ d_outstanding[o] = Cardinality(OutOf(o))
  BY OutSizes DEF IInv, ClaimsSound
<1>8. Cardinality(OutOf(o)') = IF t \in OutOf(o) THEN d_outstanding[o] - 1 ELSE d_outstanding[o]
  BY <1>5, <1>7, FS_RemoveElement
<1>9. Cardinality(OutOf(o)') \in Nat
  BY <1>5, <1>7, FS_RemoveElement, FS_CardinalityType
<1>10. d_outstanding'[o] = IF owner(t) = o THEN d_outstanding[o] - 1 ELSE d_outstanding[o]
  BY <1>1, <1>2
<1>11. driver[o].pc = "dead" => owner(t) # o
  <2>1. driver[o].pc = "dead" => d_outstanding[o] = 0
    BY DEF IInv, ClaimsSound
  <2> QED
    BY <1>2, <1>6, <1>8, <1>9, <2>1
<1> QED
  BY <1>2, <1>6, <1>8, <1>9, <1>10, <1>11 DEF IInv, ClaimsSound

LEMMA ReleaseSafe ==
  ASSUME IInv, NEW e \in Executors, release_outstanding(e)
  PROVE  IInv'
<1>1. PICK t : t = executor[e].task
  OBVIOUS
<1>2. /\ UNCHANGED <<inline, task, queues, d_stop, counters>>
      /\ executor[e].pc = "observed"
      /\ d_outstanding' = [d_outstanding EXCEPT ![owner(t)] = @ - 1]
      /\ executor' = [executor EXCEPT ![e] = AfterRelease(e)]
      /\ driver' = IF serialize(t) THEN Woken(driver, "draining", "recheck")
                   ELSE BackFrom(Woken(driver, "draining", "recheck"), e)
  BY <1>1 DEF release_outstanding, At
<1>3. t \in Tasks /\ t \notin AllQueued
  BY <1>1, <1>2 DEF IInv, HandsSound, Busy, Holding
<1>4. Executors' = Executors /\ Tasks' = Tasks /\ AllQueued' = AllQueued
  BY <1>2 DEF Executors, Tasks, queues, AllQueued, Queued
<1>5. /\ executor' \in [Executors -> Executor]
      /\ \A f \in Executors : f # e => executor'[f] = executor[f]
      /\ serialize(t) => executor'[e].pc = "gate" /\ executor'[e].task = t
      /\ ~serialize(t) => executor'[e].pc = IF inline THEN "idle" ELSE "check"
  <2>1. executor \in [Executors -> Executor]
    BY DEF IInv, TypeOK, Executor
  <2>2. t \in TaskId /\ NoTask \in TaskId
    BY <1>1, <2>1, MaxTasksAssumption DEF Executor, TaskId, NoTask
  <2>3. AfterRelease(e) \in Executor
    BY <1>1, <2>2 DEF AfterRelease, Executor
  <2> QED
    BY <1>1, <1>2, <2>1, <2>3 DEF AfterRelease
<1>6. /\ driver' \in [Owners -> Driver]
      /\ \A o \in Owners :
           /\ \/ driver'[o].pc = driver[o].pc
              \/ driver[o].pc = "draining" /\ driver'[o].pc = "recheck"
              \/ inline /\ ~serialize(t) /\ o = e /\ driver'[o].pc = "idle"
           /\ driver'[o].task = driver[o].task
           /\ driver'[o].behind = driver[o].behind /\ driver'[o].missed = driver[o].missed
  <2>1. driver \in [Owners -> Driver]
    BY DEF IInv, TypeOK, Driver
  <2>2. PICK awake : awake = Woken(driver, "draining", "recheck")
    OBVIOUS
  <2>3. /\ awake \in [Owners -> Driver]
        /\ \A o \in Owners :
             /\ \/ awake[o].pc = driver[o].pc
                \/ driver[o].pc = "draining" /\ awake[o].pc = "recheck"
             /\ awake[o].task = driver[o].task
             /\ awake[o].behind = driver[o].behind /\ awake[o].missed = driver[o].missed
    BY <2>1, <2>2 DEF Woken, Driver
  <2>4. driver' = IF ~serialize(t) /\ inline THEN [awake EXCEPT ![e].pc = "idle"] ELSE awake
    BY <1>2, <2>2 DEF BackFrom
  <2> QED
    BY <2>3, <2>4 DEF Driver, Executors
<1>7. \A f \in Executors : f # e /\ executor[f].pc \in Holding => executor[f].task # t
  BY <1>1, <1>2 DEF IInv, HandsSound, Holding
<1>8. inline => driver[e].pc = "inline"
  BY <1>2 DEF IInv, HandsSound
<1>9. ~Admitted(t)
  BY <1>1, <1>2 DEF IInv, HandsSound, Admitted, Holding
<1>10. \A o \in Owners : driver'[o].pc = "admitted" <=> driver[o].pc = "admitted"
  BY <1>6, <1>8
<1>11. Out' = Out \ {t} /\ t \in Out
  <2>1. \A s \in Tasks : Admitted(s)' <=> Admitted(s)
    BY <1>6, <1>10 DEF Admitted
  <2>2. \A s \in Tasks : (\E f \in Executors : Executing(f, s))'
                         <=> s # t /\ \E f \in Executors : Executing(f, s)
    BY <1>1, <1>2, <1>4, <1>5, <1>7 DEF Executing, Holding
  <2>3. \A s \in Tasks : Outstanding(s)' <=> s # t /\ Outstanding(s)
    BY <1>3, <1>4, <1>9, <2>1, <2>2 DEF Outstanding
  <2>4. Outstanding(t)
    BY <1>1, <1>2 DEF Outstanding, Executing, Holding
  <2> QED
    BY <1>3, <1>4, <2>3, <2>4 DEF Out
<1>12. ClaimsSound' /\ d_outstanding' \in [Owners -> Nat]
  BY <1>2, <1>6, <1>11, ClaimReleased DEF owner
<1>13. QueuesSound'
  BY <1>2, <1>4 DEF IInv, QueuesSound, Parked, queues, content, serialize
<1>14. HandsSound'
  <2>1. ASSUME NEW f \in Executors, executor'[f].pc \in Holding
        PROVE  executor'[f] = executor[f] /\ f # e
    BY <1>5, <2>1 DEF Holding
  <2>2. ASSUME NEW f \in Executors
        PROVE  /\ executor'[f].pc \in Busy => executor'[f].task \in Tasks
               /\ executor'[f].pc \in Holding => executor'[f].task \notin AllQueued
               /\ executor'[f].pc = "gate" => serialize(executor'[f].task)
               /\ inline => /\ executor'[f].pc \notin {"check", "asleep", "exited"}
                            /\ executor'[f].pc = "idle" \/ driver'[f].pc = "inline"
    <3>1. CASE f = e
      BY <1>2, <1>3, <1>5, <1>6, <1>8, <3>1 DEF Busy, Holding, Executors
    <3>2. CASE f # e
      BY <1>5, <1>6, <3>2 DEF IInv, HandsSound, Executors
    <3> QED
      BY <3>1, <3>2
  <2>3. \A f, g \in Executors : executor'[f].pc \in Holding /\ executor'[g].pc \in Holding
          /\ executor'[f].task = executor'[g].task => f = g
    BY <2>1 DEF IInv, HandsSound
  <2>4. ASSUME NEW o \in Owners, driver'[o].pc = "admitted"
        PROVE  /\ driver'[o].task \in Tasks /\ owner(driver'[o].task) = o
               /\ driver'[o].task \notin AllQueued
               /\ \A f \in Executors : executor'[f].pc \in Holding =>
                    executor'[f].task # driver'[o].task
    BY <1>6, <1>10, <2>1, <2>4 DEF IInv, HandsSound
  <2>5. /\ \A f \in Executors : serialize(executor[f].task)' = serialize(executor'[f].task)
        /\ \A o \in Owners : owner(driver[o].task)' = owner(driver'[o].task)
    BY <1>2 DEF serialize, content, owner
  <2> QED
    BY <1>2, <1>4, <2>2, <2>3, <2>4, <2>5 DEF HandsSound
<1>15. \A f \in Executors, c \in NotThreadSafe : Gated(f, c)' <=> Gated(f, c)
  BY <1>1, <1>2, <1>5 DEF Gated, Holding, content, serialize
<1>16. HoldersSound'
  <2>1. \A c \in NotThreadSafe : Holder(c)' <=> Holder(c)
    BY <1>2, <1>4, <1>15 DEF Holder, queues, content
  <2> QED
    BY <1>2, <1>4, <1>15, <2>1 DEF IInv, HoldersSound, Parked, queues, content
<1>17. RendersCounted'
  <2>1. \A c \in NotThreadSafe : \A f \in Executors :
          (executor'[f].pc \in Started /\ content(executor[f].task)' = c)
          <=> (executor[f].pc \in Started /\ content(executor[f].task) = c)
    BY <1>1, <1>2, <1>5 DEF Started, content, serialize
  <2> QED
    BY <1>2, <1>4, <2>1 DEF IInv, RendersCounted, queues
<1>18. ReturnsSettled'
  BY <1>2, <1>4, <1>5 DEF IInv, ReturnsSettled, settled
<1>19. LedgerSound'
  <2>1. Observed' = Observed \ {e} /\ e \in Observed
    BY <1>2, <1>4, <1>5 DEF Observed
  <2>2. Counted' = Counted \ {e}
    BY <1>2, <1>5, <2>1 DEF Counted, Observed
  <2>3. e \in Counted <=> task[t].settler = "none"
    BY <1>1, <2>1 DEF Counted
  <2>4. t \notin LeftToSettler
    BY <1>11 DEF LeftToSettler, Out
  <2>5. LeftToSettler' = IF task[t].settler # "none" THEN LeftToSettler \cup {t} ELSE LeftToSettler
    <3>1. \A s \in Tasks : Outstanding(s)' <=> Outstanding(s) /\ s # t
      BY <1>4, <1>11 DEF Out
    <3> QED
      BY <1>2, <1>3, <1>4, <3>1 DEF LeftToSettler
  <2>6. /\ IsFiniteSet(Out) /\ Cardinality(Out) \in Nat
        /\ IsFiniteSet(LeftToSettler) /\ Cardinality(LeftToSettler) \in Nat
        /\ IsFiniteSet(Observed) /\ Cardinality(Observed) \in Nat
        /\ IsFiniteSet(Counted) /\ Cardinality(Counted) \in Nat
    BY OutSizes DEF IInv
  <2>7. Cardinality(Out') = Cardinality(Out) - 1
    BY <1>11, <2>6, FS_RemoveElement
  <2>8. Cardinality(Observed') = Cardinality(Observed) - 1
    BY <2>1, <2>6, FS_RemoveElement
  <2>9. Cardinality(Counted') = IF task[t].settler = "none" THEN Cardinality(Counted) - 1
                                ELSE Cardinality(Counted)
    BY <2>2, <2>3, <2>6, FS_RemoveElement
  <2>10. Cardinality(LeftToSettler') = IF task[t].settler # "none"
                                       THEN Cardinality(LeftToSettler) + 1
                                       ELSE Cardinality(LeftToSettler)
    BY <2>4, <2>5, <2>6, FS_AddElement
  <2>11. /\ d_completed \in Nat /\ d_dropped \in Nat /\ Len(task) \in Nat
         /\ d_completed' = d_completed /\ d_dropped' = d_dropped /\ task' = task
    BY <1>2, TasksTyped DEF IInv, TypeOK, counters
  <2>12. /\ d_completed + d_dropped + Cardinality(Out) <= Len(task) + Cardinality(Observed)
         /\ Len(task) + Cardinality(Counted)
              <= d_completed + d_dropped + Cardinality(Out) + Cardinality(LeftToSettler)
    BY DEF IInv, LedgerSound
  <2>13. d_completed + d_dropped + Cardinality(Out') <= Len(task) + Cardinality(Observed')
    BY <2>6, <2>7, <2>8, <2>11, <2>12
  <2>14. Len(task) + Cardinality(Counted')
           <= d_completed + d_dropped + Cardinality(Out') + Cardinality(LeftToSettler')
    BY <2>6, <2>7, <2>9, <2>10, <2>11, <2>12
  <2> QED
    BY <2>11, <2>13, <2>14 DEF LedgerSound
<1>20. WakesSound'
  BY <1>2, <1>6 DEF IInv, WakesSound
<1>21. TypeOK'
  BY <1>2, <1>4, <1>5, <1>6, <1>12 DEF IInv, TypeOK, Driver, Executor, queues, counters
<1> QED
  BY <1>2, <1>12, <1>13, <1>14, <1>16, <1>17, <1>18, <1>19, <1>20, <1>21 DEF IInv

LEMMA SubmitSafe ==
  ASSUME IInv, NEW o \in Owners, NEW c \in Contents \cup {Job}, submit(o, c)
  PROVE  IInv'
<1>1. PICK t, r : t = Len(task) + 1
                  /\ r = [content |-> c, owner |-> o, done |-> "pending", settler |-> "none"]
  OBVIOUS
<1>2. /\ UNCHANGED <<inline, queues, d_stop, counters, executor>>
      /\ driver[o].pc = "idle" /\ Len(task) < MaxTasks
      /\ task' = Append(task, r)
      /\ d_outstanding' = [d_outstanding EXCEPT ![o] = @ + 1]
      /\ driver' = [driver EXCEPT ![o].pc = "admitted", ![o].task = t]
  BY <1>1 DEF submit
<1>3. r \in Task /\ task \in Seq(Task) /\ Len(task) \in Nat
  BY <1>1, TasksTyped DEF IInv, Task, Completion
<1>4. /\ task' \in Seq(Task) /\ Len(task') = t
      /\ task'[t] = r /\ \A s \in Tasks : task'[s] = task[s]
  BY <1>1, <1>2, <1>3, AppendProperties DEF Tasks
<1>5. /\ t \notin Tasks /\ Tasks' = Tasks \cup {t} /\ t \in TaskId /\ t <= MaxTasks
      /\ MaxTasks \in Nat
  BY <1>1, <1>2, <1>3, <1>4, MaxTasksAssumption DEF Tasks, TaskId
<1>6. \A s \in Tasks : content(s)' = content(s) /\ owner(s)' = owner(s)
  BY <1>4 DEF content, owner
<1>7. owner(t)' = o
  BY <1>1, <1>4 DEF owner
<1>8. driver \in [Owners -> Driver]
  BY DEF IInv, TypeOK, Driver
<1>9. /\ driver' \in [Owners -> Driver]
      /\ \A p \in Owners : p # o => driver'[p] = driver[p]
      /\ driver'[o].pc = "admitted" /\ driver'[o].task = t
      /\ driver'[o].behind = driver[o].behind /\ driver'[o].missed = driver[o].missed
  BY <1>2, <1>5, <1>8 DEF Driver
<1>10. Executors' = Executors /\ AllQueued' = AllQueued /\ AllQueued \subseteq Tasks
  BY <1>2, QueuedTyped DEF Executors, queues, AllQueued, Queued, IInv
<1>11. \A e \in Executors : executor[e].pc \in Busy => executor[e].task \in Tasks
  BY DEF IInv, HandsSound
<1>12. \A p \in Owners : driver[p].pc = "admitted" => driver[p].task \in Tasks
  BY DEF IInv, HandsSound
<1>13. Out' = Out \cup {t} /\ t \notin Out /\ Out \subseteq Tasks
  <2>1. \A s \in Tasks : Admitted(s)' <=> Admitted(s)
    BY <1>2, <1>5, <1>9 DEF Admitted
  <2>2. \A s \in Tasks : Outstanding(s)' <=> Outstanding(s)
    BY <1>2, <1>10, <2>1 DEF Outstanding, Executing
  <2>3. Outstanding(t)'
    BY <1>9 DEF Outstanding, Admitted
  <2> QED
    BY <1>5, <2>2, <2>3 DEF Out
<1>14. ClaimsSound' /\ d_outstanding' \in [Owners -> Nat]
  <2>1. d_outstanding \in [Owners -> Nat]
    BY DEF IInv, TypeOK
  <2>2. SUFFICES ASSUME NEW p \in Owners
                 PROVE  /\ d_outstanding'[p] = Cardinality(OutOf(p)')
                        /\ d_outstanding'[p] \in Nat
                        /\ driver'[p].pc = "dead" => d_outstanding'[p] = 0
    BY <1>2, <2>1 DEF ClaimsSound
  <2>3. OutOf(p)' = IF p = o THEN OutOf(p) \cup {t} ELSE OutOf(p)
    BY <1>5, <1>6, <1>7, <1>13 DEF OutOf
  <2>4. t \notin OutOf(p)
    BY <1>13 DEF OutOf
  <2>5. IsFiniteSet(OutOf(p)) /\ d_outstanding[p] = Cardinality(OutOf(p))
    BY OutSizes DEF IInv, ClaimsSound
  <2>6. Cardinality(OutOf(p)') = IF p = o THEN d_outstanding[p] + 1 ELSE d_outstanding[p]
    <3>1. Cardinality(OutOf(p) \cup {t}) = Cardinality(OutOf(p)) + 1
      BY <2>4, <2>5, FS_AddElement
    <3>2. CASE p = o
      BY <2>3, <2>5, <3>1, <3>2
    <3>3. CASE p # o
      BY <2>3, <2>5, <3>3
    <3> QED
      BY <3>2, <3>3
  <2>7. d_outstanding'[p] = IF p = o THEN d_outstanding[p] + 1 ELSE d_outstanding[p]
    BY <1>2, <2>1
  <2>8. driver'[p].pc = "dead" => p # o /\ d_outstanding[p] = 0
    BY <1>9 DEF IInv, ClaimsSound
  <2> QED
    BY <2>1, <2>6, <2>7, <2>8
<1>15. Range(d_ready) \subseteq Tasks /\ Range(d_work_ready) \subseteq Tasks
       /\ \A d \in Contents : Parked(d) \subseteq Tasks
  BY QueuedTyped DEF IInv
<1>16. QueuesSound'
  BY <1>2, <1>6, <1>15 DEF IInv, QueuesSound, Parked, queues, serialize
<1>17. HandsSound'
  <2>1. ASSUME NEW e \in Executors
        PROVE  /\ executor[e].pc \in Busy => executor[e].task \in Tasks'
               /\ executor[e].pc \in Holding => executor[e].task \notin AllQueued
               /\ executor[e].pc = "gate" => serialize(executor[e].task)'
               /\ inline => /\ executor[e].pc \notin {"check", "asleep", "exited"}
                            /\ executor[e].pc = "idle" \/ driver'[e].pc = "inline"
    BY <1>2, <1>5, <1>6, <1>9, <1>11 DEF IInv, HandsSound, serialize, Busy, Executors
  <2>2. ASSUME NEW p \in Owners, driver'[p].pc = "admitted"
        PROVE  /\ driver'[p].task \in Tasks' /\ owner(driver[p].task)' = p
               /\ driver'[p].task \notin AllQueued
               /\ \A e \in Executors : executor[e].pc \in Holding =>
                    executor[e].task # driver'[p].task
    <3>1. CASE p = o
      BY <1>5, <1>7, <1>9, <1>10, <1>11, <3>1 DEF Busy, owner
    <3>2. CASE p # o
      BY <1>5, <1>6, <1>9, <2>2, <3>2 DEF IInv, HandsSound
    <3> QED
      BY <3>1, <3>2
  <2> QED
    BY <1>2, <1>10, <2>1, <2>2 DEF HandsSound, IInv
<1>18. \A e \in Executors : \A d \in NotThreadSafe : Gated(e, d)' <=> Gated(e, d)
  BY <1>2, <1>6, <1>11 DEF Gated, Busy
<1>19. HoldersSound'
  <2>1. \A d \in NotThreadSafe : Holder(d)' <=> Holder(d)
    BY <1>2, <1>6, <1>10, <1>15, <1>18 DEF Holder, queues
  <2> QED
    BY <1>2, <1>6, <1>10, <1>15, <1>18, <2>1 DEF IInv, HoldersSound, Parked, queues
<1>20. RendersCounted'
  BY <1>2, <1>6, <1>10, <1>11 DEF IInv, RendersCounted, queues, Started, Busy, Holding
<1>21. ReturnsSettled'
  BY <1>2, <1>4, <1>10, <1>11 DEF IInv, ReturnsSettled, settled, Busy, Holding
<1>22. LedgerSound'
  <2>1. Observed' = Observed /\ Counted' = Counted
    BY <1>2, <1>4, <1>10, <1>11 DEF Observed, Counted, Busy, Holding
  <2>2. LeftToSettler' = LeftToSettler
    BY <1>1, <1>4, <1>5, <1>13 DEF LeftToSettler, Out
  <2>3. /\ IsFiniteSet(Out) /\ Cardinality(Out) \in Nat
        /\ Cardinality(LeftToSettler) \in Nat
        /\ Cardinality(Observed) \in Nat /\ Cardinality(Counted) \in Nat
    BY OutSizes DEF IInv
  <2>4. Cardinality(Out') = Cardinality(Out) + 1
    BY <1>13, <2>3, FS_AddElement
  <2>5. /\ d_completed \in Nat /\ d_dropped \in Nat /\ Len(task') = Len(task) + 1
        /\ d_completed' = d_completed /\ d_dropped' = d_dropped
    BY <1>1, <1>2, <1>4 DEF IInv, TypeOK, counters
  <2>6. /\ d_completed + d_dropped + Cardinality(Out) <= Len(task) + Cardinality(Observed)
        /\ Len(task) + Cardinality(Counted)
             <= d_completed + d_dropped + Cardinality(Out) + Cardinality(LeftToSettler)
    BY DEF IInv, LedgerSound
  <2>7. d_completed + d_dropped + Cardinality(Out') <= Len(task') + Cardinality(Observed)
    BY <1>3, <2>3, <2>4, <2>5, <2>6
  <2>8. Len(task') + Cardinality(Counted)
          <= d_completed + d_dropped + Cardinality(Out') + Cardinality(LeftToSettler)
    BY <1>3, <2>3, <2>4, <2>5, <2>6
  <2> QED
    BY <2>1, <2>2, <2>5, <2>7, <2>8 DEF LedgerSound
<1>23. WakesSound'
  BY <1>2, <1>9 DEF IInv, WakesSound
<1>24. TypeOK'
  <2>1. d_ready \in Seq(Tasks') /\ d_work_ready \in Seq(Tasks')
    <3>1. d_ready \in Seq(Tasks) /\ d_work_ready \in Seq(Tasks) /\ Tasks \subseteq Tasks'
      BY <1>5 DEF IInv, TypeOK
    <3> QED
      BY <3>1, SeqMonotonic
  <2>2. d_serial \in [Contents -> Gate']
    <3>1. d_serial \in [Contents -> Gate]
      BY GatesTyped DEF IInv
    <3>2. ASSUME NEW g \in Gate PROVE g \in Gate'
      <4>1. g.parked \in Seq(Tasks) /\ Tasks \subseteq Tasks'
        BY <1>5 DEF Gate
      <4>2. g.parked \in Seq(Tasks')
        BY <4>1, SeqMonotonic
      <4> QED
        BY <4>2 DEF Gate
    <3> QED
      BY <3>1, <3>2
  <2> QED
    BY <1>2, <1>4, <1>9, <1>10, <1>14, <2>1, <2>2
       DEF IInv, TypeOK, Task, Driver, Gate, queues, counters
<1> QED
  BY <1>2, <1>4, <1>5, <1>14, <1>16, <1>17, <1>19, <1>20, <1>21, <1>22, <1>23, <1>24 DEF IInv

\* A step that keeps the outstanding tasks, and looks at no completion.
LEMMA OutKept ==
  ASSUME IInv, UNCHANGED <<inline, task, d_outstanding, counters>>, Out' = Out,
         \A e \in Executors :
           {executor[e].pc, executor'[e].pc} \cap {"returned", "observed"} # {} =>
             executor'[e] = executor[e],
         \A o \in Owners : driver'[o].pc = "dead" => driver[o].pc = "dead"
  PROVE  ClaimsSound' /\ LedgerSound' /\ ReturnsSettled'
<1>1. Executors' = Executors /\ Tasks' = Tasks
  BY DEF Executors, Tasks
<1>2. \A o \in Owners : OutOf(o)' = OutOf(o)
  BY DEF OutOf, owner
<1>3. ClaimsSound'
  BY <1>2 DEF IInv, ClaimsSound
<1>4. ReturnsSettled'
  BY <1>1 DEF IInv, ReturnsSettled, settled
<1>5. Observed' = Observed
  BY <1>1 DEF Observed
<1>6. Counted' = Counted
  BY <1>5 DEF Counted, Observed
<1>7. LeftToSettler' = LeftToSettler
  BY <1>1 DEF LeftToSettler, Out
<1> QED
  BY <1>3, <1>4, <1>5, <1>6, <1>7 DEF IInv, LedgerSound, counters

\* What a driver that was admitted does to itself: it goes back to its host.
GoesIdle(o, t) ==
  /\ driver[o].pc = "admitted" /\ t = driver[o].task
  /\ \E pc \in {"idle", "inline"} :
       driver' = [driver EXCEPT ![o].pc = pc, ![o].task = NoTask]

LEMMA AdmittedGone ==
  ASSUME IInv, NEW o \in Owners, NEW t, GoesIdle(o, t), UNCHANGED <<task, d_stop>>
  PROVE  /\ driver' \in [Owners -> Driver] /\ WakesSound'
         /\ \A p \in Owners : p # o => driver'[p] = driver[p]
         /\ driver'[o].pc \in {"idle", "inline"}
         /\ t \in Tasks /\ owner(t) = o /\ t \notin AllQueued
         /\ \A e \in Executors : executor[e].pc \in Holding => executor[e].task # t
         /\ \A s \in Tasks : Admitted(s)' <=> Admitted(s) /\ s # t
         /\ Admitted(t) /\ t \in Out
<1>1. driver \in [Owners -> Driver] /\ NoTask \in TaskId
  BY MaxTasksAssumption DEF IInv, TypeOK, Driver, TaskId, NoTask
<1>2. PICK pc \in {"idle", "inline"} : driver' = [driver EXCEPT ![o].pc = pc, ![o].task = NoTask]
  BY DEF GoesIdle
<1>3. /\ driver' \in [Owners -> Driver]
      /\ \A p \in Owners : p # o => driver'[p] = driver[p]
      /\ driver'[o].pc = pc
      /\ driver'[o].behind = driver[o].behind /\ driver'[o].missed = driver[o].missed
  BY <1>1, <1>2 DEF Driver
<1>4. /\ t \in Tasks /\ owner(t) = o /\ t \notin AllQueued
      /\ \A e \in Executors : executor[e].pc \in Holding => executor[e].task # t
  BY DEF GoesIdle, IInv, HandsSound
<1>5. \A p \in Owners : driver[p].pc = "admitted" => owner(driver[p].task) = p
  BY DEF IInv, HandsSound
<1>6. \A s \in Tasks : Admitted(s)' <=> Admitted(s) /\ s # t
  BY <1>3, <1>4, <1>5 DEF Admitted, GoesIdle
<1>7. Admitted(t) /\ t \in Out
  BY <1>4 DEF Admitted, GoesIdle, Out, Outstanding
<1>8. WakesSound'
  BY <1>3 DEF IInv, WakesSound
<1> QED
  BY <1>3, <1>4, <1>6, <1>7, <1>8

LEMMA ParkSafe ==
  ASSUME IInv, NEW o \in Owners, NEW t, GoesIdle(o, t), serialize(t),
         d_serial[content(t)].active, Park(t),
         UNCHANGED <<inline, task, d_ready, d_work_ready, d_outstanding, d_stop, counters, executor>>
  PROVE  IInv'
<1>1. /\ driver' \in [Owners -> Driver] /\ WakesSound'
      /\ \A p \in Owners : p # o => driver'[p] = driver[p]
      /\ driver'[o].pc \in {"idle", "inline"}
      /\ t \in Tasks /\ owner(t) = o /\ t \notin AllQueued
      /\ \A e \in Executors : executor[e].pc \in Holding => executor[e].task # t
      /\ \A s \in Tasks : Admitted(s)' <=> Admitted(s) /\ s # t
      /\ Admitted(t) /\ t \in Out
  BY AdmittedGone
<1>2. Executors' = Executors /\ Tasks' = Tasks
  BY DEF Executors, Tasks
<1>3. PICK c \in NotThreadSafe : c = content(t) /\ c \in Contents
  BY ContentsAssumption DEF serialize
<1>4. PICK g \in Gate : g = d_serial[c] /\ g.active
  BY <1>3, GatesTyped DEF IInv
<1>5. PICK q : q = Append(g.parked, t)
  OBVIOUS
<1>6. Range(g.parked) = Parked(c) /\ t \notin Parked(c) /\ Distinct(g.parked)
  BY <1>1, <1>3, <1>4 DEF Parked, AllQueued, Queued, IInv, QueuesSound
<1>7. q \in Seq(Tasks) /\ Range(q) = Parked(c) \cup {t} /\ Distinct(q)
  <2>1. g.parked \in Seq(Tasks) /\ t \in Tasks
    BY <1>1 DEF Gate
  <2> QED
    BY <1>5, <1>6, <2>1, QueueAppend
<1>8. PICK h \in Gate : h = [active |-> g.active, rendering |-> g.rendering, parked |-> q]
  BY <1>7 DEF Gate
<1>9. d_serial' = [d_serial EXCEPT ![c] = h]
  <2>1. [g EXCEPT !.parked = q] = h
    BY <1>8 DEF Gate
  <2> QED
    BY <1>3, <1>4, <1>5, <2>1, GatesTyped DEF IInv, Park
<1>10. /\ d_serial' \in [Contents -> Gate]
       /\ Parked(c)' = Parked(c) \cup {t} /\ Distinct(d_serial'[c].parked)
       /\ d_serial'[c].active = d_serial[c].active
       /\ d_serial'[c].rendering = d_serial[c].rendering
       /\ \A d \in Contents : d # c => d_serial'[d] = d_serial[d]
  BY <1>3, <1>4, <1>7, <1>8, <1>9, GatesTyped DEF IInv, Parked
<1>11. \A d \in Contents : d # c => Parked(d)' = Parked(d)
  BY <1>10 DEF Parked
<1>12. \A s : s \in AllQueued' <=> s \in AllQueued \/ s = t
  BY <1>3, <1>10, <1>11 DEF AllQueued, Queued, Parked
<1>13. Out' = Out
  <2>1. \A s \in Tasks : Outstanding(s)' <=> Outstanding(s)
    BY <1>1, <1>2, <1>12 DEF Outstanding, Executing
  <2> QED
    BY <1>2, <2>1 DEF Out
<1>14. ClaimsSound' /\ LedgerSound' /\ ReturnsSettled'
  BY <1>1, <1>13, OutKept
<1>15. QueuesSound'
  <2>1. ASSUME NEW d \in Contents
        PROVE  /\ Distinct(d_serial'[d].parked)
               /\ \A s \in Parked(d)' : content(s) = d /\ serialize(s) /\ s \notin Range(d_ready)
    <3>1. CASE d = c
      BY <1>1, <1>3, <1>10, <3>1 DEF IInv, QueuesSound, AllQueued, Queued
    <3>2. CASE d # c
      BY <1>10, <1>11, <3>2 DEF IInv, QueuesSound
    <3> QED
      BY <3>1, <3>2
  <2> QED
    BY <2>1 DEF IInv, QueuesSound, content, serialize
<1>16. HandsSound'
  <2>1. ASSUME NEW e \in Executors, inline
        PROVE  executor[e].pc = "idle" \/ driver'[e].pc = "inline"
    BY <1>1, <2>1 DEF IInv, HandsSound, GoesIdle, Executors
  <2>2. \A p \in Owners : driver'[p].pc = "admitted" =>
          /\ p # o /\ driver'[p] = driver[p]
          /\ driver[p].task # t
    BY <1>1 DEF IInv, HandsSound
  <2> QED
    BY <1>1, <1>2, <1>12, <2>1, <2>2 DEF IInv, HandsSound, serialize, content, owner
<1>17. \A e \in Executors : \A d \in NotThreadSafe : Gated(e, d)' <=> Gated(e, d)
  BY DEF Gated, content
<1>18. HoldersSound'
  <2>1. \A d \in NotThreadSafe : Holder(d)' <=> Holder(d)
    BY <1>2, <1>17 DEF Holder, content
  <2>2. \A d \in NotThreadSafe : d \in Contents /\ d_serial'[d].active = d_serial[d].active
                                 /\ (Parked(d)' # {} => d_serial[d].active)
    BY ContentsAssumption, <1>4, <1>10, <1>11 DEF IInv, HoldersSound
  <2> QED
    BY <1>2, <1>17, <2>1, <2>2 DEF IInv, HoldersSound, content
<1>19. RendersCounted'
  <2>1. \A d \in NotThreadSafe : d_serial'[d].rendering = d_serial[d].rendering
    BY ContentsAssumption, <1>10
  <2> QED
    BY <1>2, <2>1 DEF IInv, RendersCounted, content
<1>20. TypeOK'
  BY <1>1, <1>2, <1>10 DEF IInv, TypeOK, Driver, Gate, counters
<1> QED
  BY <1>1, <1>14, <1>15, <1>16, <1>18, <1>19, <1>20 DEF IInv

\* A notification wakes at most one sleeper and touches nobody else.
LEMMA NotifiedOne ==
  ASSUME NEW ex \in [Executors -> Executor], NotifyOne(ex)
  PROVE  /\ executor' \in [Executors -> Executor]
         /\ \A e \in Executors :
              executor'[e] = ex[e] \/ (ex[e].pc = "asleep" /\ executor'[e].pc = "check")
<1>1. CASE executor' = ex
  BY <1>1
<1>2. CASE \E e \in Executors : ex[e].pc = "asleep" /\ executor' = [ex EXCEPT ![e].pc = "check"]
  <2>1. PICK e \in Executors : ex[e].pc = "asleep" /\ executor' = [ex EXCEPT ![e].pc = "check"]
    BY <1>2
  <2>2. [ex[e] EXCEPT !.pc = "check"] \in Executor
    BY DEF Executor
  <2>3. executor' = [ex EXCEPT ![e] = [ex[e] EXCEPT !.pc = "check"]]
    BY <2>1
  <2>4. \A f \in Executors : f # e => executor'[f] = ex[f]
    BY <2>3
  <2>5. executor'[e].pc = "check"
    BY <2>1 DEF Executor
  <2> QED
    BY <2>1, <2>2, <2>3, <2>4, <2>5
<1> QED
  BY <1>1, <1>2 DEF NotifyOne

\* The gate of t closes when t is to run; the gate of nothing else changes.
ClosesGate(t) ==
  /\ ~ (serialize(t) /\ d_serial[content(t)].active)
  /\ d_serial' = IF serialize(t) THEN [d_serial EXCEPT ![content(t)].active = TRUE]
                 ELSE d_serial

LEMMA GateClosed ==
  ASSUME IInv, NEW t \in Tasks, ClosesGate(t)
  PROVE  /\ d_serial' \in [Contents -> Gate]
         /\ \A d \in Contents : /\ Parked(d)' = Parked(d)
                                /\ d_serial'[d].parked = d_serial[d].parked
                                /\ d_serial'[d].rendering = d_serial[d].rendering
         /\ \A d \in NotThreadSafe :
              IF d = content(t)
              THEN d_serial'[d].active /\ ~Holder(d) /\ Parked(d) = {}
              ELSE d_serial'[d].active = d_serial[d].active
<1>1. d_serial \in [Contents -> Gate]
  BY GatesTyped DEF IInv
<1>2. CASE ~serialize(t)
  <2>1. d_serial' = d_serial /\ \A d \in NotThreadSafe : d # content(t)
    BY <1>2 DEF ClosesGate, serialize
  <2> QED
    BY <1>1, <2>1 DEF Parked, Gate
<1>3. CASE serialize(t)
  <2>1. PICK c \in NotThreadSafe : c = content(t) /\ c \in Contents
    BY ContentsAssumption, <1>3 DEF serialize
  <2>2. PICK g \in Gate : g = d_serial[c] /\ ~g.active
    BY <1>1, <1>3, <2>1 DEF ClosesGate
  <2>3. PICK h \in Gate : h = [active |-> TRUE, rendering |-> g.rendering, parked |-> g.parked]
    BY DEF Gate
  <2>4. [g EXCEPT !.active = TRUE] = h
    <3>1. ASSUME NEW b
          PROVE  [g EXCEPT !.active = b] =
                   [active |-> b, rendering |-> g.rendering, parked |-> g.parked]
      BY DEF Gate
    <3>2. [g EXCEPT !.active = TRUE] =
            [active |-> TRUE, rendering |-> g.rendering, parked |-> g.parked]
      BY <3>1, Zenon
    <3> QED
      BY <2>3, <3>2, Zenon
  <2>5. d_serial' = [d_serial EXCEPT ![c] = h]
    BY <1>1, <1>3, <2>1, <2>2, <2>4 DEF ClosesGate
  <2>6. /\ d_serial' \in [Contents -> Gate]
        /\ \A d \in Contents : d # c => d_serial'[d] = d_serial[d]
        /\ d_serial'[c].active /\ d_serial'[c].parked = d_serial[c].parked
        /\ d_serial'[c].rendering = d_serial[c].rendering
    BY <1>1, <2>1, <2>2, <2>3, <2>5
  <2>7. ~Holder(c) /\ Parked(c) = {}
    BY <2>2 DEF IInv, HoldersSound
  <2> QED
    BY ContentsAssumption, <2>1, <2>6, <2>7 DEF Parked
<1> QED
  BY <1>2, <1>3



LEMMA ReadySafe ==
  ASSUME IInv, NEW o \in Owners, NEW t, GoesIdle(o, t), ~inline, content(t) # Job,
         ClosesGate(t), d_ready' = Append(d_ready, t), NotifyOne(executor),
         UNCHANGED <<inline, task, d_work_ready, d_outstanding, d_stop, counters>>
  PROVE  IInv'
<1>1. /\ driver' \in [Owners -> Driver] /\ WakesSound'
      /\ \A p \in Owners : p # o => driver'[p] = driver[p]
      /\ driver'[o].pc \in {"idle", "inline"}
      /\ t \in Tasks /\ owner(t) = o /\ t \notin AllQueued
      /\ \A e \in Executors : executor[e].pc \in Holding => executor[e].task # t
      /\ \A s \in Tasks : Admitted(s)' <=> Admitted(s) /\ s # t
      /\ Admitted(t) /\ t \in Out
  BY AdmittedGone
<1>2. Executors' = Executors /\ Tasks' = Tasks
  BY DEF Executors, Tasks
<1>3. /\ d_serial' \in [Contents -> Gate]
      /\ \A d \in Contents : /\ Parked(d)' = Parked(d)
                             /\ d_serial'[d].parked = d_serial[d].parked
                             /\ d_serial'[d].rendering = d_serial[d].rendering
      /\ \A d \in NotThreadSafe :
           IF d = content(t)
           THEN d_serial'[d].active /\ ~Holder(d) /\ Parked(d) = {}
           ELSE d_serial'[d].active = d_serial[d].active
  BY <1>1, GateClosed
<1>4. /\ executor' \in [Executors -> Executor]
      /\ \A e \in Executors :
           executor'[e] = executor[e] \/ (executor[e].pc = "asleep" /\ executor'[e].pc = "check")
  <2>1. executor \in [Executors -> Executor]
    BY DEF IInv, TypeOK, Executor
  <2> QED
    BY <2>1, NotifiedOne
<1>5. d_ready' \in Seq(Tasks) /\ Range(d_ready') = Range(d_ready) \cup {t} /\ Distinct(d_ready')
  <2>1. d_ready \in Seq(Tasks) /\ t \in Tasks /\ Distinct(d_ready) /\ t \notin Range(d_ready)
    BY <1>1 DEF IInv, TypeOK, QueuesSound, AllQueued, Queued
  <2> QED
    BY <2>1, QueueAppend
<1>6. \A s : s \in AllQueued' <=> s \in AllQueued \/ s = t
  BY <1>3, <1>5 DEF AllQueued, Queued, Parked
<1>7. Out' = Out
  <2>1. \A s \in Tasks : Outstanding(s)' <=> Outstanding(s)
    BY <1>1, <1>2, <1>4, <1>6 DEF Outstanding, Executing, Holding
  <2> QED
    BY <1>2, <2>1 DEF Out
<1>8. ClaimsSound' /\ LedgerSound' /\ ReturnsSettled'
  BY <1>1, <1>4, <1>7, OutKept
<1>9. QueuesSound'
  <2>1. \A d \in Contents : t \notin Parked(d)
    BY <1>1 DEF AllQueued, Queued, Parked
  <2> QED
    BY <1>3, <1>5, <2>1 DEF IInv, QueuesSound, content, serialize
<1>10. \A e \in Executors : {executor[e].pc, executor'[e].pc} \cap Busy # {} => executor'[e] = executor[e]
  BY <1>4 DEF Busy, Holding
<1>11. HandsSound'
  <2>1. \A p \in Owners : driver'[p].pc = "admitted" =>
          /\ p # o /\ driver'[p] = driver[p]
          /\ driver[p].task # t
    BY <1>1 DEF IInv, HandsSound
  <2>2. \A e \in Executors : executor'[e].pc \in Busy => executor'[e] = executor[e]
    BY <1>10
  <2> QED
    BY <1>1, <1>2, <1>6, <2>1, <2>2 DEF IInv, HandsSound, serialize, content, owner, Busy
<1>12. \A e \in Executors : \A d \in NotThreadSafe : Gated(e, d)' <=> Gated(e, d)
  BY <1>10 DEF Gated, content, Busy
<1>13. HoldersSound'
  <2>1. ASSUME NEW d \in NotThreadSafe
        PROVE  /\ \A s, u \in Range(d_ready') : content(s) = d /\ content(u) = d => s = u
               /\ \A e, f \in Executors : Gated(e, d) /\ Gated(f, d) => e = f
               /\ \A s \in Range(d_ready'), e \in Executors : content(s) = d => ~Gated(e, d)
               /\ Holder(d)' \/ Parked(d)' # {} => d_serial'[d].active
               /\ d_serial'[d].active /\ ~d_stop => Holder(d)'
    <3>1. CASE d = content(t)
      <4>1. Holder(d)'
        BY <1>5, <3>1 DEF Holder, content
      <4> QED
        BY <1>3, <1>5, <3>1, <4>1 DEF Holder
    <3>2. CASE d # content(t)
      <4>1. Holder(d)' <=> Holder(d)
        BY <1>2, <1>5, <1>12, <3>2 DEF Holder, content
      <4> QED
        BY ContentsAssumption, <1>3, <1>5, <3>2, <4>1 DEF IInv, HoldersSound
    <3> QED
      BY <3>1, <3>2
  <2> QED
    BY <1>2, <1>12, <2>1 DEF HoldersSound, content
<1>14. RendersCounted'
  <2>1. \A d \in NotThreadSafe : d_serial'[d].rendering = d_serial[d].rendering
    BY ContentsAssumption, <1>3
  <2>2. \A d \in NotThreadSafe : \A e \in Executors :
          (executor'[e].pc \in Started /\ content(executor[e].task)' = d)
          <=> (executor[e].pc \in Started /\ content(executor[e].task) = d)
    BY <1>10 DEF Started, Busy, Holding, content
  <2> QED
    BY <1>2, <2>1, <2>2 DEF IInv, RendersCounted
<1>15. TypeOK'
  BY <1>1, <1>2, <1>3, <1>4, <1>5 DEF IInv, TypeOK, Driver, Executor, Gate, counters
<1> QED
  BY <1>1, <1>8, <1>9, <1>11, <1>13, <1>14, <1>15 DEF IInv

LEMMA WorkSafe ==
  ASSUME IInv, NEW o \in Owners, NEW t, GoesIdle(o, t), ~inline, content(t) = Job,
         d_work_ready' = Append(d_work_ready, t), NotifyOne(executor),
         UNCHANGED <<inline, task, d_ready, d_serial, d_outstanding, d_stop, counters>>
  PROVE  IInv'
<1>1. /\ driver' \in [Owners -> Driver] /\ WakesSound'
      /\ \A p \in Owners : p # o => driver'[p] = driver[p]
      /\ driver'[o].pc \in {"idle", "inline"}
      /\ t \in Tasks /\ owner(t) = o /\ t \notin AllQueued
      /\ \A e \in Executors : executor[e].pc \in Holding => executor[e].task # t
      /\ \A s \in Tasks : Admitted(s)' <=> Admitted(s) /\ s # t
      /\ Admitted(t) /\ t \in Out
  BY AdmittedGone
<1>2. Executors' = Executors /\ Tasks' = Tasks
  BY DEF Executors, Tasks
<1>3. /\ executor' \in [Executors -> Executor]
      /\ \A e \in Executors :
           executor'[e] = executor[e] \/ (executor[e].pc = "asleep" /\ executor'[e].pc = "check")
  <2>1. executor \in [Executors -> Executor]
    BY DEF IInv, TypeOK, Executor
  <2> QED
    BY <2>1, NotifiedOne
<1>4. /\ d_work_ready' \in Seq(Tasks) /\ Range(d_work_ready') = Range(d_work_ready) \cup {t}
      /\ Distinct(d_work_ready')
  <2>1. d_work_ready \in Seq(Tasks) /\ t \in Tasks /\ Distinct(d_work_ready) /\ t \notin Range(d_work_ready)
    BY <1>1 DEF IInv, TypeOK, QueuesSound, AllQueued, Queued
  <2> QED
    BY <2>1, QueueAppend
<1>5. \A s : s \in AllQueued' <=> s \in AllQueued \/ s = t
  BY <1>4 DEF AllQueued, Queued
<1>6. Out' = Out
  <2>1. \A s \in Tasks : Outstanding(s)' <=> Outstanding(s)
    BY <1>1, <1>2, <1>3, <1>5 DEF Outstanding, Executing, Holding
  <2> QED
    BY <1>2, <2>1 DEF Out
<1>7. ClaimsSound' /\ LedgerSound' /\ ReturnsSettled'
  BY <1>1, <1>3, <1>6, OutKept
<1>8. QueuesSound'
  BY <1>4 DEF IInv, QueuesSound, content, serialize, Parked
<1>9. \A e \in Executors : {executor[e].pc, executor'[e].pc} \cap Busy # {} => executor'[e] = executor[e]
  BY <1>3 DEF Busy, Holding
<1>10. HandsSound'
  <2>1. \A p \in Owners : driver'[p].pc = "admitted" =>
          /\ p # o /\ driver'[p] = driver[p]
          /\ driver[p].task # t
    BY <1>1 DEF IInv, HandsSound
  <2>2. \A e \in Executors : executor'[e].pc \in Busy => executor'[e] = executor[e]
    BY <1>9
  <2> QED
    BY <1>1, <1>2, <1>5, <2>1, <2>2 DEF IInv, HandsSound, serialize, content, owner, Busy
<1>11. \A e \in Executors : \A d \in NotThreadSafe : Gated(e, d)' <=> Gated(e, d)
  BY <1>9 DEF Gated, content, Busy
<1>12. HoldersSound'
  <2>1. \A d \in NotThreadSafe : Holder(d)' <=> Holder(d)
    BY <1>2, <1>11 DEF Holder, content
  <2> QED
    BY <1>2, <1>11, <2>1 DEF IInv, HoldersSound, Parked, content
<1>13. RendersCounted'
  <2>1. \A d \in NotThreadSafe : \A e \in Executors :
          (executor'[e].pc \in Started /\ content(executor[e].task)' = d)
          <=> (executor[e].pc \in Started /\ content(executor[e].task) = d)
    BY <1>9 DEF Started, Busy, Holding, content
  <2> QED
    BY <1>2, <2>1 DEF IInv, RendersCounted
<1>14. TypeOK'
  BY <1>1, <1>2, <1>3, <1>4 DEF IInv, TypeOK, Driver, Executor, counters
<1> QED
  BY <1>1, <1>7, <1>8, <1>10, <1>12, <1>13, <1>14 DEF IInv

LEMMA EnqueueSafe ==
  ASSUME IInv, NEW o \in Owners, enqueue(o)
  PROVE  IInv'
<1>1. PICK t : t = driver[o].task
  OBVIOUS
<1>2. /\ GoesIdle(o, t) /\ ~inline
      /\ UNCHANGED <<inline, task, d_outstanding, d_stop, counters>>
  <2>1. /\ driver[o].pc = "admitted"
        /\ driver' = [driver EXCEPT ![o].pc = "idle", ![o].task = NoTask]
    BY DEF enqueue
  <2> QED
    BY <1>1, <2>1 DEF enqueue, GoesIdle
<1>3. CASE /\ serialize(t) /\ d_serial[content(t)].active /\ Park(t)
           /\ UNCHANGED <<d_ready, d_work_ready, executor>>
  BY <1>2, <1>3, ParkSafe
<1>4. CASE /\ content(t) # Job /\ ClosesGate(t)
           /\ d_ready' = Append(d_ready, t) /\ NotifyOne(executor) /\ UNCHANGED d_work_ready
  BY <1>2, <1>4, ReadySafe
<1>5. CASE /\ content(t) = Job
           /\ d_work_ready' = Append(d_work_ready, t) /\ NotifyOne(executor)
           /\ UNCHANGED <<d_ready, d_serial>>
  BY <1>2, <1>5, WorkSafe
<1> QED
  BY <1>1, <1>3, <1>4, <1>5 DEF enqueue, ClosesGate

\* Without workers, the driver renders: the task goes from its hand to its hand.
LEMMA RunsInline ==
  ASSUME IInv, NEW o \in Owners, NEW t, inline, ClosesGate(t),
         driver[o].pc = "admitted", t = driver[o].task,
         driver' = [driver EXCEPT ![o].pc = "inline", ![o].task = NoTask],
         executor' = [executor EXCEPT ![o] = [pc |-> "popped", task |-> t]],
         UNCHANGED <<inline, task, d_ready, d_work_ready, d_outstanding, d_stop, counters>>
  PROVE  IInv'
<1>1. /\ driver' \in [Owners -> Driver] /\ WakesSound'
      /\ \A p \in Owners : p # o => driver'[p] = driver[p]
      /\ driver'[o].pc = "inline"
      /\ t \in Tasks /\ owner(t) = o /\ t \notin AllQueued
      /\ \A e \in Executors : executor[e].pc \in Holding => executor[e].task # t
      /\ \A s \in Tasks : Admitted(s)' <=> Admitted(s) /\ s # t
      /\ Admitted(t) /\ t \in Out
  <2>1. GoesIdle(o, t)
    BY DEF GoesIdle
  <2>2. driver'[o].pc = "inline"
    BY DEF IInv, TypeOK
  <2> QED
    BY <2>1, <2>2, AdmittedGone
<1>2. Executors' = Executors /\ Tasks' = Tasks /\ Executors = Owners
  BY DEF Executors, Tasks
<1>3. /\ d_serial' \in [Contents -> Gate]
      /\ \A d \in Contents : /\ Parked(d)' = Parked(d)
                             /\ d_serial'[d].parked = d_serial[d].parked
                             /\ d_serial'[d].rendering = d_serial[d].rendering
      /\ \A d \in NotThreadSafe :
           IF d = content(t)
           THEN d_serial'[d].active /\ ~Holder(d) /\ Parked(d) = {}
           ELSE d_serial'[d].active = d_serial[d].active
  BY <1>1, GateClosed
<1>4. /\ executor' \in [Executors -> Executor]
      /\ \A e \in Executors : e # o => executor'[e] = executor[e]
      /\ executor'[o].pc = "popped" /\ executor'[o].task = t
      /\ executor[o].pc = "idle"
  <2>1. executor \in [Executors -> Executor]
    BY DEF IInv, TypeOK, Executor
  <2>2. t \in TaskId
    BY <1>1, TasksTyped, MaxTasksAssumption DEF IInv, TaskId, Tasks
  <2>3. executor[o].pc = "idle"
    BY <1>2 DEF IInv, HandsSound
  <2> QED
    BY <1>2, <2>1, <2>2, <2>3 DEF Executor
<1>5. AllQueued' = AllQueued
  BY <1>3 DEF AllQueued, Queued, Parked
<1>6. Out' = Out
  <2>1. \A s \in Tasks : (\E e \in Executors : Executing(e, s))'
                         <=> s = t \/ \E e \in Executors : Executing(e, s)
    BY <1>2, <1>4 DEF Executing, Holding
  <2>2. \A s \in Tasks : Outstanding(s)' <=> Outstanding(s)
    BY <1>1, <1>5, <2>1 DEF Outstanding
  <2> QED
    BY <1>2, <2>2 DEF Out
<1>7. ClaimsSound' /\ LedgerSound' /\ ReturnsSettled'
  <2>1. \A p \in Owners : driver'[p].pc = "dead" => driver[p].pc = "dead"
    BY <1>1
  <2>2. \A e \in Executors : {executor[e].pc, executor'[e].pc} \cap {"returned", "observed"} # {} =>
          executor'[e] = executor[e]
    BY <1>4
  <2> QED
    BY <1>6, <2>1, <2>2, OutKept
<1>8. QueuesSound'
  BY <1>3 DEF IInv, QueuesSound, content, serialize
<1>9. HandsSound'
  <2>1. \A p \in Owners : driver'[p].pc = "admitted" =>
          /\ p # o /\ driver'[p] = driver[p]
          /\ driver[p].task # t
    BY <1>1 DEF IInv, HandsSound
  <2>2. ASSUME NEW e \in Executors
        PROVE  /\ executor'[e].pc \in Busy => executor'[e].task \in Tasks
               /\ executor'[e].pc \in Holding => executor'[e].task \notin AllQueued
               /\ executor'[e].pc = "gate" => serialize(executor'[e].task)
               /\ executor'[e].pc \notin {"check", "asleep", "exited"}
               /\ executor'[e].pc = "idle" \/ driver'[e].pc = "inline"
    <3>1. CASE e = o
      BY <1>1, <1>4, <3>1
    <3>2. CASE e # o
      BY <1>1, <1>2, <1>4, <3>2 DEF IInv, HandsSound
    <3> QED
      BY <3>1, <3>2
  <2>3. \A e, f \in Executors : executor'[e].pc \in Holding /\ executor'[f].pc \in Holding
          /\ executor'[e].task = executor'[f].task => e = f
    BY <1>1, <1>4 DEF IInv, HandsSound
  <2>4. \A p \in Owners : driver'[p].pc = "admitted" =>
          \A e \in Executors : executor'[e].pc \in Holding => executor'[e].task # driver'[p].task
    BY <1>1, <1>4, <2>1 DEF IInv, HandsSound
  <2>5. \A e \in Executors : serialize(executor[e].task)' = serialize(executor'[e].task)
    BY DEF serialize, content
  <2>6. \A p \in Owners : driver'[p].pc = "admitted" =>
          /\ driver'[p].task \in Tasks /\ owner(driver[p].task)' = p
          /\ driver'[p].task \notin AllQueued
    BY <2>1 DEF IInv, HandsSound, owner
  <2>7. \A e \in Executors :
          /\ executor'[e].pc \in Busy => executor'[e].task \in Tasks'
          /\ executor'[e].pc \in Holding => executor'[e].task \notin AllQueued'
          /\ executor'[e].pc = "gate" => serialize(executor[e].task)'
          /\ executor'[e].pc \notin {"check", "asleep", "exited"}
          /\ executor'[e].pc = "idle" \/ driver'[e].pc = "inline"
    BY <1>2, <1>5, <2>2, <2>5
  <2>8. \A p \in Owners : driver'[p].pc = "admitted" =>
          /\ driver'[p].task \in Tasks' /\ owner(driver[p].task)' = p
          /\ driver'[p].task \notin AllQueued'
          /\ \A e \in Executors : executor'[e].pc \in Holding => executor'[e].task # driver'[p].task
    BY <1>2, <1>5, <2>4, <2>6
  <2> QED
    BY <1>2, <2>3, <2>7, <2>8 DEF HandsSound
<1>10. \A e \in Executors : \A d \in NotThreadSafe :
         Gated(e, d)' <=> IF e = o THEN d = content(t) ELSE Gated(e, d)
  BY <1>4 DEF Gated, content, Holding
<1>11. \A d \in NotThreadSafe : ~Gated(o, d)
  BY <1>4 DEF Gated, Holding
<1>12. HoldersSound'
  <2>1. ASSUME NEW d \in NotThreadSafe
        PROVE  /\ \A s, u \in Range(d_ready) : content(s) = d /\ content(u) = d => s = u
               /\ \A e, f \in Executors : Gated(e, d)' /\ Gated(f, d)' => e = f
               /\ \A s \in Range(d_ready), e \in Executors : content(s) = d => ~Gated(e, d)'
               /\ Holder(d)' \/ Parked(d)' # {} => d_serial'[d].active
               /\ d_serial'[d].active /\ ~d_stop => Holder(d)'
    <3>1. CASE d = content(t)
      <4>1. Holder(d)'
        BY <1>2, <1>10, <3>1 DEF Holder
      <4> QED
        BY <1>3, <1>10, <3>1, <4>1 DEF Holder
    <3>2. CASE d # content(t)
      <4>1. \A e \in Executors : Gated(e, d)' <=> Gated(e, d)
        BY <1>10, <1>11, <3>2
      <4>2. Holder(d)' <=> Holder(d)
        BY <1>2, <4>1 DEF Holder, content
      <4> QED
        BY ContentsAssumption, <1>3, <3>2, <4>1, <4>2 DEF IInv, HoldersSound
    <3> QED
      BY <3>1, <3>2
  <2> QED
    BY <1>2, <2>1 DEF HoldersSound, content
<1>13. RendersCounted'
  <2>1. \A d \in NotThreadSafe : d_serial'[d].rendering = d_serial[d].rendering
    BY ContentsAssumption, <1>3
  <2>2. \A d \in NotThreadSafe : \A e \in Executors :
          (executor'[e].pc \in Started /\ content(executor[e].task)' = d)
          <=> (executor[e].pc \in Started /\ content(executor[e].task) = d)
    BY <1>4 DEF Started, content
  <2> QED
    BY <1>2, <2>1, <2>2 DEF IInv, RendersCounted
<1>14. TypeOK'
  BY <1>1, <1>2, <1>3, <1>4 DEF IInv, TypeOK, Driver, Executor, Gate, counters
<1> QED
  BY <1>1, <1>7, <1>8, <1>9, <1>12, <1>13, <1>14 DEF IInv

LEMMA SubmitInlineSafe ==
  ASSUME IInv, NEW o \in Owners, submit_inline(o)
  PROVE  IInv'
<1>1. PICK t : t = driver[o].task
  OBVIOUS
<1>2. /\ driver[o].pc = "admitted" /\ inline
      /\ UNCHANGED <<inline, task, d_ready, d_work_ready, d_outstanding, d_stop, counters>>
  BY DEF submit_inline
<1>3. CASE /\ serialize(t) /\ d_serial[content(t)].active /\ Park(t)
           /\ driver' = [driver EXCEPT ![o].pc = "idle", ![o].task = NoTask]
           /\ UNCHANGED executor
  <2>1. GoesIdle(o, t)
    BY <1>1, <1>2, <1>3 DEF GoesIdle
  <2> QED
    BY <1>2, <1>3, <2>1, ParkSafe
<1>4. CASE /\ ClosesGate(t)
           /\ executor' = [executor EXCEPT ![o] = [pc |-> "popped", task |-> t]]
           /\ driver' = [driver EXCEPT ![o].pc = "inline", ![o].task = NoTask]
  BY <1>1, <1>2, <1>4, RunsInline
<1> QED
  BY <1>1, <1>3, <1>4 DEF submit_inline, ClosesGate

LEMMA PopReadySafe ==
  ASSUME IInv, NEW w \in Executors, executor[w].pc = "check",
         d_ready # <<>>, d_ready' = Tail(d_ready), Takes(w, Head(d_ready)),
         UNCHANGED <<inline, task, d_work_ready, d_serial, d_outstanding, d_stop, counters, driver>>
  PROVE  IInv'
<1>1. PICK t : t = Head(d_ready)
  OBVIOUS
<1>2. Executors' = Executors /\ Tasks' = Tasks
  BY DEF Executors, Tasks
<1>3. /\ d_ready' \in Seq(Tasks) /\ t \in Tasks /\ t \in Range(d_ready)
      /\ Range(d_ready) = Range(d_ready') \cup {t}
      /\ Distinct(d_ready') /\ t \notin Range(d_ready')
  <2>1. d_ready \in Seq(Tasks) /\ Distinct(d_ready) /\ d_ready # <<>>
    BY DEF IInv, TypeOK, QueuesSound
  <2> QED
    BY <1>1, <2>1, QueueTail
<1>4. t \notin Range(d_work_ready) /\ \A d \in Contents : t \notin Parked(d)
  BY <1>3 DEF IInv, QueuesSound
<1>5. \A s : s \in AllQueued' <=> s \in AllQueued /\ s # t
  BY <1>3, <1>4 DEF AllQueued, Queued, Parked
<1>6. t \in AllQueued
  BY <1>3 DEF AllQueued, Queued
<1>7. /\ executor' \in [Executors -> Executor]
      /\ executor'[w].pc = "popped" /\ executor'[w].task = t
      /\ \A e \in Executors : e # w => executor'[e] = executor[e]
  <2>1. executor \in [Executors -> Executor]
    BY DEF IInv, TypeOK, Executor
  <2>2. t \in TaskId
    BY <1>3, TasksTyped, MaxTasksAssumption DEF IInv, TaskId, Tasks
  <2> QED
    BY <1>1, <2>1, <2>2 DEF Executor, Takes
<1>8. Out' = Out
  <2>1. \A s \in Tasks : (\E e \in Executors : Executing(e, s))'
                         <=> s = t \/ \E e \in Executors : Executing(e, s)
    BY <1>2, <1>7 DEF Executing, Holding
  <2>2. \A s \in Tasks : Outstanding(s)' <=> Outstanding(s)
    BY <1>5, <1>6, <2>1 DEF Outstanding, Admitted
  <2> QED
    BY <1>2, <2>2 DEF Out
<1>9. ClaimsSound' /\ LedgerSound' /\ ReturnsSettled'
  BY <1>7, <1>8, OutKept
<1>10. QueuesSound'
  BY <1>3 DEF IInv, QueuesSound, content, serialize, Parked
<1>11. ~inline
  BY DEF IInv, HandsSound
<1>12. HandsSound'
  <2>1. ASSUME NEW e \in Executors
        PROVE  /\ executor'[e].pc \in Busy => executor'[e].task \in Tasks'
               /\ executor'[e].pc \in Holding => executor'[e].task \notin AllQueued'
               /\ executor'[e].pc = "gate" => serialize(executor[e].task)'
    <3>1. CASE e = w
      BY <1>2, <1>3, <1>5, <1>7, <3>1
    <3>2. CASE e # w
      <4>1. executor'[e].pc = "gate" => serialize(executor'[e].task)
        BY <1>7, <3>2 DEF IInv, HandsSound
      <4> QED
        BY <1>2, <1>5, <1>7, <3>2, <4>1 DEF IInv, HandsSound, serialize, content
    <3> QED
      BY <3>1, <3>2
  <2>2. \A e, f \in Executors : executor'[e].pc \in Holding /\ executor'[f].pc \in Holding
          /\ executor'[e].task = executor'[f].task => e = f
    BY <1>6, <1>7 DEF IInv, HandsSound
  <2>3. ASSUME NEW p \in Owners, driver'[p].pc = "admitted"
        PROVE  /\ driver'[p].task \in Tasks' /\ owner(driver[p].task)' = p
               /\ driver'[p].task \notin AllQueued'
               /\ \A e \in Executors : executor'[e].pc \in Holding => executor'[e].task # driver'[p].task
    BY <1>2, <1>5, <1>6, <1>7, <2>3 DEF IInv, HandsSound, owner
  <2> QED
    BY <1>2, <1>11, <2>1, <2>2, <2>3 DEF HandsSound
<1>13. \A e \in Executors : \A d \in NotThreadSafe :
         Gated(e, d)' <=> IF e = w THEN d = content(t) ELSE Gated(e, d)
  BY <1>7 DEF Gated, content, Holding
<1>14. \A d \in NotThreadSafe : ~Gated(w, d)
  BY DEF Gated, Holding
<1>15. HoldersSound'
  <2>1. ASSUME NEW d \in NotThreadSafe
        PROVE  /\ \A s, u \in Range(d_ready') : content(s) = d /\ content(u) = d => s = u
               /\ \A e, f \in Executors : Gated(e, d)' /\ Gated(f, d)' => e = f
               /\ \A s \in Range(d_ready'), e \in Executors : content(s) = d => ~Gated(e, d)'
               /\ Holder(d)' <=> Holder(d)
    <3>1. CASE d = content(t)
      <4>1. Holder(d) /\ \A e \in Executors : ~Gated(e, d)
        BY <1>3, <3>1 DEF Holder, IInv, HoldersSound
      <4>2. Holder(d)'
        BY <1>2, <1>13, <3>1 DEF Holder
      <4>3. \A s \in Range(d_ready') : content(s) # d
        BY <1>3, <3>1 DEF IInv, HoldersSound
      <4> QED
        BY <1>13, <4>1, <4>2, <4>3
    <3>2. CASE d # content(t)
      <4>1. \A e \in Executors : Gated(e, d)' <=> Gated(e, d)
        BY <1>13, <1>14, <3>2
      <4>2. Holder(d)' <=> Holder(d)
        BY <1>2, <1>3, <3>2, <4>1 DEF Holder, content
      <4> QED
        BY <1>3, <4>1, <4>2 DEF IInv, HoldersSound
    <3> QED
      BY <3>1, <3>2
  <2> QED
    BY <1>2, <2>1 DEF IInv, HoldersSound, content, Parked
<1>16. RendersCounted'
  <2>1. \A d \in NotThreadSafe : \A e \in Executors :
          (executor'[e].pc \in Started /\ content(executor[e].task)' = d)
          <=> (executor[e].pc \in Started /\ content(executor[e].task) = d)
    BY <1>7 DEF Started, content
  <2> QED
    BY <1>2, <2>1 DEF IInv, RendersCounted
<1>17. WakesSound'
  BY DEF IInv, WakesSound
<1>18. TypeOK'
  BY <1>2, <1>3, <1>7 DEF IInv, TypeOK, Executor, counters
<1> QED
  BY <1>9, <1>10, <1>12, <1>15, <1>16, <1>17, <1>18 DEF IInv

LEMMA PopWorkSafe ==
  ASSUME IInv, NEW w \in Executors, executor[w].pc = "check",
         d_work_ready # <<>>, d_work_ready' = Tail(d_work_ready), Takes(w, Head(d_work_ready)),
         UNCHANGED <<inline, task, d_ready, d_serial, d_outstanding, d_stop, counters, driver>>
  PROVE  IInv'
<1>1. PICK t : t = Head(d_work_ready)
  OBVIOUS
<1>2. Executors' = Executors /\ Tasks' = Tasks
  BY DEF Executors, Tasks
<1>3. /\ d_work_ready' \in Seq(Tasks) /\ t \in Tasks /\ t \in Range(d_work_ready)
      /\ Range(d_work_ready) = Range(d_work_ready') \cup {t}
      /\ Distinct(d_work_ready') /\ t \notin Range(d_work_ready')
  <2>1. d_work_ready \in Seq(Tasks) /\ Distinct(d_work_ready) /\ d_work_ready # <<>>
    BY DEF IInv, TypeOK, QueuesSound
  <2> QED
    BY <1>1, <2>1, QueueTail
<1>4. /\ content(t) = Job /\ \A d \in NotThreadSafe : content(t) # d
      /\ t \notin Range(d_ready) /\ \A d \in Contents : t \notin Parked(d)
  BY <1>3, JobAssumption, ContentsAssumption DEF IInv, QueuesSound
<1>5. \A s : s \in AllQueued' <=> s \in AllQueued /\ s # t
  BY <1>3, <1>4 DEF AllQueued, Queued, Parked
<1>6. t \in AllQueued
  BY <1>3 DEF AllQueued, Queued
<1>7. /\ executor' \in [Executors -> Executor]
      /\ executor'[w].pc = "popped" /\ executor'[w].task = t
      /\ \A e \in Executors : e # w => executor'[e] = executor[e]
  <2>1. executor \in [Executors -> Executor]
    BY DEF IInv, TypeOK, Executor
  <2>2. t \in TaskId
    BY <1>3, TasksTyped, MaxTasksAssumption DEF IInv, TaskId, Tasks
  <2> QED
    BY <1>1, <2>1, <2>2 DEF Executor, Takes
<1>8. Out' = Out
  <2>1. \A s \in Tasks : (\E e \in Executors : Executing(e, s))'
                         <=> s = t \/ \E e \in Executors : Executing(e, s)
    BY <1>2, <1>7 DEF Executing, Holding
  <2>2. \A s \in Tasks : Outstanding(s)' <=> Outstanding(s)
    BY <1>5, <1>6, <2>1 DEF Outstanding, Admitted
  <2> QED
    BY <1>2, <2>2 DEF Out
<1>9. ClaimsSound' /\ LedgerSound' /\ ReturnsSettled'
  BY <1>7, <1>8, OutKept
<1>10. QueuesSound'
  BY <1>3 DEF IInv, QueuesSound, content, serialize, Parked
<1>11. ~inline
  BY DEF IInv, HandsSound
<1>12. HandsSound'
  <2>1. ASSUME NEW e \in Executors
        PROVE  /\ executor'[e].pc \in Busy => executor'[e].task \in Tasks'
               /\ executor'[e].pc \in Holding => executor'[e].task \notin AllQueued'
               /\ executor'[e].pc = "gate" => serialize(executor[e].task)'
    <3>1. CASE e = w
      BY <1>2, <1>3, <1>5, <1>7, <3>1
    <3>2. CASE e # w
      <4>1. executor'[e].pc = "gate" => serialize(executor'[e].task)
        BY <1>7, <3>2 DEF IInv, HandsSound
      <4> QED
        BY <1>2, <1>5, <1>7, <3>2, <4>1 DEF IInv, HandsSound, serialize, content
    <3> QED
      BY <3>1, <3>2
  <2>2. \A e, f \in Executors : executor'[e].pc \in Holding /\ executor'[f].pc \in Holding
          /\ executor'[e].task = executor'[f].task => e = f
    BY <1>6, <1>7 DEF IInv, HandsSound
  <2>3. ASSUME NEW p \in Owners, driver'[p].pc = "admitted"
        PROVE  /\ driver'[p].task \in Tasks' /\ owner(driver[p].task)' = p
               /\ driver'[p].task \notin AllQueued'
               /\ \A e \in Executors : executor'[e].pc \in Holding => executor'[e].task # driver'[p].task
    BY <1>2, <1>5, <1>6, <1>7, <2>3 DEF IInv, HandsSound, owner
  <2> QED
    BY <1>2, <1>11, <2>1, <2>2, <2>3 DEF HandsSound
<1>13. \A e \in Executors : \A d \in NotThreadSafe : Gated(e, d)' <=> Gated(e, d)
  <2>1. \A d \in NotThreadSafe : ~Gated(w, d)
    BY DEF Gated, Holding
  <2>2. \A d \in NotThreadSafe : ~Gated(w, d)'
    BY <1>4, <1>7 DEF Gated, content
  <2>3. \A e \in Executors : \A d \in NotThreadSafe : e # w => (Gated(e, d)' <=> Gated(e, d))
    BY <1>7 DEF Gated, content
  <2> QED
    BY <2>1, <2>2, <2>3
<1>14. HoldersSound'
  <2>1. \A d \in NotThreadSafe : Holder(d)' <=> Holder(d)
    BY <1>2, <1>13 DEF Holder, content
  <2> QED
    BY <1>2, <1>13, <2>1 DEF IInv, HoldersSound, Parked, content
<1>15. RendersCounted'
  <2>1. \A d \in NotThreadSafe : \A e \in Executors :
          (executor'[e].pc \in Started /\ content(executor[e].task)' = d)
          <=> (executor[e].pc \in Started /\ content(executor[e].task) = d)
    BY <1>7 DEF Started, content
  <2> QED
    BY <1>2, <2>1 DEF IInv, RendersCounted
<1>16. WakesSound'
  BY DEF IInv, WakesSound
<1>17. TypeOK'
  BY <1>2, <1>3, <1>7 DEF IInv, TypeOK, Executor, counters
<1> QED
  BY <1>9, <1>10, <1>12, <1>14, <1>15, <1>16, <1>17 DEF IInv

LEMMA PopSafe ==
  ASSUME IInv, NEW w \in Executors, pop(w)
  PROVE  IInv'
<1>1. /\ executor[w].pc = "check"
      /\ UNCHANGED <<inline, task, d_serial, d_outstanding, d_stop, counters, driver>>
  BY DEF pop, At
<1>2. CASE /\ d_ready # <<>> /\ Takes(w, Head(d_ready)) /\ d_ready' = Tail(d_ready)
           /\ UNCHANGED d_work_ready
  BY <1>1, <1>2, PopReadySafe
<1>3. CASE /\ d_work_ready # <<>> /\ Takes(w, Head(d_work_ready))
           /\ d_work_ready' = Tail(d_work_ready) /\ UNCHANGED d_ready
  BY <1>1, <1>3, PopWorkSafe
<1>4. CASE Goes(w, "asleep") /\ UNCHANGED <<d_ready, d_work_ready>>
  <2>1. executor \in [Executors -> Executor]
    BY DEF IInv, TypeOK, Executor
  <2>2. /\ executor' \in [Executors -> Executor]
        /\ executor'[w].pc = "asleep" /\ \A e \in Executors : e # w => executor'[e] = executor[e]
    BY <1>4, <2>1 DEF Goes, Executor
  <2>3. ~inline
    BY <1>1 DEF IInv, HandsSound
  <2>4. Quiet
    BY <1>1, <1>4, <2>2, <2>3 DEF Quiet, SameDrivers, queues, Busy, Holding
  <2>5. TypeOK'
    BY <1>1, <1>4, <2>2 DEF IInv, TypeOK, Executor, counters, Tasks, Executors
  <2>6. WakesSound'
    BY <1>1 DEF IInv, WakesSound
  <2> QED
    BY <1>1, <2>4, <2>5, <2>6, QuietSafe DEF IInv
<1> QED
  BY <1>2, <1>3, <1>4 DEF pop

\* An executor at the gate is the only holder, and its render the only one.
LEMMA AtGate ==
  ASSUME IInv, NEW e \in Executors, executor[e].pc = "gate", NEW c, c = content(executor[e].task)
  PROVE  /\ c \in NotThreadSafe /\ c \in Contents /\ c # Job
         /\ Gated(e, c) /\ \A f \in Executors : Gated(f, c) => f = e
         /\ \A s \in Range(d_ready) : content(s) # c
         /\ d_serial[c].active /\ d_serial[c].rendering = 1
         /\ \A d \in NotThreadSafe : d # c => ~Gated(e, d)
<1>1. c \in NotThreadSafe
  BY DEF IInv, HandsSound, serialize
<1>2. c \in Contents /\ c # Job
  BY <1>1, ContentsAssumption, JobAssumption
<1>3. Gated(e, c) /\ \A d \in NotThreadSafe : d # c => ~Gated(e, d)
  BY DEF Gated
<1>4. Holder(c)
  BY <1>3 DEF Holder
<1>5. d_serial[c].rendering = 1
  BY <1>1 DEF IInv, RendersCounted, Started
<1> QED
  BY <1>1, <1>2, <1>3, <1>4, <1>5 DEF IInv, HoldersSound

LEMMA GateOpens ==
  ASSUME IInv, NEW e \in Executors, executor[e].pc = "gate", NEW c, c = content(executor[e].task),
         d_serial[c].parked = <<>>, d_serial' = [d_serial EXCEPT ![c] = OpenGate],
         executor' = [executor EXCEPT ![e] = [pc |-> IF inline THEN "idle" ELSE "check",
                                              task |-> NoTask]],
         driver' = BackFrom(driver, e),
         UNCHANGED <<inline, task, d_ready, d_work_ready, d_outstanding, d_stop, counters>>
  PROVE  IInv'
<1>1. /\ c \in NotThreadSafe /\ c \in Contents /\ c # Job
      /\ Gated(e, c) /\ \A f \in Executors : Gated(f, c) => f = e
      /\ \A s \in Range(d_ready) : content(s) # c
      /\ d_serial[c].active /\ d_serial[c].rendering = 1
      /\ \A d \in NotThreadSafe : d # c => ~Gated(e, d)
  BY AtGate
<1>2. Executors' = Executors /\ Tasks' = Tasks
  BY DEF Executors, Tasks
<1>3. PICK h \in Gate : h = OpenGate /\ ~h.active /\ h.rendering = 0 /\ h.parked = <<>>
  <2>1. <<>> \in Seq(Tasks)
    BY QueueEmpty
  <2>2. OpenGate \in Gate
    BY <2>1 DEF Gate, OpenGate
  <2>3. ~OpenGate.active /\ OpenGate.rendering = 0 /\ OpenGate.parked = <<>>
    BY DEF OpenGate
  <2> QED
    BY <2>2, <2>3
<1>4. /\ d_serial' \in [Contents -> Gate]
      /\ d_serial'[c] = h /\ \A d \in Contents : d # c => d_serial'[d] = d_serial[d]
  BY <1>1, <1>3, GatesTyped DEF IInv
<1>5. \A d \in Contents : d_serial'[d].parked = d_serial[d].parked /\ Parked(d)' = Parked(d)
  BY <1>3, <1>4 DEF Parked
<1>6. AllQueued' = AllQueued
  BY <1>5 DEF AllQueued, Queued
<1>7. /\ executor' \in [Executors -> Executor]
      /\ executor'[e].pc = IF inline THEN "idle" ELSE "check"
      /\ \A f \in Executors : f # e => executor'[f] = executor[f]
  <2>1. executor \in [Executors -> Executor]
    BY DEF IInv, TypeOK, Executor
  <2>2. [pc |-> IF inline THEN "idle" ELSE "check", task |-> NoTask] \in Executor
    BY MaxTasksAssumption DEF Executor, TaskId, NoTask
  <2> QED
    BY <2>1, <2>2
<1>8. inline => driver[e].pc = "inline" /\ e \in Owners
  BY DEF IInv, HandsSound, Executors
<1>9. /\ driver' \in [Owners -> Driver]
      /\ \A o \in Owners :
           /\ driver'[o].pc = IF inline /\ o = e THEN "idle" ELSE driver[o].pc
           /\ driver'[o].task = driver[o].task
           /\ driver'[o].behind = driver[o].behind /\ driver'[o].missed = driver[o].missed
  <2>1. driver \in [Owners -> Driver]
    BY DEF IInv, TypeOK, Driver
  <2> QED
    BY <2>1 DEF BackFrom, Driver
<1>10. Out' = Out
  <2>1. \A s \in Tasks : Admitted(s)' <=> Admitted(s)
    BY <1>8, <1>9 DEF Admitted
  <2>2. \A s \in Tasks : (\E f \in Executors : Executing(f, s))' <=> \E f \in Executors : Executing(f, s)
    BY <1>2, <1>7 DEF Executing, Holding
  <2> QED
    BY <1>2, <1>6, <2>1, <2>2 DEF Out, Outstanding
<1>11. ClaimsSound' /\ LedgerSound' /\ ReturnsSettled'
  <2>1. \A o \in Owners : driver'[o].pc = "dead" => driver[o].pc = "dead"
    BY <1>9
  <2> QED
    BY <1>7, <1>10, <2>1, OutKept
<1>12. QueuesSound'
  BY <1>5 DEF IInv, QueuesSound, content, serialize
<1>13. HandsSound'
  <2>1. ASSUME NEW f \in Executors
        PROVE  /\ executor'[f].pc \in Busy => executor'[f].task \in Tasks'
               /\ executor'[f].pc \in Holding => executor'[f].task \notin AllQueued'
               /\ executor'[f].pc = "gate" => serialize(executor[f].task)'
               /\ inline => /\ executor'[f].pc \notin {"check", "asleep", "exited"}
                            /\ executor'[f].pc = "idle" \/ driver'[f].pc = "inline"
    <3>1. CASE f = e
      BY <1>7, <3>1 DEF Busy, Holding
    <3>2. CASE f # e
      <4>1. executor'[f].pc = "gate" => serialize(executor'[f].task)
        BY <1>7, <3>2 DEF IInv, HandsSound
      <4>2. inline => executor'[f].pc = "idle" \/ driver'[f].pc = "inline"
        BY <1>7, <1>9, <3>2 DEF IInv, HandsSound, Executors
      <4> QED
        BY <1>2, <1>6, <1>7, <3>2, <4>1, <4>2 DEF IInv, HandsSound, serialize, content
    <3> QED
      BY <3>1, <3>2
  <2>2. \A f \in Executors : executor'[f].pc \in Holding => executor'[f] = executor[f]
    BY <1>7 DEF Holding
  <2>3. \A f, g \in Executors : executor'[f].pc \in Holding /\ executor'[g].pc \in Holding
          /\ executor'[f].task = executor'[g].task => f = g
    BY <2>2 DEF IInv, HandsSound
  <2>4. ASSUME NEW p \in Owners, driver'[p].pc = "admitted"
        PROVE  /\ driver'[p].task \in Tasks' /\ owner(driver[p].task)' = p
               /\ driver'[p].task \notin AllQueued'
               /\ \A f \in Executors : executor'[f].pc \in Holding => executor'[f].task # driver'[p].task
    BY <1>2, <1>6, <1>9, <2>2, <2>4 DEF IInv, HandsSound, owner
  <2> QED
    BY <1>2, <2>1, <2>3, <2>4 DEF HandsSound
<1>14. \A f \in Executors : \A d \in NotThreadSafe : Gated(f, d)' <=> f # e /\ Gated(f, d)
  BY <1>7 DEF Gated, content, Holding
<1>15. HoldersSound'
  <2>1. ASSUME NEW d \in NotThreadSafe
        PROVE  /\ \A s, u \in Range(d_ready) : content(s) = d /\ content(u) = d => s = u
               /\ \A f, g \in Executors : Gated(f, d)' /\ Gated(g, d)' => f = g
               /\ \A s \in Range(d_ready), f \in Executors : content(s) = d => ~Gated(f, d)'
               /\ Holder(d)' \/ Parked(d)' # {} => d_serial'[d].active
               /\ d_serial'[d].active /\ ~d_stop => Holder(d)'
    <3>1. CASE d = c
      <4>1. ~Holder(d)'
        BY <1>1, <1>2, <1>14, <3>1 DEF Holder, content
      <4>2. Parked(d)' = {} /\ ~d_serial'[d].active
        BY <1>1, <1>3, <1>4, <3>1, QueueEmpty DEF Parked
      <4> QED
        BY <1>14, <4>1, <4>2 DEF IInv, HoldersSound
    <3>2. CASE d # c
      <4>1. \A f \in Executors : Gated(f, d)' <=> Gated(f, d)
        BY <1>1, <1>14, <3>2
      <4>2. Holder(d)' <=> Holder(d)
        BY <1>2, <4>1 DEF Holder, content
      <4> QED
        BY ContentsAssumption, <1>4, <1>5, <3>2, <4>1, <4>2 DEF IInv, HoldersSound
    <3> QED
      BY <3>1, <3>2
  <2> QED
    BY <1>2, <2>1 DEF HoldersSound, content
<1>16. RendersCounted'
  <2>1. SUFFICES ASSUME NEW d \in NotThreadSafe
        PROVE  d_serial'[d].rendering =
                 IF \E f \in Executors : executor'[f].pc \in Started
                                        /\ content(executor[f].task)' = d
                 THEN 1 ELSE 0
    BY <1>2 DEF RendersCounted
  <2>2. \A f \in Executors : content(executor[f].task)' = content(executor'[f].task)
    BY DEF content
  <2>3. CASE d = c
    <3>1. ~ \E f \in Executors : executor'[f].pc \in Started /\ content(executor'[f].task) = d
      BY <1>1, <1>7, <2>3 DEF Gated, Started, Holding
    <3> QED
      BY <1>3, <1>4, <1>1, <2>2, <2>3, <3>1
  <2>4. CASE d # c
    <3>1. \A f \in Executors : (executor'[f].pc \in Started /\ content(executor'[f].task) = d)
                               <=> (executor[f].pc \in Started /\ content(executor[f].task) = d)
      BY <1>7, <2>4 DEF Started
    <3>2. d_serial'[d].rendering = d_serial[d].rendering
      BY ContentsAssumption, <1>4, <2>4
    <3> QED
      BY <2>2, <3>1, <3>2 DEF IInv, RendersCounted
  <2> QED
    BY <2>3, <2>4
<1>17. WakesSound'
  BY <1>9 DEF IInv, WakesSound
<1>18. TypeOK'
  BY <1>2, <1>4, <1>7, <1>9 DEF IInv, TypeOK, Driver, Executor, Gate, counters
<1> QED
  BY <1>11, <1>12, <1>13, <1>15, <1>16, <1>17, <1>18 DEF IInv

\* The gate of c passes to the first of the tasks parked behind it.
PassesGate(c) ==
  d_serial' = [d_serial EXCEPT ![c].rendering = @ - 1, ![c].parked = Tail(@)]

\* What that does: u leaves the parked tasks of c, and is queued nowhere else.
GatePassed(c, u) ==
  /\ d_serial' \in [Contents -> Gate]
  /\ \A d \in Contents : d # c => d_serial'[d] = d_serial[d] /\ Parked(d)' = Parked(d)
  /\ d_serial'[c].active /\ d_serial'[c].rendering = 0
  /\ Distinct(d_serial'[c].parked)
  /\ Parked(c) = Parked(c)' \cup {u} /\ u \notin Parked(c)'
  /\ u \in Tasks /\ content(u) = c /\ u \in AllQueued
  /\ u \notin Range(d_ready) /\ u \notin Range(d_work_ready)
  /\ \A d \in Contents : d # c => u \notin Parked(d)

LEMMA GateHanded ==
  ASSUME IInv, NEW e \in Executors, executor[e].pc = "gate", NEW c, c = content(executor[e].task),
         d_serial[c].parked # <<>>, NEW u, u = Head(d_serial[c].parked), PassesGate(c),
         UNCHANGED task
  PROVE  GatePassed(c, u)
<1>1. /\ c \in NotThreadSafe /\ c \in Contents /\ c # Job
      /\ d_serial[c].active /\ d_serial[c].rendering = 1
  BY AtGate
<1>2. d_serial \in [Contents -> Gate]
  BY GatesTyped DEF IInv
<1>3. PICK g \in Gate : g = d_serial[c] /\ g.parked # <<>>
  BY <1>1, <1>2
<1>4. PICK q : q = Tail(g.parked)
  OBVIOUS
<1>5. /\ q \in Seq(Tasks) /\ u \in Tasks /\ Distinct(q)
      /\ Range(g.parked) = Range(q) \cup {u} /\ u \notin Range(q)
  <2>1. g.parked \in Seq(Tasks) /\ g.parked # <<>> /\ Distinct(g.parked) /\ u = Head(g.parked)
    BY <1>1, <1>3 DEF Gate, IInv, QueuesSound
  <2> QED
    BY <1>4, <2>1, QueueTail
<1>6. PICK n : n = g.rendering - 1
  OBVIOUS
<1>7. n = 0 /\ n \in Nat
  BY <1>1, <1>3, <1>6
<1>16. PICK h : h = [g EXCEPT !.rendering = n, !.parked = q]
  OBVIOUS
<1>8. h \in Gate /\ h.active = g.active /\ h.rendering = n /\ h.parked = q
  <2>1. PICK S : S = Seq(Tasks)
    OBVIOUS
  <2>2. q \in S /\ g \in [active : BOOLEAN, rendering : Nat, parked : S]
    BY <1>5, <2>1 DEF Gate
  <2>3. /\ h \in [active : BOOLEAN, rendering : Nat, parked : S]
        /\ h.active = g.active /\ h.rendering = n /\ h.parked = q
    BY <1>7, <1>16, <2>2
  <2> QED
    BY <2>1, <2>3 DEF Gate
<1>9. d_serial' = [d_serial EXCEPT ![c] = h]
  <2>1. d_serial' = [d_serial EXCEPT ![c] = [d_serial[c] EXCEPT !.rendering = n, !.parked = q]]
    BY <1>3, <1>4, <1>6 DEF PassesGate
  <2> QED
    BY <1>3, <1>16, <2>1
<1>10. /\ d_serial' \in [Contents -> Gate]
       /\ d_serial'[c] = h /\ \A d \in Contents : d # c => d_serial'[d] = d_serial[d]
  BY <1>1, <1>2, <1>8, <1>9
<1>11. Parked(c)' = Range(q) /\ Parked(c) = Range(q) \cup {u}
  BY <1>3, <1>5, <1>8, <1>10 DEF Parked
<1>12. \A d \in Contents : d # c => Parked(d)' = Parked(d)
  BY <1>10 DEF Parked
<1>13. content(u) = c /\ u \notin Range(d_ready)
  BY <1>1, <1>11 DEF IInv, QueuesSound
<1>14. u \notin Range(d_work_ready) /\ \A d \in Contents : d # c => u \notin Parked(d)
  BY <1>1, <1>13 DEF IInv, QueuesSound
<1>15. u \in AllQueued
  BY <1>1, <1>11 DEF AllQueued, Queued, Parked
<1> QED
  BY <1>1, <1>3, <1>5, <1>7, <1>8, <1>10, <1>11, <1>12, <1>13, <1>14, <1>15 DEF GatePassed

\* With workers the heir is queued for them.
LEMMA GateQueues ==
  ASSUME IInv, NEW e \in Executors, executor[e].pc = "gate", NEW c, c = content(executor[e].task),
         d_serial[c].parked # <<>>, NEW u, u = Head(d_serial[c].parked), PassesGate(c),
         ~inline, d_ready' = Append(d_ready, u),
         NotifyOne([executor EXCEPT ![e] = [pc |-> "check", task |-> NoTask]]),
         UNCHANGED <<inline, task, d_work_ready, d_outstanding, d_stop, counters, driver>>
  PROVE  IInv'
<1>1. /\ c \in NotThreadSafe /\ c \in Contents /\ c # Job
      /\ Gated(e, c) /\ \A f \in Executors : Gated(f, c) => f = e
      /\ \A s \in Range(d_ready) : content(s) # c
      /\ d_serial[c].active /\ d_serial[c].rendering = 1
      /\ \A d \in NotThreadSafe : d # c => ~Gated(e, d)
  BY AtGate
<1>2. /\ d_serial' \in [Contents -> Gate]
      /\ \A d \in Contents : d # c => d_serial'[d] = d_serial[d] /\ Parked(d)' = Parked(d)
      /\ d_serial'[c].active /\ d_serial'[c].rendering = 0
      /\ Distinct(d_serial'[c].parked)
      /\ Parked(c) = Parked(c)' \cup {u} /\ u \notin Parked(c)'
      /\ u \in Tasks /\ content(u) = c /\ u \in AllQueued
      /\ u \notin Range(d_ready) /\ u \notin Range(d_work_ready)
      /\ \A d \in Contents : d # c => u \notin Parked(d)
  <2>1. UNCHANGED task
    OBVIOUS
  <2>2. GatePassed(c, u)
    BY <2>1, GateHanded, Zenon
  <2> QED
    BY <2>2 DEF GatePassed
<1>3. Executors' = Executors /\ Tasks' = Tasks
  BY DEF Executors, Tasks
<1>4. /\ executor' \in [Executors -> Executor]
      /\ executor'[e].pc = "check"
      /\ \A f \in Executors : f # e =>
           executor'[f] = executor[f] \/ (executor[f].pc = "asleep" /\ executor'[f].pc = "check")
  <2>1. executor \in [Executors -> Executor]
    BY DEF IInv, TypeOK, Executor
  <2>2. PICK ex : ex = [executor EXCEPT ![e] = [pc |-> "check", task |-> NoTask]]
    OBVIOUS
  <2>3. /\ ex \in [Executors -> Executor] /\ ex[e].pc = "check"
        /\ \A f \in Executors : f # e => ex[f] = executor[f]
    <3>1. [pc |-> "check", task |-> NoTask] \in Executor
      BY MaxTasksAssumption DEF Executor, TaskId, NoTask
    <3> QED
      BY <2>1, <2>2, <3>1
  <2>4. NotifyOne(ex)
    BY <2>2
  <2>5. /\ executor' \in [Executors -> Executor]
        /\ \A f \in Executors :
             executor'[f] = ex[f] \/ (ex[f].pc = "asleep" /\ executor'[f].pc = "check")
    BY <2>3, <2>4, NotifiedOne
  <2> QED
    BY <2>3, <2>5
<1>5. /\ d_ready' \in Seq(Tasks) /\ Range(d_ready') = Range(d_ready) \cup {u} /\ Distinct(d_ready')
  <2>1. d_ready \in Seq(Tasks) /\ u \in Tasks /\ Distinct(d_ready) /\ u \notin Range(d_ready)
    BY <1>2 DEF IInv, TypeOK, QueuesSound
  <2> QED
    BY <2>1, QueueAppend
<1>6. AllQueued' = AllQueued
  <2>1. \A s : (\E d \in Contents : s \in Parked(d)) <=> s = u \/ \E d \in Contents : s \in Parked(d)'
    BY <1>1, <1>2
  <2>2. \A s : s \in AllQueued <=>
          s \in Range(d_ready) \/ s \in Range(d_work_ready) \/ \E d \in Contents : s \in Parked(d)
    BY DEF AllQueued, Queued, Parked
  <2>3. \A s : s \in AllQueued' <=>
          s \in Range(d_ready') \/ s \in Range(d_work_ready') \/ \E d \in Contents : s \in Parked(d)'
    BY DEF AllQueued, Queued, Parked
  <2>4. \A s : s \in AllQueued' <=> s \in AllQueued
    BY <1>5, <2>1, <2>2, <2>3
  <2> QED
    BY <2>4
<1>7. \A f \in Executors : executor'[f].pc \in Busy \/ (executor[f].pc \in Busy /\ f # e)
                           => executor'[f] = executor[f] /\ f # e
  BY <1>4 DEF Busy, Holding
<1>8. Out' = Out
  <2>1. \A s \in Tasks : (\E f \in Executors : Executing(f, s))' <=> \E f \in Executors : Executing(f, s)
    BY <1>3, <1>7 DEF Executing, Holding, Busy
  <2> QED
    BY <1>3, <1>6, <2>1 DEF Out, Outstanding, Admitted
<1>9. ClaimsSound' /\ LedgerSound' /\ ReturnsSettled'
  <2>1. \A f \in Executors : {executor[f].pc, executor'[f].pc} \cap {"returned", "observed"} # {} =>
          executor'[f] = executor[f]
    BY <1>4
  <2> QED
    BY <1>8, <2>1, OutKept
<1>10. QueuesSound'
  <2>1. \A s \in Range(d_ready') : content(s) # Job
    BY <1>1, <1>2, <1>5 DEF IInv, QueuesSound
  <2>2. ASSUME NEW d \in Contents
        PROVE  /\ Distinct(d_serial'[d].parked)
               /\ \A s \in Parked(d)' : content(s) = d /\ serialize(s) /\ s \notin Range(d_ready')
    <3>1. /\ Distinct(d_serial[d].parked)
          /\ \A s \in Parked(d) : content(s) = d /\ serialize(s) /\ s \notin Range(d_ready)
      BY DEF IInv, QueuesSound
    <3>2. \A s : s \in Range(d_ready') <=> s \in Range(d_ready) \/ s = u
      BY <1>5
    <3>3. \A s \in Parked(d)' : s # u /\ s \in Parked(d)
      BY <1>2
    <3>4. Distinct(d_serial'[d].parked)
      BY <1>2, <3>1
    <3> QED
      BY <3>1, <3>2, <3>3, <3>4
  <2> QED
    BY <1>5, <2>1, <2>2 DEF IInv, QueuesSound, content, serialize
<1>11. HandsSound'
  <2>1. ASSUME NEW f \in Executors
        PROVE  /\ executor'[f].pc \in Busy => executor'[f].task \in Tasks'
               /\ executor'[f].pc \in Holding => executor'[f].task \notin AllQueued'
               /\ executor'[f].pc = "gate" => serialize(executor[f].task)'
    <3>1. executor'[f].pc = "gate" => serialize(executor'[f].task)
      BY <1>7 DEF IInv, HandsSound, Busy
    <3> QED
      BY <1>3, <1>6, <1>7, <3>1 DEF IInv, HandsSound, serialize, content, Busy
  <2>2. \A f, g \in Executors : executor'[f].pc \in Holding /\ executor'[g].pc \in Holding
          /\ executor'[f].task = executor'[g].task => f = g
    BY <1>7 DEF IInv, HandsSound, Busy
  <2>3. ASSUME NEW p \in Owners, driver'[p].pc = "admitted"
        PROVE  /\ driver'[p].task \in Tasks' /\ owner(driver[p].task)' = p
               /\ driver'[p].task \notin AllQueued'
               /\ \A f \in Executors : executor'[f].pc \in Holding => executor'[f].task # driver'[p].task
    BY <1>3, <1>6, <1>7, <2>3 DEF IInv, HandsSound, owner, Busy
  <2> QED
    BY <1>3, <2>1, <2>2, <2>3 DEF HandsSound
<1>12. \A f \in Executors : \A d \in NotThreadSafe : Gated(f, d)' <=> f # e /\ Gated(f, d)
  BY <1>7 DEF Gated, content, Busy
<1>13. HoldersSound'
  <2>1. ASSUME NEW d \in NotThreadSafe
        PROVE  /\ \A s, v \in Range(d_ready') : content(s) = d /\ content(v) = d => s = v
               /\ \A f, g \in Executors : Gated(f, d)' /\ Gated(g, d)' => f = g
               /\ \A s \in Range(d_ready'), f \in Executors : content(s) = d => ~Gated(f, d)'
               /\ Holder(d)' \/ Parked(d)' # {} => d_serial'[d].active
               /\ d_serial'[d].active /\ ~d_stop => Holder(d)'
    <3>1. CASE d = c
      <4>1. Holder(d)'
        BY <1>2, <1>5, <3>1 DEF Holder, content
      <4>2. \A f \in Executors : ~Gated(f, d)'
        BY <1>1, <1>12, <3>1
      <4>3. \A s \in Range(d_ready') : content(s) = d => s = u
        BY <1>1, <1>5, <3>1
      <4> QED
        BY <1>2, <3>1, <4>1, <4>2, <4>3
    <3>2. CASE d # c
      <4>1. \A f \in Executors : Gated(f, d)' <=> Gated(f, d)
        BY <1>1, <1>12, <3>2
      <4>2. Holder(d)' <=> Holder(d)
        BY <1>2, <1>3, <1>5, <3>2, <4>1 DEF Holder, content
      <4>3. \A s \in Range(d_ready') : content(s) = d => s \in Range(d_ready)
        BY <1>2, <1>5, <3>2
      <4>4. d \in Contents /\ d_serial'[d].active = d_serial[d].active /\ Parked(d)' = Parked(d)
        BY ContentsAssumption, <1>2, <3>2
      <4> QED
        BY <4>1, <4>2, <4>3, <4>4 DEF IInv, HoldersSound
    <3> QED
      BY <3>1, <3>2
  <2>2. \A s : content(s)' = content(s)
    BY DEF content
  <2>3. ASSUME NEW d \in NotThreadSafe
        PROVE  /\ \A s, v \in Range(d_ready)' : content(s)' = d /\ content(v)' = d => s = v
               /\ \A f, g \in Executors' : Gated(f, d)' /\ Gated(g, d)' => f = g
               /\ \A s \in Range(d_ready)', f \in Executors' : content(s)' = d => ~Gated(f, d)'
               /\ Holder(d)' \/ Parked(d)' # {} => d_serial'[d].active
               /\ d_serial'[d].active /\ ~d_stop' => Holder(d)'
    BY <1>3, <2>1, <2>2
  <2> QED
    BY <2>3 DEF HoldersSound
<1>14. RendersCounted'
  <2>1. SUFFICES ASSUME NEW d \in NotThreadSafe
        PROVE  d_serial'[d].rendering =
                 IF \E f \in Executors : executor'[f].pc \in Started
                                        /\ content(executor[f].task)' = d
                 THEN 1 ELSE 0
    BY <1>3 DEF RendersCounted
  <2>2. \A f \in Executors : content(executor[f].task)' = content(executor'[f].task)
    BY DEF content
  <2>3. CASE d = c
    <3>1. ~ \E f \in Executors : executor'[f].pc \in Started /\ content(executor'[f].task) = d
      BY <1>1, <1>7, <2>3 DEF Gated, Started, Holding, Busy
    <3> QED
      BY <1>2, <2>2, <2>3, <3>1
  <2>4. CASE d # c
    <3>1. \A f \in Executors : (executor'[f].pc \in Started /\ content(executor'[f].task) = d)
                               <=> (executor[f].pc \in Started /\ content(executor[f].task) = d)
      BY <1>7, <2>4 DEF Started, Holding, Busy
    <3>2. d_serial'[d].rendering = d_serial[d].rendering
      BY ContentsAssumption, <1>2, <2>4
    <3> QED
      BY <2>2, <3>1, <3>2 DEF IInv, RendersCounted
  <2> QED
    BY <2>3, <2>4
<1>15. WakesSound'
  BY DEF IInv, WakesSound
<1>16. TypeOK'
  BY <1>2, <1>3, <1>4, <1>5 DEF IInv, TypeOK, Executor, Gate, counters
<1> QED
  BY <1>9, <1>10, <1>11, <1>13, <1>14, <1>15, <1>16 DEF IInv

\* Inline, the thread that passes the gate on renders the heir itself.
LEMMA GateRuns ==
  ASSUME IInv, NEW e \in Executors, executor[e].pc = "gate", NEW c, c = content(executor[e].task),
         d_serial[c].parked # <<>>, NEW u, u = Head(d_serial[c].parked), PassesGate(c),
         inline, Takes(e, u),
         UNCHANGED <<inline, task, d_ready, d_work_ready, d_outstanding, d_stop, counters, driver>>
  PROVE  IInv'
<1>1. /\ c \in NotThreadSafe /\ c \in Contents /\ c # Job
      /\ Gated(e, c) /\ \A f \in Executors : Gated(f, c) => f = e
      /\ \A s \in Range(d_ready) : content(s) # c
      /\ d_serial[c].active /\ d_serial[c].rendering = 1
      /\ \A d \in NotThreadSafe : d # c => ~Gated(e, d)
  BY AtGate
<1>2. /\ d_serial' \in [Contents -> Gate]
      /\ \A d \in Contents : d # c => d_serial'[d] = d_serial[d] /\ Parked(d)' = Parked(d)
      /\ d_serial'[c].active /\ d_serial'[c].rendering = 0
      /\ Distinct(d_serial'[c].parked)
      /\ Parked(c) = Parked(c)' \cup {u} /\ u \notin Parked(c)'
      /\ u \in Tasks /\ content(u) = c /\ u \in AllQueued
      /\ u \notin Range(d_ready) /\ u \notin Range(d_work_ready)
      /\ \A d \in Contents : d # c => u \notin Parked(d)
  <2>1. UNCHANGED task
    OBVIOUS
  <2>2. GatePassed(c, u)
    BY <2>1, GateHanded, Zenon
  <2> QED
    BY <2>2 DEF GatePassed
<1>3. Executors' = Executors /\ Tasks' = Tasks
  BY DEF Executors, Tasks
<1>4. /\ executor' \in [Executors -> Executor]
      /\ executor'[e].pc = "popped" /\ executor'[e].task = u
      /\ \A f \in Executors : f # e => executor'[f] = executor[f]
  <2>1. executor \in [Executors -> Executor]
    BY DEF IInv, TypeOK, Executor
  <2>2. u \in TaskId
    BY <1>2, TasksTyped, MaxTasksAssumption DEF IInv, TaskId, Tasks
  <2> QED
    BY <2>1, <2>2 DEF Executor, Takes
<1>5. \A s : s \in AllQueued' <=> s \in AllQueued /\ s # u
  <2>1. \A s : (\E d \in Contents : s \in Parked(d)) <=> s = u \/ \E d \in Contents : s \in Parked(d)'
    BY <1>1, <1>2
  <2>2. \A d \in Contents : u \notin Parked(d)'
    BY <1>2
  <2>3. \A s : s \in AllQueued <=>
          s \in Range(d_ready) \/ s \in Range(d_work_ready) \/ \E d \in Contents : s \in Parked(d)
    BY DEF AllQueued, Queued, Parked
  <2>4. \A s : s \in AllQueued' <=>
          s \in Range(d_ready) \/ s \in Range(d_work_ready) \/ \E d \in Contents : s \in Parked(d)'
    BY DEF AllQueued, Queued, Parked
  <2> QED
    BY <1>2, <2>1, <2>2, <2>3, <2>4
<1>6. Out' = Out
  <2>1. \A s \in Tasks : (\E f \in Executors : Executing(f, s))'
                         <=> s = u \/ \E f \in Executors : Executing(f, s)
    BY <1>3, <1>4 DEF Executing, Holding
  <2>2. \A s \in Tasks : Outstanding(s)' <=> Outstanding(s)
    BY <1>2, <1>5, <2>1 DEF Outstanding, Admitted
  <2> QED
    BY <1>3, <2>2 DEF Out
<1>7. ClaimsSound' /\ LedgerSound' /\ ReturnsSettled'
  <2>1. \A f \in Executors : {executor[f].pc, executor'[f].pc} \cap {"returned", "observed"} # {} =>
          executor'[f] = executor[f]
    BY <1>4
  <2> QED
    BY <1>6, <2>1, OutKept
<1>8. QueuesSound'
  <2>1. ASSUME NEW d \in Contents
        PROVE  /\ Distinct(d_serial'[d].parked)
               /\ \A s \in Parked(d)' : content(s) = d /\ serialize(s) /\ s \notin Range(d_ready)
    <3>1. /\ Distinct(d_serial[d].parked)
          /\ \A s \in Parked(d) : content(s) = d /\ serialize(s) /\ s \notin Range(d_ready)
      BY DEF IInv, QueuesSound
    <3>2. \A s \in Parked(d)' : s \in Parked(d)
      BY <1>2
    <3>3. Distinct(d_serial'[d].parked)
      BY <1>2, <3>1
    <3> QED
      BY <3>1, <3>2, <3>3
  <2> QED
    BY <2>1 DEF IInv, QueuesSound, content, serialize
<1>9. HandsSound'
  <2>1. ASSUME NEW f \in Executors
        PROVE  /\ executor'[f].pc \in Busy => executor'[f].task \in Tasks'
               /\ executor'[f].pc \in Holding => executor'[f].task \notin AllQueued'
               /\ executor'[f].pc = "gate" => serialize(executor[f].task)'
               /\ executor'[f].pc \notin {"check", "asleep", "exited"}
               /\ executor'[f].pc = "idle" \/ driver'[f].pc = "inline"
    <3>1. CASE f = e
      <4>1. driver[e].pc = "inline"
        BY DEF IInv, HandsSound
      <4> QED
        BY <1>2, <1>3, <1>4, <1>5, <3>1, <4>1
    <3>2. CASE f # e
      <4>1. executor'[f].pc = "gate" => serialize(executor'[f].task)
        BY <1>4, <3>2 DEF IInv, HandsSound
      <4>2. executor'[f].pc = "gate" => serialize(executor[f].task)'
        BY <4>1 DEF serialize, content
      <4>3. /\ executor[f].pc \in Busy => executor[f].task \in Tasks
            /\ executor[f].pc \in Holding => executor[f].task \notin AllQueued
            /\ executor[f].pc \notin {"check", "asleep", "exited"}
            /\ executor[f].pc = "idle" \/ driver[f].pc = "inline"
        BY DEF IInv, HandsSound
      <4> QED
        BY <1>3, <1>4, <1>5, <3>2, <4>2, <4>3
    <3> QED
      BY <3>1, <3>2
  <2>2. \A f, g \in Executors : executor'[f].pc \in Holding /\ executor'[g].pc \in Holding
          /\ executor'[f].task = executor'[g].task => f = g
    BY <1>2, <1>4 DEF IInv, HandsSound
  <2>3. ASSUME NEW p \in Owners, driver'[p].pc = "admitted"
        PROVE  /\ driver'[p].task \in Tasks' /\ owner(driver[p].task)' = p
               /\ driver'[p].task \notin AllQueued'
               /\ \A f \in Executors : executor'[f].pc \in Holding => executor'[f].task # driver'[p].task
    BY <1>2, <1>3, <1>4, <1>5, <2>3 DEF IInv, HandsSound, owner
  <2> QED
    BY <1>3, <2>1, <2>2, <2>3 DEF HandsSound
<1>10. \A f \in Executors : \A d \in NotThreadSafe : Gated(f, d)' <=> Gated(f, d)
  <2>1. \A d \in NotThreadSafe : Gated(e, d)' <=> d = c
    <3>1. content(executor[e].task)' = content(u)
      BY <1>4 DEF content
    <3> QED
      BY <1>2, <1>4, <3>1 DEF Gated, Holding
  <2>2. \A f \in Executors : f # e => \A d \in NotThreadSafe : Gated(f, d)' <=> Gated(f, d)
    BY <1>4 DEF Gated, content
  <2> QED
    BY <1>1, <2>1, <2>2
<1>11. HoldersSound'
  <2>1. ASSUME NEW d \in NotThreadSafe
        PROVE  /\ \A s, v \in Range(d_ready)' : content(s)' = d /\ content(v)' = d => s = v
               /\ \A f, g \in Executors' : Gated(f, d)' /\ Gated(g, d)' => f = g
               /\ \A s \in Range(d_ready)', f \in Executors' : content(s)' = d => ~Gated(f, d)'
               /\ Holder(d)' \/ Parked(d)' # {} => d_serial'[d].active
               /\ d_serial'[d].active /\ ~d_stop' => Holder(d)'
    <3>1. \A s : content(s)' = content(s)
      BY DEF content
    <3>2. Holder(d)' <=> Holder(d)
      BY <1>3, <1>10 DEF Holder, content
    <3>3. Parked(d)' # {} => Parked(d) # {}
      BY ContentsAssumption, <1>1, <1>2
    <3>4. d_serial'[d].active = d_serial[d].active \/ d = c
      BY ContentsAssumption, <1>2
    <3>5. d = c => Holder(d) /\ d_serial'[d].active
      BY <1>1, <1>2 DEF Holder
    <3> QED
      BY <1>3, <1>10, <3>1, <3>2, <3>3, <3>4, <3>5 DEF IInv, HoldersSound
  <2> QED
    BY <2>1 DEF HoldersSound
<1>12. RendersCounted'
  <2>1. SUFFICES ASSUME NEW d \in NotThreadSafe
        PROVE  d_serial'[d].rendering =
                 IF \E f \in Executors : executor'[f].pc \in Started
                                        /\ content(executor[f].task)' = d
                 THEN 1 ELSE 0
    BY <1>3 DEF RendersCounted
  <2>2. \A f \in Executors : content(executor[f].task)' = content(executor'[f].task)
    BY DEF content
  <2>3. CASE d = c
    <3>1. ~ \E f \in Executors : executor'[f].pc \in Started /\ content(executor'[f].task) = d
      BY <1>1, <1>4, <2>3 DEF Gated, Started, Holding
    <3> QED
      BY <1>2, <2>2, <2>3, <3>1
  <2>4. CASE d # c
    <3>1. \A f \in Executors : (executor'[f].pc \in Started /\ content(executor'[f].task) = d)
                               <=> (executor[f].pc \in Started /\ content(executor[f].task) = d)
      BY <1>2, <1>4, <2>4 DEF Started
    <3>2. d_serial'[d].rendering = d_serial[d].rendering
      BY ContentsAssumption, <1>2, <2>4
    <3> QED
      BY <2>2, <3>1, <3>2 DEF IInv, RendersCounted
  <2> QED
    BY <2>3, <2>4
<1>13. WakesSound'
  BY DEF IInv, WakesSound
<1>14. TypeOK'
  BY <1>2, <1>3, <1>4 DEF IInv, TypeOK, Executor, Gate, counters
<1> QED
  BY <1>7, <1>8, <1>9, <1>11, <1>12, <1>13, <1>14 DEF IInv

LEMMA HandGateSafe ==
  ASSUME IInv, NEW e \in Executors, hand_gate(e)
  PROVE  IInv'
<1>1. PICK c : c = content(executor[e].task)
  OBVIOUS
<1>2. executor[e].pc = "gate"
  BY DEF hand_gate, At
<1>3. UNCHANGED <<inline, task, d_work_ready, d_outstanding, d_stop, counters>>
  BY DEF hand_gate
<1>4. CASE d_serial[c].parked = <<>>
  <2>1. /\ d_serial' = [d_serial EXCEPT ![c] = OpenGate]
        /\ executor' = [executor EXCEPT ![e] = [pc |-> IF inline THEN "idle" ELSE "check",
                                                task |-> NoTask]]
        /\ driver' = BackFrom(driver, e)
        /\ UNCHANGED d_ready
    BY <1>1, <1>4 DEF hand_gate
  <2> QED
    BY <1>1, <1>2, <1>3, <1>4, <2>1, GateOpens
<1>5. CASE d_serial[c].parked # <<>>
  <2>1. PICK u : u = Head(d_serial[c].parked)
    OBVIOUS
  <2>2. PassesGate(c) /\ UNCHANGED driver
    BY <1>1, <1>5 DEF hand_gate, PassesGate
  <2>3. CASE inline
    <3>1. Takes(e, u) /\ UNCHANGED d_ready
      BY <1>1, <1>5, <2>1, <2>3 DEF hand_gate
    <3> QED
      BY <1>1, <1>2, <1>3, <1>5, <2>1, <2>2, <2>3, <3>1, GateRuns
  <2>4. CASE ~inline
    <3>1. /\ d_ready' = Append(d_ready, u)
          /\ NotifyOne([executor EXCEPT ![e] = [pc |-> "check", task |-> NoTask]])
      BY <1>1, <1>5, <2>1, <2>4 DEF hand_gate
    <3> QED
      BY <1>1, <1>2, <1>3, <1>5, <2>1, <2>2, <2>4, <3>1, GateQueues
  <2> QED
    BY <2>3, <2>4
<1> QED
  BY <1>4, <1>5

(***************************************************************************)
(* The purges, of one owner's queued tasks and of all of them.             *)
(***************************************************************************)
\* The tasks B leave the queues, with one claim of its owner each, and are
\* counted as dropped.  Nobody's hands change.
Purges(B) ==
  /\ B \subseteq AllQueued /\ AllQueued' = AllQueued \ B
  /\ UNCHANGED <<inline, task, d_completed>> /\ d_dropped' = d_dropped + Cardinality(B)
  /\ \A e \in Executors : executor[e].pc \in Busy \/ executor'[e].pc \in Busy
                          => executor'[e] = executor[e]
  /\ inline => UNCHANGED executor
  /\ \A o \in Owners : /\ driver'[o].pc = "admitted" <=> driver[o].pc = "admitted"
                       /\ driver[o].pc = "inline" => driver'[o].pc = "inline"
                       /\ driver'[o].task = driver[o].task
                       /\ driver'[o].pc = "dead" => driver[o].pc = "dead" \/ d_outstanding'[o] = 0
  /\ d_outstanding' = [o \in Owners |-> d_outstanding[o] - Cardinality({t \in B : owner(t) = o})]

LEMMA PartSizes ==
  ASSUME NEW S, IsFiniteSet(S), NEW T, T \subseteq S
  PROVE  /\ IsFiniteSet(T) /\ Cardinality(T) \in Nat /\ Cardinality(S) \in Nat
         /\ Cardinality(T) <= Cardinality(S)
         /\ Cardinality(S \ T) = Cardinality(S) - Cardinality(T)
<1>1. IsFiniteSet(T) /\ Cardinality(T) <= Cardinality(S)
  BY FS_Subset
<1>2. Cardinality(T) \in Nat /\ Cardinality(S) \in Nat
  BY <1>1, FS_CardinalityType
<1>3. Cardinality(S \ T) = Cardinality(S) - Cardinality(S \cap T)
  BY FS_Difference
<1>4. S \cap T = T
  OBVIOUS
<1> QED
  BY <1>1, <1>2, <1>3, <1>4

LEMMA PurgeSafe ==
  ASSUME IInv, NEW B, Purges(B)
  PROVE  /\ Executors' = Executors /\ Tasks' = Tasks
         /\ HandsSound' /\ ClaimsSound' /\ ReturnsSettled' /\ LedgerSound'
         /\ d_outstanding' \in [Owners -> Nat] /\ d_dropped' \in Nat
         /\ \A e \in Executors : \A c \in NotThreadSafe : Gated(e, c)' <=> Gated(e, c)
         /\ \A c \in NotThreadSafe : \A e \in Executors :
              (executor'[e].pc \in Started /\ content(executor[e].task)' = c)
              <=> (executor[e].pc \in Started /\ content(executor[e].task) = c)
<1>1. Executors' = Executors /\ Tasks' = Tasks
  BY DEF Purges, Executors, Tasks
<1>2. \A e \in Executors : executor[e].pc \in Busy \/ executor'[e].pc \in Busy
                           => executor'[e] = executor[e]
  BY DEF Purges
<1>3. \A o \in Owners : /\ driver'[o].pc = "admitted" <=> driver[o].pc = "admitted"
                        /\ driver[o].pc = "inline" => driver'[o].pc = "inline"
                        /\ driver'[o].task = driver[o].task
                        /\ driver'[o].pc = "dead" => driver[o].pc = "dead" \/ d_outstanding'[o] = 0
  BY DEF Purges
<1>4. /\ UNCHANGED <<inline, task, d_completed>>
      /\ d_dropped' = d_dropped + Cardinality(B)
      /\ B \subseteq AllQueued /\ \A s : s \in AllQueued' <=> s \in AllQueued /\ s \notin B
  BY DEF Purges
<1>5. AllQueued \subseteq Tasks
  BY QueuedTyped DEF IInv
<1>6. \A t \in AllQueued : ~Admitted(t) /\ \A e \in Executors : ~Executing(e, t)
  BY DEF IInv, HandsSound, Admitted, Executing
<1>7. \A t \in Tasks : Outstanding(t)' <=> Outstanding(t) /\ t \notin B
  <2>1. \A t \in Tasks : Admitted(t)' <=> Admitted(t)
    BY <1>3 DEF Admitted
  <2>2. \A t \in Tasks : (\E e \in Executors : Executing(e, t))' <=> \E e \in Executors : Executing(e, t)
    BY <1>1, <1>2 DEF Executing, Busy
  <2> QED
    BY <1>4, <1>6, <2>1, <2>2 DEF Outstanding
<1>8. Out' = Out \ B /\ B \subseteq Out
  BY <1>1, <1>4, <1>5, <1>7 DEF Out, Outstanding
<1>9. /\ IsFiniteSet(Out) /\ Cardinality(Out) \in Nat
      /\ IsFiniteSet(LeftToSettler) /\ Cardinality(LeftToSettler) \in Nat
      /\ IsFiniteSet(Observed) /\ Cardinality(Observed) \in Nat
      /\ IsFiniteSet(Counted) /\ Cardinality(Counted) \in Nat
      /\ \A o \in Owners : IsFiniteSet(OutOf(o)) /\ Cardinality(OutOf(o)) \in Nat
  BY OutSizes DEF IInv
<1>10. HandsSound'
  <2>1. ASSUME NEW e \in Executors
        PROVE  /\ executor'[e].pc \in Busy => executor'[e].task \in Tasks'
               /\ executor'[e].pc \in Holding => executor'[e].task \notin AllQueued'
               /\ executor'[e].pc = "gate" => serialize(executor[e].task)'
    <3>1. executor'[e].pc = "gate" => serialize(executor[e].task)'
      <4>1. executor'[e].pc = "gate" => serialize(executor'[e].task)
        BY <1>2 DEF IInv, HandsSound, Busy
      <4> QED
        BY <1>4, <4>1 DEF serialize, content
    <3> QED
      BY <1>1, <1>2, <1>4, <3>1 DEF IInv, HandsSound, Busy
  <2>2. ASSUME NEW e \in Executors, inline'
        PROVE  /\ executor'[e].pc \notin {"check", "asleep", "exited"}
               /\ executor'[e].pc = "idle" \/ driver'[e].pc = "inline"
    <3>1. inline /\ executor' = executor /\ e \in Owners
      BY <1>4, <2>2 DEF Purges, Executors
    <3> QED
      BY <1>3, <3>1 DEF IInv, HandsSound
  <2>3. \A e, f \in Executors : executor'[e].pc \in Holding /\ executor'[f].pc \in Holding
          /\ executor'[e].task = executor'[f].task => e = f
    BY <1>2 DEF IInv, HandsSound, Busy
  <2>4. ASSUME NEW p \in Owners, driver'[p].pc = "admitted"
        PROVE  /\ driver'[p].task \in Tasks' /\ owner(driver[p].task)' = p
               /\ driver'[p].task \notin AllQueued'
               /\ \A e \in Executors : executor'[e].pc \in Holding => executor'[e].task # driver'[p].task
    BY <1>1, <1>2, <1>3, <1>4, <2>4 DEF IInv, HandsSound, owner, Busy
  <2> QED
    BY <1>1, <2>1, <2>2, <2>3, <2>4 DEF HandsSound
<1>11. ClaimsSound' /\ d_outstanding' \in [Owners -> Nat]
  <2>1. ASSUME NEW o \in Owners
        PROVE  /\ d_outstanding'[o] = Cardinality(OutOf(o)')
               /\ d_outstanding'[o] \in Nat
               /\ driver'[o].pc = "dead" => d_outstanding'[o] = 0
    <3>1. PICK mine : mine = {t \in B : owner(t) = o}
      OBVIOUS
    <3>2. OutOf(o)' = OutOf(o) \ mine /\ mine \subseteq OutOf(o)
      BY <1>4, <1>8, <3>1 DEF OutOf, owner
    <3>3. /\ IsFiniteSet(OutOf(o)) /\ Cardinality(OutOf(o)) \in Nat
          /\ d_outstanding[o] = Cardinality(OutOf(o))
          /\ driver[o].pc = "dead" => d_outstanding[o] = 0
      BY <1>9 DEF IInv, ClaimsSound
    <3>4. /\ Cardinality(mine) \in Nat /\ Cardinality(mine) <= Cardinality(OutOf(o))
          /\ Cardinality(OutOf(o) \ mine) = Cardinality(OutOf(o)) - Cardinality(mine)
      <4>1. mine \subseteq OutOf(o) /\ IsFiniteSet(OutOf(o))
        BY <3>2, <3>3
      <4> QED
        BY <4>1, PartSizes
    <3>6. d_outstanding'[o] = d_outstanding[o] - Cardinality(mine)
      BY <3>1 DEF Purges
    <3> QED
      BY <1>3, <3>2, <3>3, <3>4, <3>6
  <2> QED
    BY <2>1 DEF ClaimsSound, Purges
<1>12. ReturnsSettled'
  <2>1. \A e \in Executors : executor'[e].pc \in {"returned", "observed"} => executor'[e] = executor[e]
    BY <1>2 DEF Busy, Holding
  <2> QED
    BY <1>1, <1>4, <2>1 DEF IInv, ReturnsSettled, settled
<1>13. /\ IsFiniteSet(B) /\ Cardinality(B) \in Nat /\ Cardinality(B) <= Cardinality(Out)
       /\ Cardinality(Out \ B) = Cardinality(Out) - Cardinality(B)
  <2>1. B \subseteq Out /\ IsFiniteSet(Out)
    BY <1>8, <1>9
  <2> QED
    BY <2>1, PartSizes
<1>14. d_completed \in Nat /\ d_dropped \in Nat /\ Len(task) \in Nat
  BY TasksTyped DEF IInv, TypeOK
<1>15. LedgerSound'
  <2>1. Observed' = Observed
    BY <1>1, <1>2 DEF Observed, Busy, Holding
  <2>2. Counted' = Counted
    BY <1>2, <1>4, <2>1 DEF Counted, Observed, Busy, Holding
  <2>3. LeftToSettler \subseteq LeftToSettler' /\ LeftToSettler' \in SUBSET Tasks
    BY <1>1, <1>4, <1>7 DEF LeftToSettler
  <2>4. IsFiniteSet(LeftToSettler') /\ Cardinality(LeftToSettler') \in Nat
    BY <1>14, <2>3, TasksFinite
  <2>5. Cardinality(LeftToSettler) <= Cardinality(LeftToSettler')
    BY <2>3, <2>4, FS_Subset
  <2>6. /\ d_completed + d_dropped + Cardinality(Out) <= Len(task) + Cardinality(Observed)
        /\ Len(task) + Cardinality(Counted)
             <= d_completed + d_dropped + Cardinality(Out) + Cardinality(LeftToSettler)
    BY DEF IInv, LedgerSound
  <2>7. d_completed' + d_dropped' + Cardinality(Out') = d_completed + d_dropped + Cardinality(Out)
    BY <1>4, <1>8, <1>9, <1>13, <1>14
  <2>8. d_completed' + d_dropped' + Cardinality(Out') <= Len(task) + Cardinality(Observed)
    BY <2>6, <2>7
  <2>9. Len(task) + Cardinality(Counted)
          <= d_completed' + d_dropped' + Cardinality(Out') + Cardinality(LeftToSettler')
    BY <1>9, <1>14, <2>4, <2>5, <2>6, <2>7
  <2> QED
    BY <1>4, <2>1, <2>2, <2>8, <2>9 DEF LedgerSound
<1>16. d_dropped' \in Nat
  BY <1>4, <1>13, <1>14
<1>17. \A e \in Executors : \A c \in NotThreadSafe : Gated(e, c)' <=> Gated(e, c)
  BY <1>2, <1>4 DEF Gated, content, Busy
<1>18. \A c \in NotThreadSafe : \A e \in Executors :
         (executor'[e].pc \in Started /\ content(executor[e].task)' = c)
         <=> (executor[e].pc \in Started /\ content(executor[e].task) = c)
  BY <1>2, <1>4 DEF Started, content, Busy, Holding
<1> QED
  BY <1>1, <1>10, <1>11, <1>12, <1>15, <1>16, <1>17, <1>18

LEMMA PurgedTasks ==
  ASSUME TypeOK, NEW o
  PROVE  Purged(o) = {t \in AllQueued : owner(t) = o}
BY QueuedTyped DEF Purged, Survivors

\* The gate g with the tasks q parked.
Requeued(h, g, q) == h = [g EXCEPT !.parked = q]

LEMMA GateQueue ==
  ASSUME NEW g \in Gate, NEW q \in Seq(Tasks), NEW h, Requeued(h, g, q)
  PROVE  /\ h \in Gate /\ h.parked = q
         /\ h.active = g.active /\ h.rendering = g.rendering
<1>1. PICK S : S = Seq(Tasks)
  OBVIOUS
<1>2. q \in S /\ g \in [active : BOOLEAN, rendering : Nat, parked : S]
  BY <1>1 DEF Gate
<1>3. /\ h \in [active : BOOLEAN, rendering : Nat, parked : S] /\ h.parked = q
      /\ h.active = g.active /\ h.rendering = g.rendering
  BY <1>2 DEF Requeued
<1> QED
  BY <1>1, <1>3 DEF Gate

LEMMA AbandonSafe ==
  ASSUME IInv, NEW w \in Executors, abandon_queued(w)
  PROVE  IInv'
<1>1. /\ executor[w].pc = "check" /\ d_stop
      /\ d_ready' = <<>> /\ d_work_ready' = <<>>
      /\ d_serial' = [c \in Contents |-> [d_serial[c] EXCEPT !.parked = <<>>]]
      /\ d_dropped' = d_dropped + Cardinality(AllQueued)
      /\ d_outstanding' = [o \in Owners |-> d_outstanding[o] - Cardinality(Purged(o))]
      /\ executor' = [executor EXCEPT ![w].pc = "exited"]
      /\ driver' = Woken(driver, "draining", "recheck")
      /\ UNCHANGED <<inline, task, d_stop, d_completed>>
  BY DEF abandon_queued, At, Goes
<1>2. ~inline
  BY <1>1 DEF IInv, HandsSound
<1>3. <<>> \in Seq(Tasks) /\ Range(<<>>) = {}
  BY QueueEmpty
<1>4. d_serial \in [Contents -> Gate]
  BY GatesTyped DEF IInv
<1>5. /\ d_serial' \in [Contents -> Gate]
      /\ \A c \in Contents : /\ d_serial'[c].parked = <<>>
                             /\ d_serial'[c].active = d_serial[c].active
                             /\ d_serial'[c].rendering = d_serial[c].rendering
  <2>1. ASSUME NEW c \in Contents
        PROVE  /\ d_serial'[c] \in Gate /\ d_serial'[c].parked = <<>>
               /\ d_serial'[c].active = d_serial[c].active
               /\ d_serial'[c].rendering = d_serial[c].rendering
    <3>1. PICK g \in Gate : g = d_serial[c]
      BY <1>4
    <3>2. PICK h : h = d_serial'[c]
      OBVIOUS
    <3>3. Requeued(h, g, <<>>)
      BY <1>1, <3>1, <3>2 DEF Requeued
    <3>4. <<>> \in Seq(Tasks)
      BY <1>3
    <3> QED
      BY <3>1, <3>2, <3>3, <3>4, GateQueue
  <2> QED
    BY <1>1, <2>1
<1>6. Distinct(<<>>) /\ \A c \in Contents : Parked(c)' = {}
  BY <1>3, <1>5 DEF Parked, Distinct
<1>7. AllQueued' = {}
  BY <1>1, <1>3, <1>6 DEF AllQueued, Queued, Parked
<1>8. /\ executor' \in [Executors -> Executor]
      /\ executor'[w].pc = "exited"
      /\ \A e \in Executors : e # w => executor'[e] = executor[e]
  <2>1. executor \in [Executors -> Executor]
    BY DEF IInv, TypeOK, Executor
  <2> QED
    BY <1>1, <2>1 DEF Executor
<1>9. /\ driver' \in [Owners -> Driver]
      /\ \A o \in Owners :
           /\ \/ driver'[o].pc = driver[o].pc
              \/ driver[o].pc = "draining" /\ driver'[o].pc = "recheck"
           /\ driver'[o].task = driver[o].task
           /\ driver'[o].behind = driver[o].behind /\ driver'[o].missed = driver[o].missed
  <2>1. driver \in [Owners -> Driver]
    BY DEF IInv, TypeOK, Driver
  <2> QED
    BY <1>1, <2>1 DEF Woken, Driver
<1>10. Purges(AllQueued)
  <2>1. d_outstanding' = [o \in Owners |-> d_outstanding[o]
                                           - Cardinality({t \in AllQueued : owner(t) = o})]
    BY <1>1, PurgedTasks DEF IInv
  <2>2. AllQueued' = AllQueued \ AllQueued
    BY <1>7
  <2>3. \A e \in Executors : executor[e].pc \in Busy \/ executor'[e].pc \in Busy
                             => executor'[e] = executor[e]
    BY <1>1, <1>8 DEF Busy, Holding
  <2>4. \A o \in Owners : /\ driver'[o].pc = "admitted" <=> driver[o].pc = "admitted"
                          /\ driver[o].pc = "inline" => driver'[o].pc = "inline"
                          /\ driver'[o].task = driver[o].task
                          /\ driver'[o].pc = "dead" => driver[o].pc = "dead"
    BY <1>9
  <2> QED
    BY <1>1, <1>2, <2>1, <2>2, <2>3, <2>4 DEF Purges
<1>11. /\ Executors' = Executors /\ Tasks' = Tasks
       /\ HandsSound' /\ ClaimsSound' /\ ReturnsSettled' /\ LedgerSound'
       /\ d_outstanding' \in [Owners -> Nat] /\ d_dropped' \in Nat
       /\ \A e \in Executors : \A c \in NotThreadSafe : Gated(e, c)' <=> Gated(e, c)
       /\ \A c \in NotThreadSafe : \A e \in Executors :
            (executor'[e].pc \in Started /\ content(executor[e].task)' = c)
            <=> (executor[e].pc \in Started /\ content(executor[e].task) = c)
  BY <1>10, PurgeSafe
<1>12. QueuesSound'
  BY <1>1, <1>3, <1>5, <1>6 DEF QueuesSound
<1>13. HoldersSound'
  <2>1. ASSUME NEW c \in NotThreadSafe
        PROVE  /\ Range(d_ready)' = {} /\ Parked(c)' = {} /\ d_stop'
               /\ \A e, f \in Executors' : Gated(e, c)' /\ Gated(f, c)' => e = f
               /\ Holder(c)' => d_serial'[c].active
    <3>1. c \in Contents
      BY ContentsAssumption
    <3>2. Range(d_ready)' = {} /\ d_stop'
      BY <1>1, <1>3
    <3>3. Holder(c)' => \E e \in Executors : Gated(e, c)
      BY <1>11, <3>2 DEF Holder
    <3>4. Holder(c)' => d_serial[c].active
      BY <3>3 DEF Holder, IInv, HoldersSound
    <3> QED
      BY <1>5, <1>6, <1>11, <3>1, <3>2, <3>4 DEF IInv, HoldersSound
  <2> QED
    BY <2>1 DEF HoldersSound
<1>14. RendersCounted'
  BY ContentsAssumption, <1>5, <1>11 DEF IInv, RendersCounted
<1>15. WakesSound'
  BY <1>1, <1>9 DEF IInv, WakesSound
<1>16. TypeOK'
  BY <1>1, <1>3, <1>5, <1>8, <1>9, <1>11 DEF IInv, TypeOK, Executor, Driver, Gate
<1> QED
  BY <1>1, <1>11, <1>12, <1>13, <1>14, <1>15, <1>16 DEF IInv

(***************************************************************************)
(* The drain: which gates lose their holder, and which task inherits them. *)
(***************************************************************************)
\* The gate of c is held by a queued task of o.
OrphanOf(o, c) ==
  \E t \in Range(d_ready) : t \notin Survivors(o) /\ serialize(t) /\ content(t) = c
Heir(o, c) == Head(KeptParked(o, c))
Inherited(o) == {c \in Contents : OrphanOf(o, c) /\ KeptParked(o, c) # <<>>}

LEMMA KeptQueue ==
  ASSUME NEW q \in Seq(Tasks), NEW S
  PROVE  /\ Filter(q, S) \in Seq(Tasks)
         /\ \A x : x \in Range(Filter(q, S)) <=> x \in Range(q) /\ x \in S
         /\ Distinct(q) => Distinct(Filter(q, S))
<1>1. PICK T : T = Tasks
  OBVIOUS
<1>2. PICK r : r = Filter(q, S)
  OBVIOUS
<1>3. q \in Seq(T)
  BY <1>1
<1>4. /\ r \in Seq(T \cap S)
      /\ \A x : x \in Range(r) <=> x \in Range(q) /\ x \in S
      /\ Distinct(q) => Distinct(r)
  BY <1>2, <1>3, FilterKeeps
<1>5. r \in Seq(T)
  BY <1>4, LenProperties
<1> QED
  BY <1>1, <1>2, <1>4, <1>5

\* The queues of the drain, before the gates pass on.
LEMMA KeptSound ==
  ASSUME IInv, NEW o
  PROVE  /\ Kept(o, d_ready) \in Seq(Tasks) /\ Distinct(Kept(o, d_ready))
         /\ \A t : t \in Range(Kept(o, d_ready)) <=> t \in Range(d_ready) /\ t \in Survivors(o)
         /\ Kept(o, d_work_ready) \in Seq(Tasks) /\ Distinct(Kept(o, d_work_ready))
         /\ \A t : t \in Range(Kept(o, d_work_ready)) <=> t \in Range(d_work_ready) /\ t \in Survivors(o)
         /\ HandedOn(o) \in Seq(Tasks) /\ Distinct(HandedOn(o))
         /\ \A t : t \in Range(Orphaned(o)) <=>
              t \in Range(d_ready) /\ t \notin Survivors(o) /\ serialize(t)
         /\ \A t : t \in Range(HandedOn(o)) <=>
              /\ t \in Range(d_ready) /\ t \notin Survivors(o) /\ serialize(t)
              /\ KeptParked(o, content(t)) # <<>>
<1>1. /\ d_ready \in Seq(Tasks) /\ d_work_ready \in Seq(Tasks)
      /\ Distinct(d_ready) /\ Distinct(d_work_ready)
  BY DEF IInv, TypeOK, QueuesSound
<1>2. Range(d_ready) \subseteq Tasks
  BY QueuedTyped DEF IInv
<1>3. /\ Kept(o, d_ready) \in Seq(Tasks) /\ Distinct(Kept(o, d_ready))
      /\ \A t : t \in Range(Kept(o, d_ready)) <=> t \in Range(d_ready) /\ t \in Survivors(o)
  BY <1>1, KeptQueue DEF Kept
<1>4. /\ Kept(o, d_work_ready) \in Seq(Tasks) /\ Distinct(Kept(o, d_work_ready))
      /\ \A t : t \in Range(Kept(o, d_work_ready)) <=> t \in Range(d_work_ready) /\ t \in Survivors(o)
  BY <1>1, KeptQueue DEF Kept
<1>5. /\ Orphaned(o) \in Seq(Tasks) /\ Distinct(Orphaned(o))
      /\ \A t : t \in Range(Orphaned(o)) <=>
           t \in Range(d_ready) /\ t \notin Survivors(o) /\ serialize(t)
  <2>1. PICK S : S = {t \in Tasks \ Survivors(o) : serialize(t)}
    BY Zenon
  <2>2. Orphaned(o) = Filter(d_ready, S)
    BY <2>1 DEF Orphaned
  <2>3. /\ Orphaned(o) \in Seq(Tasks) /\ Distinct(Orphaned(o))
        /\ \A t : t \in Range(Orphaned(o)) <=> t \in Range(d_ready) /\ t \in S
    BY <1>1, <2>2, KeptQueue
  <2> QED
    BY <1>2, <2>1, <2>3
<1>6. /\ HandedOn(o) \in Seq(Tasks) /\ Distinct(HandedOn(o))
      /\ \A t : t \in Range(HandedOn(o)) <=>
           t \in Range(Orphaned(o)) /\ serialize(t) /\ KeptParked(o, content(t)) # <<>>
  <2>1. PICK S : S = {t \in Tasks : serialize(t) /\ KeptParked(o, content(t)) # <<>>}
    BY Zenon
  <2>2. HandedOn(o) = Filter(Orphaned(o), S)
    BY <2>1 DEF HandedOn
  <2>3. /\ HandedOn(o) \in Seq(Tasks) /\ Distinct(HandedOn(o))
        /\ \A t : t \in Range(HandedOn(o)) <=> t \in Range(Orphaned(o)) /\ t \in S
    BY <1>5, <2>2, KeptQueue
  <2>4. \A t : t \in Range(Orphaned(o)) => t \in Tasks
    BY <1>2, <1>5
  <2> QED
    BY <2>1, <2>3, <2>4
<1> QED
  BY <1>3, <1>4, <1>5, <1>6

LEMMA KeptParkedSound ==
  ASSUME IInv, NEW o, NEW c \in Contents
  PROVE  /\ KeptParked(o, c) \in Seq(Tasks) /\ Distinct(KeptParked(o, c))
         /\ \A t : t \in Range(KeptParked(o, c)) <=> t \in Parked(c) /\ t \in Survivors(o)
         /\ KeptParked(o, c) # <<>> =>
              /\ Heir(o, c) \in Tasks /\ Heir(o, c) \in Parked(c) /\ Heir(o, c) \in Survivors(o)
              /\ Tail(KeptParked(o, c)) \in Seq(Tasks) /\ Distinct(Tail(KeptParked(o, c)))
              /\ \A t : t \in Range(Tail(KeptParked(o, c))) <=>
                   t \in Parked(c) /\ t \in Survivors(o) /\ t # Heir(o, c)
<1>1. d_serial[c].parked \in Seq(Tasks) /\ Distinct(d_serial[c].parked)
  <2>1. d_serial[c] \in Gate
    BY GatesTyped DEF IInv
  <2> QED
    BY <2>1 DEF Gate, IInv, QueuesSound
<1>2. PICK q : q = KeptParked(o, c)
  OBVIOUS
<1>3. q = Filter(d_serial[c].parked, Survivors(o))
  BY <1>2 DEF KeptParked, Kept
<1>4. /\ q \in Seq(Tasks) /\ Distinct(q)
      /\ \A t : t \in Range(q) <=> t \in Parked(c) /\ t \in Survivors(o)
  BY <1>1, <1>3, KeptQueue DEF Parked
<1>5. q # <<>> => /\ Head(q) \in Tasks /\ Head(q) \in Range(q)
                  /\ Tail(q) \in Seq(Tasks) /\ Distinct(Tail(q))
                  /\ \A t : t \in Range(Tail(q)) <=> t \in Range(q) /\ t # Head(q)
  BY <1>4, QueueTail
<1>6. Heir(o, c) = Head(q)
  BY <1>2 DEF Heir
<1> QED
  BY <1>2, <1>4, <1>5, <1>6

\* The heirs that drain_owner queues.
Heirs(o) == [i \in DOMAIN HandedOn(o) |-> Heir(o, content(HandedOn(o)[i]))]

\* One heir for each gate that is inherited, and no two the same.
LEMMA HeirsSound ==
  ASSUME IInv, NEW o
  PROVE  /\ Heirs(o) \in Seq(Tasks) /\ Distinct(Heirs(o))
         /\ \A t : t \in Range(Heirs(o)) <=> \E c \in Inherited(o) : t = Heir(o, c)
<1>1. PICK q : q = HandedOn(o)
  OBVIOUS
<1>2. /\ q \in Seq(Tasks) /\ Distinct(q)
      /\ \A t : t \in Range(q) <=>
           /\ t \in Range(d_ready) /\ t \notin Survivors(o) /\ serialize(t)
           /\ KeptParked(o, content(t)) # <<>>
  BY <1>1, KeptSound
<1>3. Len(q) \in Nat /\ DOMAIN q = 1 .. Len(q) /\ Range(q) = {q[i] : i \in 1 .. Len(q)}
  BY <1>2, LenProperties DEF Range
<1>4. PICK hs : hs = [i \in 1 .. Len(q) |-> Heir(o, content(q[i]))]
  OBVIOUS
<1>5. hs = Heirs(o)
  BY <1>1, <1>3, <1>4 DEF Heirs
<1>6. \A i \in 1 .. Len(q) : q[i] \in Range(q)
  BY <1>3
<1>7. \A i \in 1 .. Len(q) : content(q[i]) \in Inherited(o)
  <2>1. ASSUME NEW i \in 1 .. Len(q)
        PROVE  content(q[i]) \in Inherited(o)
    <3>1. PICK t : t = q[i]
      OBVIOUS
    <3>2. /\ t \in Range(d_ready) /\ t \notin Survivors(o) /\ serialize(t)
          /\ KeptParked(o, content(t)) # <<>>
      BY <1>2, <1>6, <3>1
    <3> QED
      BY <3>1, <3>2, ContentsAssumption DEF Inherited, OrphanOf, serialize
  <2> QED
    BY <2>1
<1>8. \A c \in Inherited(o) : \E i \in 1 .. Len(q) : content(q[i]) = c
  <2>1. ASSUME NEW c \in Inherited(o)
        PROVE  \E i \in 1 .. Len(q) : content(q[i]) = c
    <3>1. PICK t \in Range(d_ready) : t \notin Survivors(o) /\ serialize(t) /\ content(t) = c
      BY <2>1 DEF Inherited, OrphanOf
    <3>2. t \in Range(q)
      BY <1>2, <2>1, <3>1 DEF Inherited
    <3> QED
      BY <1>3, <3>1, <3>2
  <2> QED
    BY <2>1
<1>9. \A c \in Inherited(o) : c \in Contents /\ Heir(o, c) \in Tasks /\ Heir(o, c) \in Parked(c)
  BY KeptParkedSound DEF Inherited
<1>10. \A i \in 1 .. Len(q) : hs[i] = Heir(o, content(q[i])) /\ hs[i] \in Tasks
  BY <1>4, <1>7, <1>9
<1>11. hs \in Seq(Tasks) /\ DOMAIN hs = 1 .. Len(q)
  <2>1. hs \in [1 .. Len(q) -> Tasks]
    BY <1>4, <1>10
  <2> QED
    BY <1>3, <1>4, <2>1, SeqDef
<1>12. Distinct(hs)
  <2>1. ASSUME NEW i \in 1 .. Len(q), NEW j \in 1 .. Len(q), hs[i] = hs[j]
        PROVE  i = j
    <3>1. PICK t, u : t = q[i] /\ u = q[j]
      OBVIOUS
    <3>2. Heir(o, content(t)) = Heir(o, content(u))
      BY <1>10, <2>1, <3>1
    <3>3. content(t) \in Inherited(o) /\ content(u) \in Inherited(o)
      BY <1>7, <3>1
    <3>4. \A c \in Inherited(o) : content(Heir(o, c)) = c
      BY <1>9 DEF IInv, QueuesSound
    <3>5. content(t) = content(u)
      BY <3>2, <3>3, <3>4
    <3>6. t \in Range(d_ready) /\ u \in Range(d_ready) /\ content(t) \in NotThreadSafe
      BY <1>2, <1>6, <3>1 DEF serialize
    <3>7. t = u
      BY <3>5, <3>6 DEF IInv, HoldersSound
    <3> QED
      BY <1>2, <1>3, <3>1, <3>7 DEF Distinct
  <2> QED
    BY <1>11, <2>1 DEF Distinct
<1>13. \A t : t \in Range(hs) <=> \E c \in Inherited(o) : t = Heir(o, c)
  <2>1. Range(hs) = {hs[i] : i \in 1 .. Len(q)}
    BY <1>11 DEF Range
  <2> QED
    BY <1>7, <1>8, <1>10, <2>1
<1> QED
  BY <1>5, <1>11, <1>12, <1>13

\* The gate of c after the drain: untouched but for what o had parked, open,
\* or passed to the heir.
LEMMA PurgedGateSound ==
  ASSUME IInv, NEW o, NEW c \in Contents, NEW h, h = PurgedGate(o, c)
  PROVE  /\ h \in Gate /\ Distinct(h.parked)
         /\ \A t : t \in Range(h.parked) <=>
              t \in Parked(c) /\ t \in Survivors(o) /\ (c \in Inherited(o) => t # Heir(o, c))
         /\ ~OrphanOf(o, c) \/ c \in Inherited(o) =>
              h.active = d_serial[c].active /\ h.rendering = d_serial[c].rendering
         /\ OrphanOf(o, c) /\ c \notin Inherited(o) =>
              ~h.active /\ h.rendering = 0 /\ h.parked = <<>>
<1>1. PICK g \in Gate : g = d_serial[c]
  BY GatesTyped DEF IInv
<1>2. PICK q : q = KeptParked(o, c)
  OBVIOUS
<1>3. /\ q \in Seq(Tasks) /\ Distinct(q)
      /\ \A t : t \in Range(q) <=> t \in Parked(c) /\ t \in Survivors(o)
      /\ q # <<>> =>
           /\ Tail(q) \in Seq(Tasks) /\ Distinct(Tail(q))
           /\ \A t : t \in Range(Tail(q)) <=> t \in Parked(c) /\ t \in Survivors(o) /\ t # Heir(o, c)
  BY <1>2, KeptParkedSound
<1>4. (\A i \in DOMAIN Orphaned(o) : content(Orphaned(o)[i]) # c) <=> ~OrphanOf(o, c)
  <2>1. (\A i \in DOMAIN Orphaned(o) : content(Orphaned(o)[i]) # c)
        <=> \A t \in Range(Orphaned(o)) : content(t) # c
    BY DEF Range
  <2>2. \A t : t \in Range(Orphaned(o)) <=>
          t \in Range(d_ready) /\ t \notin Survivors(o) /\ serialize(t)
    BY KeptSound
  <2> QED
    BY <2>1, <2>2 DEF OrphanOf
<1>5. CASE ~OrphanOf(o, c)
  <2>1. Requeued(h, g, q)
    BY <1>1, <1>2, <1>4, <1>5 DEF PurgedGate, Requeued
  <2>2. /\ h \in Gate /\ h.parked = q
        /\ h.active = g.active /\ h.rendering = g.rendering
    BY <1>3, <2>1, GateQueue
  <2> QED
    BY <1>1, <1>3, <1>5, <2>2 DEF Inherited
<1>6. CASE OrphanOf(o, c) /\ q = <<>>
  <2>1. h = OpenGate
    BY <1>2, <1>4, <1>6 DEF PurgedGate
  <2>2. <<>> \in Seq(Tasks) /\ Range(<<>>) = {} /\ Distinct(<<>>)
    BY QueueEmpty
  <2>3. h \in Gate /\ ~h.active /\ h.rendering = 0 /\ h.parked = <<>>
    BY <2>1, <2>2 DEF OpenGate, Gate
  <2>4. \A t : ~(t \in Parked(c) /\ t \in Survivors(o))
    BY <1>3, <1>6, <2>2
  <2> QED
    BY <1>2, <1>6, <2>2, <2>3, <2>4 DEF Inherited
<1>7. CASE OrphanOf(o, c) /\ q # <<>>
  <2>1. Requeued(h, g, Tail(q))
    BY <1>1, <1>2, <1>4, <1>7 DEF PurgedGate, Requeued
  <2>2. /\ h \in Gate /\ h.parked = Tail(q)
        /\ h.active = g.active /\ h.rendering = g.rendering
    BY <1>3, <1>7, <2>1, GateQueue
  <2>3. c \in Inherited(o)
    BY <1>2, <1>7 DEF Inherited
  <2> QED
    BY <1>1, <1>3, <1>7, <2>2, <2>3
<1> QED
  BY <1>5, <1>6, <1>7

LEMMA DrainSafe ==
  ASSUME IInv, NEW o \in Owners, drain_owner(o)
  PROVE  IInv'
<1>1. PICK kept, heirs : kept = Kept(o, d_ready) /\ heirs = Heirs(o)
  OBVIOUS
<1>2. PICK left : left = d_outstanding[o] - Cardinality(Purged(o))
  OBVIOUS
<1>3. /\ driver[o].pc = "idle"
      /\ d_ready' = kept \o heirs
      /\ d_work_ready' = Kept(o, d_work_ready)
      /\ d_serial' = [c \in Contents |-> PurgedGate(o, c)]
      /\ d_dropped' = d_dropped + Cardinality(Purged(o))
      /\ d_outstanding' = [d_outstanding EXCEPT ![o] = left]
      /\ executor' = AllAwake(executor) \/ executor' = executor
      /\ driver' = [driver EXCEPT ![o].pc = IF left = 0 THEN "dead" ELSE "draining"]
      /\ UNCHANGED <<inline, task, d_stop, d_completed>>
  BY <1>1, <1>2 DEF drain_owner, Heirs, Heir
<1>4. /\ kept \in Seq(Tasks) /\ Distinct(kept)
      /\ \A t : t \in Range(kept) <=> t \in Range(d_ready) /\ t \in Survivors(o)
      /\ d_work_ready' \in Seq(Tasks) /\ Distinct(d_work_ready')
      /\ \A t : t \in Range(d_work_ready') <=> t \in Range(d_work_ready) /\ t \in Survivors(o)
  BY <1>1, <1>3, KeptSound
<1>5. /\ heirs \in Seq(Tasks) /\ Distinct(heirs)
      /\ \A t : t \in Range(heirs) <=> \E c \in Inherited(o) : t = Heir(o, c)
  BY <1>1, HeirsSound
<1>6. \A c \in Inherited(o) :
        /\ c \in Contents /\ OrphanOf(o, c) /\ Heir(o, c) \in Tasks
        /\ Heir(o, c) \in Parked(c) /\ Heir(o, c) \in Survivors(o)
  BY KeptParkedSound DEF Inherited
<1>7. \A c \in Inherited(o) :
        content(Heir(o, c)) = c /\ serialize(Heir(o, c)) /\ Heir(o, c) \notin Range(d_ready)
  BY <1>6 DEF IInv, QueuesSound
<1>8. /\ d_ready' \in Seq(Tasks) /\ Distinct(d_ready')
      /\ \A t : t \in Range(d_ready') <=> \/ t \in Range(d_ready) /\ t \in Survivors(o)
                                         \/ \E c \in Inherited(o) : t = Heir(o, c)
  <2>1. Range(kept) \cap Range(heirs) = {}
    BY <1>4, <1>5, <1>7
  <2>2. /\ kept \o heirs \in Seq(Tasks) /\ Distinct(kept \o heirs)
        /\ Range(kept \o heirs) = Range(kept) \cup Range(heirs)
    <3>1. kept \in Seq(Tasks) /\ heirs \in Seq(Tasks) /\ Distinct(kept) /\ Distinct(heirs)
      BY <1>4, <1>5
    <3> QED
      BY <2>1, <3>1, QueueConcat
  <2> QED
    BY <1>3, <1>4, <1>5, <2>2
<1>9. ASSUME NEW c \in Contents
      PROVE  /\ d_serial'[c] \in Gate /\ Distinct(d_serial'[c].parked)
             /\ \A t : t \in Parked(c)' <=>
                  t \in Parked(c) /\ t \in Survivors(o) /\ (c \in Inherited(o) => t # Heir(o, c))
             /\ ~OrphanOf(o, c) \/ c \in Inherited(o) =>
                  /\ d_serial'[c].active = d_serial[c].active
                  /\ d_serial'[c].rendering = d_serial[c].rendering
             /\ OrphanOf(o, c) /\ c \notin Inherited(o) =>
                  ~d_serial'[c].active /\ d_serial'[c].rendering = 0
  <2>1. PICK h : h = PurgedGate(o, c)
    OBVIOUS
  <2>2. h = d_serial'[c] /\ Range(h.parked) = Parked(c)'
    BY <1>3, <2>1 DEF Parked
  <2>3. /\ h \in Gate /\ Distinct(h.parked)
        /\ \A t : t \in Range(h.parked) <=>
             t \in Parked(c) /\ t \in Survivors(o) /\ (c \in Inherited(o) => t # Heir(o, c))
        /\ ~OrphanOf(o, c) \/ c \in Inherited(o) =>
             h.active = d_serial[c].active /\ h.rendering = d_serial[c].rendering
        /\ OrphanOf(o, c) /\ c \notin Inherited(o) =>
             ~h.active /\ h.rendering = 0 /\ h.parked = <<>>
    BY <2>1, PurgedGateSound
  <2> QED
    BY <2>2, <2>3, Zenon
<1>10. d_serial' \in [Contents -> Gate]
  BY <1>3, <1>9
<1>11. \A s : s \in AllQueued' <=> s \in AllQueued /\ s \in Survivors(o)
  <2>1. \A s : s \in AllQueued <=>
          s \in Range(d_ready) \/ s \in Range(d_work_ready) \/ \E c \in Contents : s \in Parked(c)
    BY DEF AllQueued, Queued, Parked
  <2>2. \A s : s \in AllQueued' <=>
          s \in Range(d_ready') \/ s \in Range(d_work_ready') \/ \E c \in Contents : s \in Parked(c)'
    BY DEF AllQueued, Queued, Parked
  <2>3. \A s : (\E c \in Contents : s \in Parked(c)) /\ s \in Survivors(o) <=>
          \/ \E c \in Contents : s \in Parked(c)'
          \/ \E c \in Inherited(o) : s = Heir(o, c)
    BY <1>6, <1>9
  <2> QED
    BY <1>4, <1>8, <2>1, <2>2, <2>3
<1>12. PICK B : B = Purged(o)
  OBVIOUS
<1>13. /\ B \subseteq AllQueued /\ AllQueued' = AllQueued \ B
       /\ \A t \in B : owner(t) = o
  <2>1. B = {t \in AllQueued : owner(t) = o}
    BY <1>12, PurgedTasks DEF IInv
  <2>2. AllQueued' = AllQueued \ Purged(o)
    BY <1>11 DEF Purged
  <2> QED
    BY <1>12, <2>1, <2>2
<1>14. d_outstanding \in [Owners -> Nat]
  BY DEF IInv, TypeOK
<1>15. d_outstanding' = [p \in Owners |-> d_outstanding[p] - Cardinality({t \in B : owner(t) = p})]
  <2>1. {t \in B : owner(t) = o} = B
    BY <1>13
  <2>2. \A p \in Owners : p # o => {t \in B : owner(t) = p} = {}
    BY <1>13
  <2>3. Cardinality({}) = 0
    BY FS_EmptySet
  <2>4. ASSUME NEW p \in Owners
        PROVE  d_outstanding'[p] = d_outstanding[p] - Cardinality({t \in B : owner(t) = p})
    <3>1. CASE p = o
      BY <1>2, <1>3, <1>12, <1>14, <2>1, <3>1
    <3>2. CASE p # o
      <4>1. d_outstanding'[p] = d_outstanding[p] /\ d_outstanding[p] \in Nat
        BY <1>3, <1>14, <3>2
      <4>2. Cardinality({t \in B : owner(t) = p}) = 0
        BY <2>2, <2>3, <3>2
      <4> QED
        BY <4>1, <4>2
    <3> QED
      BY <3>1, <3>2
  <2> QED
    BY <1>3, <1>14, <2>4
<1>16. /\ executor' \in [Executors -> Executor]
       /\ \A e \in Executors : \/ executor'[e] = executor[e]
                               \/ executor[e].pc = "asleep" /\ executor'[e].pc = "check"
       /\ inline => UNCHANGED executor
  <2>1. executor \in [Executors -> Executor]
    BY DEF IInv, TypeOK, Executor
  <2>2. inline => \A e \in Executors : executor[e].pc # "asleep"
    BY DEF IInv, HandsSound
  <2>3. AllAwake(executor) \in [Executors -> Executor]
    BY <2>1 DEF AllAwake, Executor
  <2>4. \A e \in Executors : \/ AllAwake(executor)[e] = executor[e]
                             \/ executor[e].pc = "asleep" /\ AllAwake(executor)[e].pc = "check"
    BY <2>1 DEF AllAwake, Executor
  <2>5. inline => AllAwake(executor) = executor
    BY <2>1, <2>2 DEF AllAwake
  <2> QED
    BY <1>3, <2>1, <2>3, <2>4, <2>5
<1>17. /\ driver' \in [Owners -> Driver]
       /\ driver'[o].pc = IF left = 0 THEN "dead" ELSE "draining"
       /\ \A p \in Owners : /\ p # o => driver'[p].pc = driver[p].pc
                            /\ driver'[p].task = driver[p].task
                            /\ driver'[p].behind = driver[p].behind
                            /\ driver'[p].missed = driver[p].missed
  <2>1. driver \in [Owners -> Driver]
    BY DEF IInv, TypeOK, Driver
  <2>2. PICK pc : pc = (IF left = 0 THEN "dead" ELSE "draining") /\ pc \in {"dead", "draining"}
    OBVIOUS
  <2>3. driver' = [driver EXCEPT ![o].pc = pc]
    BY <1>3, <2>2
  <2> QED
    BY <2>1, <2>2, <2>3 DEF Driver
<1>18. Purges(B)
  <2>1. \A e \in Executors : executor[e].pc \in Busy \/ executor'[e].pc \in Busy
                             => executor'[e] = executor[e]
    BY <1>16 DEF Busy, Holding
  <2>2. \A p \in Owners : /\ driver'[p].pc = "admitted" <=> driver[p].pc = "admitted"
                          /\ driver[p].pc = "inline" => driver'[p].pc = "inline"
                          /\ driver'[p].task = driver[p].task
                          /\ driver'[p].pc = "dead" => driver[p].pc = "dead" \/ d_outstanding'[p] = 0
    <3>1. d_outstanding'[o] = left
      BY <1>3, <1>14
    <3> QED
      BY <1>3, <1>17, <3>1
  <2> QED
    BY <1>3, <1>12, <1>13, <1>15, <1>16, <2>1, <2>2 DEF Purges
<1>19. /\ Executors' = Executors /\ Tasks' = Tasks
       /\ HandsSound' /\ ClaimsSound' /\ ReturnsSettled' /\ LedgerSound'
       /\ d_outstanding' \in [Owners -> Nat] /\ d_dropped' \in Nat
       /\ \A e \in Executors : \A c \in NotThreadSafe : Gated(e, c)' <=> Gated(e, c)
       /\ \A c \in NotThreadSafe : \A e \in Executors :
            (executor'[e].pc \in Started /\ content(executor[e].task)' = c)
            <=> (executor[e].pc \in Started /\ content(executor[e].task) = c)
  BY <1>18, PurgeSafe
<1>20. \A t : content(t)' = content(t) /\ serialize(t)' = serialize(t)
  BY <1>3 DEF content, serialize
<1>21. QueuesSound'
  <2>1. \A t \in Range(d_ready') : content(t) # Job
    <3>1. \A c \in Inherited(o) : content(Heir(o, c)) # Job
      BY <1>6, <1>7, JobAssumption
    <3> QED
      BY <1>8, <3>1 DEF IInv, QueuesSound
  <2>2. \A t \in Range(d_work_ready') : content(t) = Job
    BY <1>4 DEF IInv, QueuesSound
  <2>3. ASSUME NEW c \in Contents
        PROVE  /\ Distinct(d_serial'[c].parked)
               /\ \A t \in Parked(c)' : content(t) = c /\ serialize(t) /\ t \notin Range(d_ready')
    <3>1. \A t \in Parked(c)' : content(t) = c /\ serialize(t) /\ t \notin Range(d_ready)
      BY <1>9 DEF IInv, QueuesSound
    <3>2. \A t \in Parked(c)' : \A d \in Inherited(o) : t # Heir(o, d)
      BY <1>7, <1>9, <3>1
    <3> QED
      BY <1>8, <1>9, <3>1, <3>2
  <2>4. inline => Range(d_ready') = {} /\ Range(d_work_ready') = {}
    <3>1. inline => Range(d_ready) = {} /\ Range(d_work_ready) = {}
      BY DEF IInv, QueuesSound
    <3>2. inline => Inherited(o) = {}
      BY <3>1 DEF Inherited, OrphanOf
    <3> QED
      BY <1>4, <1>8, <3>1, <3>2
  <2> QED
    BY <1>3, <1>4, <1>8, <1>20, <2>1, <2>2, <2>3, <2>4 DEF QueuesSound
<1>22. ASSUME NEW c \in NotThreadSafe, OrphanOf(o, c)
       PROVE  /\ c \in Contents
              /\ \A t \in Range(d_ready) : content(t) = c => t \notin Survivors(o)
              /\ \A e \in Executors : ~Gated(e, c)
              /\ d_serial[c].active
  <2>1. PICK t \in Range(d_ready) : t \notin Survivors(o) /\ content(t) = c
    BY <1>22 DEF OrphanOf
  <2> QED
    BY <2>1, ContentsAssumption DEF IInv, HoldersSound, Holder
<1>23. HoldersSound'
  <2>1. ASSUME NEW c \in NotThreadSafe
        PROVE  /\ \A t, u \in Range(d_ready') : content(t) = c /\ content(u) = c => t = u
               /\ \A t \in Range(d_ready'), e \in Executors : content(t) = c => ~Gated(e, c)
               /\ Holder(c)' \/ Parked(c)' # {} => d_serial'[c].active
               /\ d_serial'[c].active /\ ~d_stop => Holder(c)'
    <3>1. Holder(c)' <=> (\E t \in Range(d_ready') : content(t) = c) \/ \E e \in Executors : Gated(e, c)
      BY <1>19, <1>20 DEF Holder
    <3>2. c \in Contents
      BY ContentsAssumption
    <3>3. \A d \in Inherited(o) : content(Heir(o, d)) = c => d = c
      BY <1>7
    <3>4. CASE ~OrphanOf(o, c)
      <4>1. c \notin Inherited(o)
        BY <3>4 DEF Inherited
      <4>2. \A t : t \in Range(d_ready') /\ content(t) = c <=> t \in Range(d_ready) /\ content(t) = c
        <5>1. \A t \in Range(d_ready) : content(t) = c => t \in Survivors(o)
          BY <3>4 DEF OrphanOf, serialize
        <5> QED
          BY <1>8, <3>3, <4>1, <5>1
      <4>3. Holder(c)' <=> Holder(c)
        BY <3>1, <4>2 DEF Holder
      <4>4. d_serial'[c].active = d_serial[c].active /\ (Parked(c)' # {} => Parked(c) # {})
        BY <1>9, <3>2, <3>4
      <4> QED
        BY <4>2, <4>3, <4>4 DEF IInv, HoldersSound
    <3>5. CASE OrphanOf(o, c) /\ c \notin Inherited(o)
      <4>1. \A t \in Range(d_ready') : content(t) # c
        BY <1>8, <1>22, <3>3, <3>5
      <4>2. ~Holder(c)'
        BY <1>22, <3>1, <3>5, <4>1
      <4>3. Parked(c)' = {} /\ ~d_serial'[c].active
        <5>1. KeptParked(o, c) = <<>>
          BY <3>2, <3>5 DEF Inherited
        <5>2. \A t : ~(t \in Parked(c) /\ t \in Survivors(o))
          BY <3>2, <5>1, KeptParkedSound, QueueEmpty
        <5> QED
          BY <1>9, <3>2, <3>5, <5>2
      <4> QED
        BY <4>1, <4>2, <4>3
    <3>6. CASE OrphanOf(o, c) /\ c \in Inherited(o)
      <4>1. \A t \in Range(d_ready') : content(t) = c => t = Heir(o, c)
        BY <1>8, <1>22, <3>3, <3>6
      <4>2. Holder(c)'
        BY <1>7, <1>8, <3>1, <3>6
      <4>3. d_serial'[c].active
        BY <1>9, <1>22, <3>2, <3>6
      <4> QED
        BY <1>22, <3>6, <4>1, <4>2, <4>3
    <3> QED
      BY <3>4, <3>5, <3>6
  <2>2. ASSUME NEW c \in NotThreadSafe
        PROVE  /\ \A t, u \in Range(d_ready)' : content(t)' = c /\ content(u)' = c => t = u
               /\ \A e, f \in Executors' : Gated(e, c)' /\ Gated(f, c)' => e = f
               /\ \A t \in Range(d_ready)', e \in Executors' : content(t)' = c => ~Gated(e, c)'
               /\ Holder(c)' \/ Parked(c)' # {} => d_serial'[c].active
               /\ d_serial'[c].active /\ ~d_stop' => Holder(c)'
    <3>1. \A e, f \in Executors : Gated(e, c) /\ Gated(f, c) => e = f
      BY DEF IInv, HoldersSound
    <3> QED
      BY <1>3, <1>19, <1>20, <2>1, <3>1
  <2> QED
    BY <2>2 DEF HoldersSound
<1>24. RendersCounted'
  <2>1. SUFFICES ASSUME NEW c \in NotThreadSafe
        PROVE  d_serial'[c].rendering =
                 IF \E e \in Executors : executor[e].pc \in Started /\ content(executor[e].task) = c
                 THEN 1 ELSE 0
    BY <1>19 DEF RendersCounted
  <2>2. c \in Contents
    BY ContentsAssumption
  <2>3. d_serial[c].rendering =
          IF \E e \in Executors : executor[e].pc \in Started /\ content(executor[e].task) = c
          THEN 1 ELSE 0
    BY DEF IInv, RendersCounted
  <2>4. CASE ~OrphanOf(o, c) \/ c \in Inherited(o)
    BY <1>9, <2>2, <2>3, <2>4
  <2>5. CASE OrphanOf(o, c) /\ c \notin Inherited(o)
    <3>1. ~ \E e \in Executors : executor[e].pc \in Started /\ content(executor[e].task) = c
      BY <1>22, <2>5 DEF Gated, Started, Holding
    <3> QED
      BY <1>9, <2>2, <2>5, <3>1
  <2> QED
    BY <2>4, <2>5
<1>25. WakesSound'
  BY <1>3, <1>17 DEF IInv, WakesSound
<1>26. TypeOK'
  BY <1>3, <1>4, <1>8, <1>10, <1>16, <1>17, <1>19 DEF IInv, TypeOK, Executor, Driver, Gate
<1> QED
  BY <1>3, <1>19, <1>21, <1>23, <1>24, <1>25, <1>26 DEF IInv

(***************************************************************************)
(* The invariant.                                                          *)
(***************************************************************************)
LEMMA InitSafe ==
  ASSUME Init
  PROVE  IInv
<1>1. /\ inline \in BOOLEAN /\ task = <<>> /\ Len(task) = 0 /\ Tasks = {}
      /\ d_ready = <<>> /\ d_work_ready = <<>>
      /\ d_serial = [c \in Contents |-> OpenGate]
      /\ d_outstanding = [o \in Owners |-> 0] /\ d_stop = FALSE
      /\ d_completed = 0 /\ d_dropped = 0
  BY DEF Init, Tasks
<1>2. Range(<<>>) = {} /\ Distinct(<<>>) /\ \A T : <<>> \in Seq(T)
  BY QueueEmpty
<1>3. \A c \in Contents : /\ d_serial[c].parked = <<>> /\ ~d_serial[c].active
                          /\ d_serial[c].rendering = 0 /\ Parked(c) = {}
  BY <1>1, <1>2 DEF OpenGate, Parked
<1>4. AllQueued = {}
  BY <1>1, <1>2, <1>3 DEF AllQueued, Queued, Parked
<1>5. /\ executor \in [Executors -> Executor]
      /\ \A e \in Executors : executor[e].pc = IF inline THEN "idle" ELSE "check"
  <2>1. [pc |-> IF inline THEN "idle" ELSE "check", task |-> NoTask] \in Executor
    BY MaxTasksAssumption DEF Executor, TaskId, NoTask
  <2> QED
    BY <2>1 DEF Init
<1>6. /\ driver \in [Owners -> Driver]
      /\ \A o \in Owners : driver[o].pc = "idle" /\ ~driver[o].behind /\ ~driver[o].missed
  <2>1. [pc |-> "idle", task |-> NoTask, behind |-> FALSE, missed |-> FALSE] \in Driver
    BY MaxTasksAssumption DEF Driver, TaskId, NoTask
  <2> QED
    BY <2>1 DEF Init
<1>7. \A e \in Executors : executor[e].pc \notin Busy
  BY <1>5 DEF Busy, Holding
<1>8. TypeOK
  <2>1. OpenGate \in Gate
    BY <1>2 DEF OpenGate, Gate
  <2>2. d_serial \in [Contents -> Gate] /\ d_outstanding \in [Owners -> Nat]
    BY <1>1, <2>1
  <2> QED
    BY <1>1, <1>2, <1>5, <1>6, <2>2 DEF TypeOK, Executor, Driver, Gate
<1>9. QueuesSound
  BY <1>1, <1>2, <1>3 DEF QueuesSound
<1>10. HandsSound
  BY <1>5, <1>6, <1>7 DEF HandsSound, Busy, Holding
<1>11. \A c \in NotThreadSafe : /\ ~Holder(c) /\ Parked(c) = {} /\ ~d_serial[c].active
                                /\ d_serial[c].rendering = 0
                                /\ \A e \in Executors : ~Gated(e, c)
  BY ContentsAssumption, <1>1, <1>2, <1>3, <1>7 DEF Holder, Gated, Busy
<1>12. HoldersSound
  BY <1>1, <1>2, <1>11 DEF HoldersSound
<1>13. RendersCounted
  BY <1>7, <1>11 DEF RendersCounted, Started, Busy, Holding
<1>14. Out = {} /\ Observed = {} /\ Counted = {} /\ LeftToSettler = {} /\ Cardinality({}) = 0
  BY <1>1, <1>7, FS_EmptySet DEF Out, Observed, Counted, LeftToSettler, Busy, Holding
<1>15. \A o \in Owners : OutOf(o) = {}
  BY <1>14 DEF OutOf
<1>16. ClaimsSound
  BY <1>1, <1>6, <1>14, <1>15 DEF ClaimsSound
<1>17. ReturnsSettled
  BY <1>7 DEF ReturnsSettled, Busy, Holding
<1>18. LedgerSound
  BY <1>1, <1>14 DEF LedgerSound
<1>19. WakesSound
  BY <1>6 DEF WakesSound
<1> QED
  BY <1>1, <1>8, <1>9, <1>10, <1>12, <1>13, <1>16, <1>17, <1>18, <1>19, MaxTasksAssumption DEF IInv

LEMMA NextSafe ==
  ASSUME IInv, [Next]_vars
  PROVE  IInv'
<1>1. ASSUME NEW o \in Owners, NEW c \in Contents \cup {Job}, submit(o, c)
      PROVE  IInv'
  BY <1>1, SubmitSafe
<1>2. ASSUME NEW o \in Owners, Resume(o) \/ wait_completions(o) \/ timeout(o) \/ drain_owner(o)
      PROVE  IInv'
  BY <1>2, EnqueueSafe, SubmitInlineSafe, DrainAgainSafe, WaitSafe, DrainSafe DEF Resume
<1>3. CASE request_stop
  BY <1>3, StopSafe
<1>4. ASSUME NEW e \in Executors, Step(e) \/ hand_off(e)
      PROVE  IInv'
  BY <1>4, AbandonSafe, PopSafe, StartSafe, ReturnSafe, ObserveSafe, ReleaseSafe, HandGateSafe,
     HandOffSafe DEF Step
<1>5. ASSUME NEW t \in Tasks, try_settle(t) \/ settler_poke(t)
      PROVE  IInv'
  BY <1>5, SettlerSafe
<1>6. CASE UNCHANGED vars
  <2>1. Quiet
    BY <1>6 DEF Quiet, vars, queues, counters, SameDrivers
  <2>2. TypeOK' /\ WakesSound' /\ (Len(task) <= MaxTasks)'
    BY <1>6 DEF IInv, TypeOK, WakesSound, vars, queues, counters, Tasks, Executors
  <2> QED
    BY <2>1, <2>2, QuietSafe DEF IInv
<1> QED
  BY <1>1, <1>2, <1>3, <1>4, <1>5, <1>6 DEF Next

LEMMA AlwaysIInv == Init /\ [][Next]_vars => []IInv
<1>1. IInv /\ [Next]_vars => IInv'
  BY NextSafe
<1> QED
  BY <1>1, InitSafe, PTL

(***************************************************************************)
(* What the invariant is for.                                              *)
(***************************************************************************)
LEMMA AtMostOne ==
  ASSUME NEW S, \A x, y \in S : x = y
  PROVE  Cardinality(S) <= 1
<1>1. CASE S = {}
  BY <1>1, FS_EmptySet
<1>2. ASSUME NEW x \in S
      PROVE  Cardinality(S) <= 1
  <2>1. S = {x}
    OBVIOUS
  <2> QED
    BY <2>1, FS_Singleton
<1> QED
  BY <1>1, <1>2

LEMMA DisjointSizes ==
  ASSUME NEW S, NEW T, IsFiniteSet(S), IsFiniteSet(T), S \cap T = {}
  PROVE  IsFiniteSet(S \cup T) /\ Cardinality(S \cup T) = Cardinality(S) + Cardinality(T)
<1>1. IsFiniteSet(S \cup T)
      /\ Cardinality(S \cup T) = Cardinality(S) + Cardinality(T) - Cardinality(S \cap T)
  BY FS_Union
<1>2. Cardinality(S \cap T) = 0
  BY FS_EmptySet
<1>3. Cardinality(S) \in Nat /\ Cardinality(T) \in Nat
  BY FS_CardinalityType
<1> QED
  BY <1>1, <1>2, <1>3

LEMMA GatesFollow ==
  ASSUME IInv
  PROVE  GatesSound
<1>1. OneRenderPerContent
  <2>1. SUFFICES ASSUME NEW c \in NotThreadSafe
        PROVE  /\ Cardinality({e \in Executors : executor[e].pc = "rendering"
                                                 /\ content(executor[e].task) = c}) <= 1
               /\ d_serial[c].rendering <= 1
    BY DEF OneRenderPerContent
  <2>2. \A e, f \in Executors : Gated(e, c) /\ Gated(f, c) => e = f
    BY DEF IInv, HoldersSound
  <2>3. \A e, f \in {e \in Executors : executor[e].pc = "rendering"
                                       /\ content(executor[e].task) = c} : e = f
    BY <2>2 DEF Gated, Holding
  <2>4. d_serial[c].rendering <= 1
    BY DEF IInv, RendersCounted
  <2> QED
    BY <2>3, <2>4, AtMostOne
<1>2. GateHasHolder
  <2>1. SUFFICES ASSUME ~d_stop, NEW c \in NotThreadSafe, NEW holders,
                        holders = {t \in Queued(d_ready) : content(t) = c}
                                  \cup {e \in Executors : Gated(e, c)}
        PROVE  /\ d_serial[c].active <=> holders # {}
               /\ Cardinality(holders) <= 1
               /\ d_serial[c].parked # <<>> => d_serial[c].active
    BY DEF GateHasHolder
  <2>2. holders # {} <=> Holder(c)
    BY <2>1 DEF Holder, Queued
  <2>3. c \in Contents /\ d_serial[c].active \in BOOLEAN
    BY ContentsAssumption DEF IInv, TypeOK
  <2>4. /\ \A t, u \in Range(d_ready) : content(t) = c /\ content(u) = c => t = u
        /\ \A e, f \in Executors : Gated(e, c) /\ Gated(f, c) => e = f
        /\ \A t \in Range(d_ready), e \in Executors : content(t) = c => ~Gated(e, c)
        /\ Holder(c) \/ Parked(c) # {} => d_serial[c].active
        /\ d_serial[c].active => Holder(c)
    BY <2>1 DEF IInv, HoldersSound
  <2>5. \A x, y \in holders : x = y
    BY <2>1, <2>4 DEF Queued
  <2>6. d_serial[c].parked # <<>> => Parked(c) # {}
    <3>1. d_serial[c].parked \in Seq(Tasks)
      BY <2>3, GatesTyped DEF IInv, Gate
    <3> QED
      BY <3>1, QueueHolds DEF Parked
  <2> QED
    BY <2>2, <2>4, <2>5, <2>6, AtMostOne
<1> QED
  BY <1>1, <1>2 DEF GatesSound

LEMMA DeadFollow ==
  ASSUME IInv
  PROVE  DeadOwnerUntouched
<1>1. SUFFICES ASSUME NEW o \in Owners, driver[o].pc = "dead"
      PROVE  /\ \A t \in AllQueued : owner(t) # o
             /\ \A e \in Executors, t \in Tasks : Executing(e, t) => owner(t) # o
  BY DEF DeadOwnerUntouched
<1>2. Cardinality(OutOf(o)) = 0
  BY <1>1 DEF IInv, ClaimsSound
<1>3. IsFiniteSet(OutOf(o))
  BY OutSizes DEF IInv
<1>4. OutOf(o) = {}
  BY <1>2, <1>3, FS_EmptySet
<1>5. \A t \in Tasks : Outstanding(t) => owner(t) # o
  BY <1>4 DEF OutOf, Out
<1>6. AllQueued \subseteq Tasks
  BY QueuedTyped DEF IInv
<1> QED
  BY <1>5, <1>6 DEF Outstanding

\* The lengths of the queues are the number of the queued tasks.
LEMMA QueuesCounted ==
  ASSUME IInv
  PROVE  Len(d_ready) + Len(d_work_ready) + SumFunction([c \in Contents |-> Len(d_serial[c].parked)])
         = Cardinality(AllQueued)
<1>1. PICK R, W, U : /\ R = Range(d_ready) /\ W = Range(d_work_ready)
                     /\ U = UNION {Parked(c) : c \in Contents}
  OBVIOUS
<1>2. AllQueued = R \cup W \cup U
  BY <1>1 DEF AllQueued, Queued, Parked
<1>3. /\ R \cap W = {} /\ (R \cup W) \cap U = {}
  <2>1. \A t \in R : t \notin W
    BY <1>1 DEF IInv, QueuesSound
  <2>2. \A c \in Contents : \A t \in Parked(c) : t \notin R /\ t \notin W
    BY <1>1, JobAssumption DEF IInv, QueuesSound
  <2> QED
    BY <1>1, <2>1, <2>2
<1>4. AllQueued \subseteq Tasks /\ Len(task) \in Nat
  BY QueuedTyped, TasksTyped DEF IInv
<1>5. /\ IsFiniteSet(R) /\ Cardinality(R) \in Nat /\ IsFiniteSet(W) /\ Cardinality(W) \in Nat
      /\ IsFiniteSet(U) /\ Cardinality(U) \in Nat
  <2>1. R \in SUBSET Tasks /\ W \in SUBSET Tasks /\ U \in SUBSET Tasks
    BY <1>2, <1>4
  <2> QED
    BY <1>4, <2>1, TasksFinite
<1>6. Cardinality(AllQueued) = Cardinality(R) + Cardinality(W) + Cardinality(U)
  <2>1. IsFiniteSet(R \cup W) /\ Cardinality(R \cup W) = Cardinality(R) + Cardinality(W)
    BY <1>3, <1>5, DisjointSizes
  <2>2. PICK V : V = R \cup W
    OBVIOUS
  <2>3. IsFiniteSet(V) /\ Cardinality(V) = Cardinality(R) + Cardinality(W) /\ V \cap U = {}
    BY <1>3, <2>1, <2>2
  <2>4. Cardinality(V \cup U) = Cardinality(V) + Cardinality(U)
    BY <1>5, <2>3, DisjointSizes
  <2>5. AllQueued = V \cup U
    BY <1>2, <2>2
  <2> QED
    BY <2>3, <2>4, <2>5
<1>7. Len(d_ready) = Cardinality(R) /\ Len(d_work_ready) = Cardinality(W)
  <2>1. d_ready \in Seq(Tasks) /\ Distinct(d_ready)
    BY DEF IInv, TypeOK, QueuesSound
  <2>2. d_work_ready \in Seq(Tasks) /\ Distinct(d_work_ready)
    BY DEF IInv, TypeOK, QueuesSound
  <2> QED
    BY <1>1, <2>1, <2>2, QueueLength
<1>8. SumFunction([c \in Contents |-> Len(d_serial[c].parked)]) = Cardinality(U)
  <2>1. PICK f, P : /\ f = [c \in Contents |-> Len(d_serial[c].parked)]
                    /\ P = [c \in Contents |-> Parked(c)]
    OBVIOUS
  <2>2. \A c \in Contents : f[c] = Cardinality(P[c])
    <3>1. ASSUME NEW c \in Contents
          PROVE  Len(d_serial[c].parked) = Cardinality(Parked(c))
      <4>1. d_serial[c].parked \in Seq(Tasks) /\ Distinct(d_serial[c].parked)
        BY GatesTyped DEF IInv, QueuesSound, Gate
      <4> QED
        BY <4>1, QueueLength DEF Parked
    <3> QED
      BY <2>1, <3>1
  <2>3. P \in [Contents -> SUBSET U] /\ U = UNION {P[c] : c \in Contents}
    BY <1>1, <2>1
  <2>4. \A c, d \in Contents : c # d => P[c] \cap P[d] = {}
    BY <2>1 DEF IInv, QueuesSound
  <2>5. IsFiniteSet(Contents)
    BY FiniteAssumption
  <2>6. SumFunctionOnSet(f, Contents) = Cardinality(U)
    BY <1>5, <2>2, <2>3, <2>4, <2>5, SumOfParts
  <2>7. DOMAIN f = Contents
    BY <2>1
  <2> QED
    BY <2>1, <2>6, <2>7 DEF SumFunction
<1> QED
  BY <1>5, <1>6, <1>7, <1>8

\* The claims of all owners are the outstanding tasks.
LEMMA ClaimsSum ==
  ASSUME IInv
  PROVE  SumFunction(d_outstanding) = Cardinality(Out)
<1>1. PICK P : P = [o \in Owners |-> OutOf(o)]
  BY Zenon
<1>2. d_outstanding \in [Owners -> Nat] /\ \A o \in Owners : d_outstanding[o] = Cardinality(P[o])
  BY <1>1 DEF IInv, TypeOK, ClaimsSound
<1>3. \A t \in Out : owner(t) \in Owners
  BY TasksTyped DEF IInv, Out
<1>4. P \in [Owners -> SUBSET Out] /\ Out = UNION {P[o] : o \in Owners}
  <2>1. \A o \in Owners : P[o] = {t \in Out : owner(t) = o}
    BY <1>1 DEF OutOf
  <2> HIDE DEF Out
  <2> QED
    BY <1>1, <1>3, <2>1
<1>5. \A o, p \in Owners : o # p => P[o] \cap P[p] = {}
  BY <1>1 DEF OutOf
<1>6. IsFiniteSet(Owners) /\ IsFiniteSet(Out)
  BY FiniteAssumption, OutSizes DEF IInv
<1>7. SumFunctionOnSet(d_outstanding, Owners) = Cardinality(Out)
  BY <1>2, <1>4, <1>5, <1>6, SumOfParts
<1> QED
  BY <1>2, <1>7 DEF SumFunction

LEMMA TasksFollow ==
  ASSUME IInv
  PROVE  TasksAccounted
<1>1. \A o \in Owners :
        d_outstanding[o] = Cardinality({t \in Tasks : owner(t) = o /\ Outstanding(t)})
  <2>1. \A o \in Owners : OutOf(o) = {t \in Tasks : owner(t) = o /\ Outstanding(t)}
    BY DEF OutOf, Out
  <2> QED
    BY <2>1 DEF IInv, ClaimsSound
<1>2. \A e \in Executors, t \in Tasks : Executing(e, t) =>
        t \notin AllQueued /\ \A f \in Executors \ {e} : ~Executing(f, t)
  BY DEF IInv, HandsSound, Executing
<1>3. ClaimsMatchTasks
  BY <1>1, <1>2, QueuesCounted DEF ClaimsMatchTasks
<1>4. AccountingCloses
  <2>1. SUFFICES ASSUME ~Running, NEW accounted,
                        accounted = d_completed + d_dropped + SumFunction(d_outstanding)
        PROVE  accounted <= Len(task) /\ Len(task) <= accounted + Cardinality(LeftToSettler)
    BY DEF AccountingCloses
  <2>2. Cardinality(Observed) = 0 /\ Cardinality(Counted) = 0
    <3>1. Observed = {} /\ Counted = {}
      BY <2>1 DEF Running, Observed, Counted, Holding
    <3> QED
      BY <3>1, FS_EmptySet
  <2>3. accounted = d_completed + d_dropped + Cardinality(Out)
    BY <2>1, ClaimsSum
  <2>4. /\ d_completed + d_dropped + Cardinality(Out) <= Len(task) + Cardinality(Observed)
        /\ Len(task) + Cardinality(Counted)
             <= d_completed + d_dropped + Cardinality(Out) + Cardinality(LeftToSettler)
    BY DEF IInv, LedgerSound
  <2>5. Len(task) \in Nat
    BY TasksTyped DEF IInv
  <2> QED
    BY <2>2, <2>3, <2>4, <2>5
<1> QED
  BY <1>3, <1>4 DEF TasksAccounted, IInv

(* A content that is not thread safe is rendered once at a time, and while *)
(* its gate is closed before a stop exactly one queued task or executor    *)
(* will pass it on, however drivers submit, drain and stop (submit, run,   *)
(* drain_owner, for any number of workers, drivers and contents).          *)
THEOREM GatesHold == Spec => []GatesSound
<1>1. IInv => GatesSound
  BY GatesFollow
<1> QED
  BY <1>1, AlwaysIInv, PTL DEF Spec

(* Once drain_owner has returned, the pool has no task of that owner left, *)
(* queued, parked or running: the surfaces may go.                         *)
THEOREM DeadOwnersUntouched == Spec => []DeadOwnerUntouched
<1>1. IInv => DeadOwnerUntouched
  BY DeadFollow
<1> QED
  BY <1>1, AlwaysIInv, PTL DEF Spec

(* Every submitted task is in one place and is claimed by its owner until  *)
(* it is released or dropped, and at quiescence the counters and claims    *)
(* add up to the tasks submitted (claim_outstanding, release_outstanding,  *)
(* drop_queued, tasks_completed, tasks_dropped).                           *)
THEOREM TasksAreAccounted == Spec => []TasksAccounted
<1>1. IInv => TasksAccounted
  BY TasksFollow
<1> QED
  BY <1>1, AlwaysIInv, PTL DEF Spec

(* A driver that sleeps in wait_completions has missed no settlement and   *)
(* no stop: no other driver's wait consumes its wake (CompletionCursor,    *)
(* poke, request_stop).                                                    *)
THEOREM WakesAreKept == Spec => []NoStolenWake
<1>1. IInv => NoStolenWake
  BY DEF IInv, WakesSound, NoStolenWake
<1> QED
  BY <1>1, AlwaysIInv, PTL DEF Spec
=============================================================================
