----------------------------- MODULE WorkerPool -----------------------------
(***************************************************************************)
(* The render worker pool: a shared FIFO of render tasks, a second lane of *)
(* pure work jobs, a gate that serialises renders of one content, a wake   *)
(* for drivers parked on completions and the drain a driver runs before it *)
(* destroys its surfaces (runtime/worker_pool.cpp), with the one-shot      *)
(* completion each task settles (contract/render_completion.cpp).          *)
(*                                                                         *)
(* One action is one critical section of d_mutex, or one atomic step       *)
(* outside it.  A notify is taken with the section it follows.  A thread   *)
(* on a condition variable sleeps until it is notified, then tests its     *)
(* predicate again.  Without workers the submitting thread renders.        *)
(***************************************************************************)
EXTENDS Integers, Sequences, FiniteSets, Containers

CONSTANTS Workers,       \* worker threads
          Owners,        \* drivers that share the pool
          Contents,
          NotThreadSafe, \* contents whose renders are serialised
          Frames,        \* drivers with a frame loop: they park on completions
                         \* and poll them
          Async,         \* contents that may settle on a thread of their own
          Job,           \* what a task of the work lane renders
          MaxTasks       \* bound: tasks submitted

ASSUME ContentsAssumption == NotThreadSafe \subseteq Contents /\ Async \subseteq Contents
ASSUME FramesAssumption == Frames \subseteq Owners
ASSUME FiniteAssumption == IsFiniteSet(Workers) /\ IsFiniteSet(Owners) /\ IsFiniteSet(Contents)
ASSUME JobAssumption == Job \notin Contents
ASSUME MaxTasksAssumption == MaxTasks \in Nat

VARIABLES
  inline,      \* whether worker_count is 0: submitting threads render
  task,        \* submitted tasks: content, owner and completion
  d_ready, d_work_ready,
  d_serial,    \* the gate of each content: active, rendering, parked
  d_outstanding, d_stop,
  d_completed, d_dropped,
  executor,    \* where each worker is; inline, where each driver's render is
  driver       \* where each driver is, and whether d_settle_gen differs from its
               \* CompletionCursor (behind); history: whether anything settled since
               \* its last wait returned (missed)

queues == <<d_ready, d_work_ready, d_serial>>
counters == <<d_completed, d_dropped>>
vars == <<inline, task, queues, d_outstanding, d_stop, counters, executor, driver>>

Executors == IF inline THEN Owners ELSE Workers
NoTask == 0
Tasks == 1 .. Len(task)
content(t) == task[t].content
owner(t) == task[t].owner
serialize(t) == content(t) \in NotThreadSafe
settled(t) == task[t].done = "published"
OpenGate == [active |-> FALSE, rendering |-> 0, parked |-> <<>>]

Init ==
  /\ inline \in BOOLEAN
  /\ task = <<>>
  /\ d_ready = <<>> /\ d_work_ready = <<>>
  /\ d_serial = [c \in Contents |-> OpenGate]
  /\ d_outstanding = [o \in Owners |-> 0]
  /\ d_stop = FALSE
  /\ d_completed = 0 /\ d_dropped = 0
  /\ executor = [e \in Executors |-> [pc |-> IF inline THEN "idle" ELSE "check", task |-> NoTask]]
  /\ driver = [o \in Owners |-> [pc |-> "idle", task |-> NoTask, behind |-> FALSE, missed |-> FALSE]]

(***************************************************************************)
(* Condition variables.                                                    *)
(***************************************************************************)
\* d_work_cv.notify_one, on executor states ex.
NotifyOne(ex) ==
  LET asleep == {e \in Executors : ex[e].pc = "asleep"}
  IN IF asleep = {} THEN executor' = ex
     ELSE \E e \in asleep : executor' = [ex EXCEPT ![e].pc = "check"]

\* notify_all on the drivers that sleep at pc.
Woken(d, from, to) ==
  [o \in Owners |-> IF d[o].pc = from THEN [d[o] EXCEPT !.pc = to] ELSE d[o]]

\* A settlement happened: every frame driver is behind it until its next wait.
Settlement(ds) ==
  [o \in Owners |-> IF o \in Frames THEN [ds[o] EXCEPT !.behind = TRUE, !.missed = TRUE] ELSE ds[o]]

\* Mutant: the generation moves and nobody is notified.
poke_Silent == driver' = Settlement(driver)

\* poke: the generation moves, and every parked driver tests it against its own
\* cursor.
poke == driver' = Settlement(Woken(driver, "parked", "woken"))

(***************************************************************************)
(* Drivers.                                                                *)
(***************************************************************************)
\* submit and submit_work, first section: refuse after stop, else claim.
submit(o, c) ==
  /\ driver[o].pc = "idle" /\ ~d_stop /\ Len(task) < MaxTasks
  /\ task' = Append(task, [content |-> c, owner |-> o, done |-> "pending", settler |-> "none"])
  /\ d_outstanding' = [d_outstanding EXCEPT ![o] = @ + 1]
  /\ driver' = [driver EXCEPT ![o].pc = "admitted", ![o].task = Len(task) + 1]
  /\ UNCHANGED <<inline, queues, d_stop, counters, executor>>

Park(t) == d_serial' = [d_serial EXCEPT ![content(t)].parked = Append(@, t)]

\* Second section, with workers: stop is not looked at again.
enqueue(o) ==
  LET t == driver[o].task IN
  /\ driver[o].pc = "admitted" /\ ~inline
  /\ \/ /\ serialize(t) /\ d_serial[content(t)].active
        /\ Park(t)
        /\ UNCHANGED <<d_ready, d_work_ready, executor>>
     \/ /\ content(t) # Job /\ ~(serialize(t) /\ d_serial[content(t)].active)
        /\ d_serial' = IF serialize(t) THEN [d_serial EXCEPT ![content(t)].active = TRUE]
                       ELSE d_serial
        /\ d_ready' = Append(d_ready, t)
        /\ NotifyOne(executor)
        /\ UNCHANGED d_work_ready
     \/ /\ content(t) = Job
        /\ d_work_ready' = Append(d_work_ready, t)
        /\ NotifyOne(executor)
        /\ UNCHANGED <<d_ready, d_serial>>
  /\ driver' = [driver EXCEPT ![o].pc = "idle", ![o].task = NoTask]
  /\ UNCHANGED <<inline, task, d_outstanding, d_stop, counters>>

\* submit_inline, submit_work_inline: park behind another thread's render of
\* the same content, else render here.
submit_inline(o) ==
  LET t == driver[o].task IN
  /\ driver[o].pc = "admitted" /\ inline
  /\ \/ /\ serialize(t) /\ d_serial[content(t)].active
        /\ Park(t)
        /\ driver' = [driver EXCEPT ![o].pc = "idle", ![o].task = NoTask]
        /\ UNCHANGED executor
     \/ /\ ~(serialize(t) /\ d_serial[content(t)].active)
        /\ d_serial' = IF serialize(t) THEN [d_serial EXCEPT ![content(t)].active = TRUE]
                       ELSE d_serial
        /\ executor' = [executor EXCEPT ![o] = [pc |-> "popped", task |-> t]]
        /\ driver' = [driver EXCEPT ![o].pc = "inline", ![o].task = NoTask]
  /\ UNCHANGED <<inline, task, d_ready, d_work_ready, d_outstanding, d_stop, counters>>

\* wait_completions returns: it consumes into the caller's own cursor.
Returned(o) ==
  driver' = [driver EXCEPT ![o].pc = "idle", ![o].behind = FALSE, ![o].missed = FALSE]

wait_completions(o) ==
  /\ o \in Frames /\ driver[o].pc \in {"idle", "woken"}
  /\ IF d_stop \/ driver[o].behind
     THEN Returned(o)
     ELSE driver' = [driver EXCEPT ![o].pc = "parked"]
  /\ UNCHANGED <<inline, task, queues, d_outstanding, d_stop, counters, executor>>

\* The park bound elapses.
timeout(o) ==
  /\ driver[o].pc = "parked"
  /\ Returned(o)
  /\ UNCHANGED <<inline, task, queues, d_outstanding, d_stop, counters, executor>>

\* drain_owner.  (1) purges the owner's parked tasks, (2) its ready ones, whose
\* gates pass to a surviving parked task or open, (2b) its queued jobs.
Survivors(o) == {t \in Tasks : owner(t) # o}
Kept(o, q) == Filter(q, Survivors(o))
\* Mutant: the parked tasks are forgotten.
KeptParked_All(o, c) == d_serial[c].parked
KeptParked(o, c) == Kept(o, d_serial[c].parked)
Orphaned(o) == Filter(d_ready, {t \in Tasks \ Survivors(o) : serialize(t)})
HandedOn(o) == Filter(Orphaned(o), {t \in Tasks : serialize(t) /\ KeptParked(o, content(t)) # <<>>})
Queued(q) == Range(q)
AllQueued == Queued(d_ready) \cup Queued(d_work_ready)
             \cup UNION {Queued(d_serial[c].parked) : c \in Contents}
\* Mutant: a parked task is dropped with its claim.
Purged_ReadyOnly(o) == Queued(d_ready) \ Survivors(o)
Purged(o) == AllQueued \ Survivors(o)

\* Mutant: a gate with nothing parked behind it opens, its holder running or not.
PurgedGate_Opens(o, c) ==
  IF KeptParked(o, c) = <<>> THEN OpenGate
  ELSE [d_serial[c] EXCEPT !.parked = KeptParked(o, c)]

\* Mutant: the gate of a purged task stays closed.
PurgedGate_StaysClosed(o, c) == [d_serial[c] EXCEPT !.parked = KeptParked(o, c)]

\* The gate of c after the purge.
PurgedGate(o, c) ==
  IF \A i \in DOMAIN Orphaned(o) : content(Orphaned(o)[i]) # c
  THEN [d_serial[c] EXCEPT !.parked = KeptParked(o, c)]
  ELSE IF KeptParked(o, c) = <<>> THEN OpenGate
  ELSE [d_serial[c] EXCEPT !.parked = Tail(KeptParked(o, c))]

AllAwake(ex) ==
  [e \in Executors |-> IF ex[e].pc = "asleep" THEN [ex[e] EXCEPT !.pc = "check"] ELSE ex[e]]

drain_owner(o) ==
  LET left == d_outstanding[o] - Cardinality(Purged(o))
      heirs == [i \in DOMAIN HandedOn(o) |-> Head(KeptParked(o, content(HandedOn(o)[i])))]
  IN
  /\ driver[o].pc = "idle"
  /\ d_ready' = Kept(o, d_ready) \o heirs
  /\ d_work_ready' = Kept(o, d_work_ready)
  /\ d_serial' = [c \in Contents |-> PurgedGate(o, c)]
  /\ d_dropped' = d_dropped + Cardinality(Purged(o))
  /\ d_outstanding' = [d_outstanding EXCEPT ![o] = left]
  /\ executor' = IF heirs # <<>> THEN AllAwake(executor) ELSE executor
  /\ driver' = [driver EXCEPT ![o].pc = IF left = 0 THEN "dead" ELSE "draining"]
  /\ UNCHANGED <<inline, task, d_stop, d_completed>>

\* (3) wait out the owner's started tasks; then it destroys their surfaces.
drain_again(o) ==
  /\ driver[o].pc = "recheck"
  /\ driver' = [driver EXCEPT ![o].pc = IF d_outstanding[o] = 0 THEN "dead" ELSE "draining"]
  /\ UNCHANGED <<inline, task, queues, d_outstanding, d_stop, counters, executor>>

\* The pool's owner: stop is terminal.
request_stop ==
  /\ ~d_stop /\ d_stop' = TRUE
  /\ executor' = AllAwake(executor)
  /\ driver' = Woken(driver, "parked", "woken")
  /\ UNCHANGED <<inline, task, queues, d_outstanding, counters>>

(***************************************************************************)
(* Executors: run, run_task and run_work_task.                             *)
(***************************************************************************)
At(e, pc) == executor[e].pc = pc
Goes(e, pc) == executor' = [executor EXCEPT ![e].pc = pc]
Takes(e, t) == executor' = [executor EXCEPT ![e] = [pc |-> "popped", task |-> t]]

\* Stop: abandon_queued, and the worker exits.
abandon_queued(w) ==
  /\ At(w, "check") /\ d_stop
  /\ d_ready' = <<>> /\ d_work_ready' = <<>>
  /\ d_serial' = [c \in Contents |-> [d_serial[c] EXCEPT !.parked = <<>>]]
  /\ d_dropped' = d_dropped + Cardinality(AllQueued)
  /\ d_outstanding' = [o \in Owners |-> d_outstanding[o] - Cardinality(Purged(o))]
  /\ Goes(w, "exited")
  /\ driver' = Woken(driver, "draining", "recheck")
  /\ UNCHANGED <<inline, task, d_stop, d_completed>>

\* The render lane first, then the work lane, else sleep.
pop(w) ==
  /\ At(w, "check") /\ ~d_stop
  /\ \/ /\ d_ready # <<>>
        /\ Takes(w, Head(d_ready)) /\ d_ready' = Tail(d_ready)
        /\ UNCHANGED d_work_ready
     \/ /\ d_ready = <<>> /\ d_work_ready # <<>>
        /\ Takes(w, Head(d_work_ready)) /\ d_work_ready' = Tail(d_work_ready)
        /\ UNCHANGED d_ready
     \/ /\ d_ready = <<>> /\ d_work_ready = <<>>
        /\ Goes(w, "asleep")
        /\ UNCHANGED <<d_ready, d_work_ready>>
  /\ UNCHANGED <<inline, task, d_serial, d_outstanding, d_stop, counters, driver>>

\* run_task up to the call of content->render.
start(e) ==
  LET t == executor[e].task IN
  /\ At(e, "popped")
  /\ d_serial' = IF serialize(t) THEN [d_serial EXCEPT ![content(t)].rendering = @ + 1]
                 ELSE d_serial
  /\ Goes(e, "rendering")
  /\ UNCHANGED <<inline, task, d_ready, d_work_ready, d_outstanding, d_stop, counters, driver>>

\* An asynchronous content hands `done' to a thread of its own.
hand_off(e) ==
  /\ At(e, "rendering") /\ content(executor[e].task) \in Async
  /\ task[executor[e].task].settler = "none"
  /\ task' = [task EXCEPT ![executor[e].task].settler = "has"]
  /\ UNCHANGED <<inline, queues, d_outstanding, d_stop, counters, executor, driver>>

\* render returns: a result, folded in through complete, or nullopt if the
\* content settles elsewhere.  A work job always settles.
return(e) ==
  LET t == executor[e].task IN
  /\ At(e, "rendering")
  /\ task' = IF task[t].settler # "none" THEN task ELSE [task EXCEPT ![t].done = "published"]
  /\ Goes(e, "returned")
  /\ UNCHANGED <<inline, queues, d_outstanding, d_stop, counters, driver>>

\* A completion seen settled is counted and wakes the drivers.
observe(e) ==
  /\ At(e, "returned")
  /\ IF settled(executor[e].task)
     THEN d_completed' = d_completed + 1 /\ poke
     ELSE UNCHANGED <<d_completed, driver>>
  /\ Goes(e, "observed")
  /\ UNCHANGED <<inline, task, queues, d_outstanding, d_stop, d_dropped>>

\* The render has returned: the task is not outstanding any more.
AfterRelease(e) ==
  IF serialize(executor[e].task) THEN [pc |-> "gate", task |-> executor[e].task]
  ELSE IF inline THEN [pc |-> "idle", task |-> NoTask]
  ELSE [pc |-> "check", task |-> NoTask]

\* An inline render is over: the driver goes on.
BackFrom(d, e) == IF inline THEN [d EXCEPT ![e].pc = "idle"] ELSE d

\* Mutant: the drivers in drain_owner are not notified.
release_outstanding_Silent(e) ==
  LET t == executor[e].task IN
  /\ At(e, "observed")
  /\ d_outstanding' = [d_outstanding EXCEPT ![owner(t)] = @ - 1]
  /\ executor' = [executor EXCEPT ![e] = AfterRelease(e)]
  /\ driver' = IF serialize(t) THEN driver ELSE BackFrom(driver, e)
  /\ UNCHANGED <<inline, task, queues, d_stop, counters>>

release_outstanding(e) ==
  LET t == executor[e].task
      awake == Woken(driver, "draining", "recheck")
  IN
  /\ At(e, "observed")
  /\ d_outstanding' = [d_outstanding EXCEPT ![owner(t)] = @ - 1]
  /\ executor' = [executor EXCEPT ![e] = AfterRelease(e)]
  /\ driver' = IF serialize(t) THEN awake ELSE BackFrom(awake, e)
  /\ UNCHANGED <<inline, task, queues, d_stop, counters>>

\* The gate passes to the next parked task or opens; inline, this thread
\* renders the next one too.
hand_gate(e) ==
  LET c == content(executor[e].task)
      parked == d_serial[c].parked
      idle == [executor EXCEPT ![e] = [pc |-> IF inline THEN "idle" ELSE "check", task |-> NoTask]]
  IN
  /\ At(e, "gate")
  /\ \/ /\ parked # <<>>
        /\ d_serial' = [d_serial EXCEPT ![c].rendering = @ - 1, ![c].parked = Tail(@)]
        /\ IF inline THEN Takes(e, Head(parked)) /\ UNCHANGED d_ready
           ELSE d_ready' = Append(d_ready, Head(parked)) /\ NotifyOne(idle)
        /\ UNCHANGED driver
     \/ /\ parked = <<>>
        /\ d_serial' = [d_serial EXCEPT ![c] = OpenGate]
        /\ executor' = idle
        /\ driver' = BackFrom(driver, e)
        /\ UNCHANGED d_ready
  /\ UNCHANGED <<inline, task, d_work_ready, d_outstanding, d_stop, counters>>

(***************************************************************************)
(* The thread of an asynchronous content: it settles, then pokes.  Nobody  *)
(* tells a claimed completion from a pending one.                          *)
(***************************************************************************)
try_settle(t) ==
  /\ task[t].settler = "has" /\ task[t].done = "pending"
  /\ task' = [task EXCEPT ![t].done = "published"]
  /\ UNCHANGED <<inline, queues, d_outstanding, d_stop, counters, executor, driver>>

settler_poke(t) ==
  /\ task[t].settler = "has" /\ settled(t)
  /\ task' = [task EXCEPT ![t].settler = "poked"]
  /\ poke
  /\ UNCHANGED <<inline, queues, d_outstanding, d_stop, counters, executor>>

\* Steps a running thread takes by itself, and those that are up to the host.
Step(e) ==
  \/ e \in Workers /\ (abandon_queued(e) \/ pop(e))
  \/ start(e) \/ return(e) \/ observe(e) \/ release_outstanding(e) \/ hand_gate(e)
Resume(o) ==
  \/ enqueue(o) \/ submit_inline(o) \/ drain_again(o)
  \/ driver[o].pc = "woken" /\ wait_completions(o)

Next ==
  \/ \E o \in Owners, c \in Contents \cup {Job} : submit(o, c)
  \/ \E o \in Owners : Resume(o) \/ wait_completions(o) \/ timeout(o) \/ drain_owner(o)
  \/ request_stop
  \/ \E e \in Executors : Step(e) \/ hand_off(e)
  \/ \E t \in Tasks : try_settle(t) \/ settler_poke(t)

\* The scheduler runs every thread that can run, and every render that has
\* started returns; nothing obliges a host to call, or a content to settle.
Fairness ==
  /\ \A e \in Workers \cup Owners : WF_vars(e \in Executors /\ Step(e))
  /\ \A o \in Owners : WF_vars(Resume(o))

Spec == Init /\ [][Next]_vars /\ Fairness

(***************************************************************************)
(* Properties.                                                             *)
(***************************************************************************)
Completion == {"pending", "published"}
TaskId == 0 .. MaxTasks

TypeOK ==
  /\ task \in Seq([content : Contents \cup {Job}, owner : Owners, done : Completion,
                   settler : {"none", "has", "poked"}])
  /\ d_ready \in Seq(Tasks) /\ d_work_ready \in Seq(Tasks)
  /\ d_serial \in [Contents -> [active : BOOLEAN, rendering : Nat, parked : Seq(Tasks)]]
  /\ d_outstanding \in [Owners -> Nat] /\ d_stop \in BOOLEAN
  /\ d_completed \in Nat /\ d_dropped \in Nat
  /\ executor \in [Executors ->
       [pc : {"idle", "check", "asleep", "exited", "popped", "rendering", "returned",
              "observed", "gate"}, task : TaskId]]
  /\ driver \in [Owners ->
       [pc : {"idle", "admitted", "inline", "parked", "woken", "draining", "recheck", "dead"},
        task : TaskId, behind : BOOLEAN, missed : BOOLEAN]]

Holding == {"popped", "rendering", "returned", "observed"}
Executing(e, t) == executor[e].pc \in Holding /\ executor[e].task = t
Gated(e, c) ==
  executor[e].pc \in Holding \cup {"gate"} /\ content(executor[e].task) = c

(* A content that is not thread safe never has two renders at once         *)
(* (submit: "at most one concurrent `render' call for that content"),      *)
(* through drains, hand-overs of the gate and stops.                       *)
OneRenderPerContent ==
  \A c \in NotThreadSafe :
    /\ Cardinality({e \in Executors : executor[e].pc = "rendering"
                                      /\ content(executor[e].task) = c}) <= 1
    /\ d_serial[c].rendering <= 1

(* Once drain_owner has returned the owner destroys the surfaces its tasks *)
(* render into: the pool holds none of them, queued, parked or running.    *)
DeadOwnerUntouched ==
  \A o \in Owners : driver[o].pc = "dead" =>
    /\ \A t \in AllQueued : owner(t) # o
    /\ \A e \in Executors, t \in Tasks : Executing(e, t) => owner(t) # o

\* Places a task that is outstanding can be in.
Admitted(t) == \E o \in Owners : driver[o].pc = "admitted" /\ driver[o].task = t
Outstanding(t) == Admitted(t) \/ t \in AllQueued \/ \E e \in Executors : Executing(e, t)

(* A task is never lost or run twice: the claims an owner has outstanding  *)
(* are exactly its tasks that some thread or queue still holds, in one     *)
(* place each (claim_outstanding, release_outstanding, drop_queued).       *)
ClaimsMatchTasks ==
  /\ \A o \in Owners :
       d_outstanding[o] = Cardinality({t \in Tasks : owner(t) = o /\ Outstanding(t)})
  /\ Len(d_ready) + Len(d_work_ready) + SumFunction([c \in Contents |-> Len(d_serial[c].parked)])
     = Cardinality(AllQueued)
  /\ \A e \in Executors, t \in Tasks : Executing(e, t) =>
       t \notin AllQueued /\ \A f \in Executors \ {e} : ~Executing(f, t)

(* Before a stop, a closed gate has exactly one holder, queued or running, *)
(* so that a parked task is never behind one that will not run             *)
(* (drain_owner: "or the content's `active' flag stays set forever").      *)
GateHasHolder ==
  ~d_stop => \A c \in NotThreadSafe :
    LET holders == {t \in Queued(d_ready) : content(t) = c}
                   \cup {e \in Executors : Gated(e, c)}
    IN /\ d_serial[c].active <=> holders # {}
       /\ Cardinality(holders) <= 1
       /\ d_serial[c].parked # <<>> => d_serial[c].active

(* No settlement is consumed on behalf of another driver: one that sleeps  *)
(* in wait_completions has seen every settlement there is, and no stop has *)
(* passed it by (CompletionCursor, poke, request_stop).                    *)
NoStolenWake ==
  \A o \in Owners : driver[o].pc = "parked" => ~driver[o].missed /\ ~d_stop

\* Tasks that returned without their completion settled: nothing counts them.
LeftToSettler == {t \in Tasks : ~Outstanding(t) /\ task[t].settler # "none"}
Running == \E e \in Executors : executor[e].pc \in Holding

(* At quiescence the counters account for every task submitted: completed, *)
(* dropped, still outstanding, or left to a content that settles it        *)
(* elsewhere (the accounting identity of submit_work and tasks_dropped).   *)
AccountingCloses ==
  ~Running =>
    LET accounted == d_completed + d_dropped + SumFunction(d_outstanding)
    IN accounted <= Len(task) /\ Len(task) <= accounted + Cardinality(LeftToSettler)

(* The gate of a content that is not thread safe does its work: one render *)
(* at a time, and while it is closed somebody holds it who will pass it    *)
(* on, through drains, hand-overs and stops (submit, run, drain_owner).    *)
GatesSound == OneRenderPerContent /\ GateHasHolder

(* Every task that was submitted is accounted for, in the claims of its    *)
(* owner, in the queues and in the counters, at every moment between       *)
(* submission and settlement (claim_outstanding, release_outstanding,      *)
(* drop_queued, tasks_completed, tasks_dropped).                           *)
TasksAccounted == TypeOK /\ ClaimsMatchTasks /\ AccountingCloses


(* A render that is queued is started or dropped, however gates pass and   *)
(* owners drain, until the pool is stopped.                                *)
QueuedRuns ==
  \A t \in 1 .. MaxTasks :
    t \in AllQueued /\ content(t) # Job /\ ~d_stop ~> t \notin AllQueued \/ d_stop

(* drain_owner returns, whatever contents do with their completions and    *)
(* whether or not the pool is stopped ("terminate unconditionally").       *)
DrainReturns ==
  \A o \in Owners : driver[o].pc = "draining" ~> driver[o].pc = "dead"
=============================================================================
