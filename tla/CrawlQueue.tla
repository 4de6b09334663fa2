----------------------------- MODULE CrawlQueue -----------------------------
(***************************************************************************)
(* The durable crawl queue (crawlQueue.js over store.js) with the          *)
(* processes that use it: clients that enqueue or requeue (a scheduler's   *)
(* crawlSlice, a manual fetch, an operator route) and workers that lease a *)
(* batch, keep a COPY of every leased document and later write an updated  *)
(* copy back (crawlSlice in scheduler.js).  The store makes single reads,  *)
(* single writes and the lease atomic; nothing else is.                    *)
(***************************************************************************)
EXTENDS CrawlTask, FiniteSets

CONSTANTS
    Client,       \* processes that enqueue and requeue
    Source,       \* the registered sources
    MaxWindow,    \* bound: due-windows are 1..MaxWindow
    BatchLimit,   \* the limit of one lease call (sourcesPerTick)
    MaxCrashes,   \* bound: how many crashes a behaviour may have
    NoTask,       \* a worker between two tasks
    Timely        \* TRUE: no live worker ever lets a lease it holds run out

ASSUME CrawlQueueAssumption ==
    /\ MaxWindow \in Nat \ {0}
    /\ BatchLimit \in Nat \ {0}
    /\ MaxCrashes \in Nat
    /\ Timely \in BOOLEAN
    /\ NoTask \notin Source \X (1 .. MaxWindow)

Window == 1 .. MaxWindow
TaskId == Source \X Window     \* crawlTaskId(idempotencyKeyFor(source))

VARIABLES
    task,      \* the stored documents
    window,    \* the current due-window of each source
    intent,    \* the document a client is about to put, after its read
    held,      \* a worker's copies of the documents it leased
    running,   \* the task whose crawl the worker is running
    reached,   \* the cursor that crawl has checkpointed, 0 before the first
    batch,     \* "filling" while lease() loops, then "draining"
    crashes,   \* how many crashes have happened
    granted    \* history: ticks a worker may still count on its own lease

vars == <<task, window, intent, held, running, reached, batch,
          crashes, granted>>
workerVars == <<held, running, reached, batch, crashes, granted>>
clientVars == <<intent, window>>

Pending == [id : TaskId, doc : Doc]

Holds(w, t) == held[w][t].state # "ABSENT"
Idle(w) == \A t \in TaskId : ~Holds(w, t)

Init ==
    /\ task     = [t \in TaskId |-> Absent]
    /\ window   = [s \in Source |-> 1]
    /\ intent   = [c \in Client |-> {}]
    /\ held     = [w \in Worker |-> [t \in TaskId |-> Absent]]
    /\ running  = [w \in Worker |-> NoTask]
    /\ reached  = [w \in Worker |-> 0]
    /\ batch    = [w \in Worker |-> "filling"]
    /\ crashes  = 0
    /\ granted  = [w \in Worker |-> [t \in TaskId |-> 0]]

-----------------------------------------------------------------------------
(* Clients.  enqueue and requeueDeadLetter read, await, and put.           *)

enqueueRead(c, s) ==
    LET t == <<s, window[s]>> IN
    /\ intent[c] = {}
    /\ task[t].state \in {"ABSENT", "DEAD"}   \* else deduped: nothing is written
    /\ intent' = [intent EXCEPT ![c] = {[id |-> t, doc |-> makeCrawlTask]}]
    /\ UNCHANGED <<task, window, workerVars>>

requeueRead(c, t) ==
    /\ intent[c] = {}
    /\ task[t].state = "DEAD"
    /\ intent' = [intent EXCEPT ![c] = {[id |-> t, doc |-> requeued(task[t])]}]
    /\ UNCHANGED <<task, window, workerVars>>

putIntent(c) ==
    /\ \E p \in intent[c] : task' = [task EXCEPT ![p.id] = p.doc]
    /\ intent' = [intent EXCEPT ![c] = {}]
    /\ UNCHANGED <<window, workerVars>>

-----------------------------------------------------------------------------
(* Workers: crawlSlice leases a batch and drains it one task at a time.    *)

lease(w, t) ==
    /\ batch[w] = "filling"
    /\ Cardinality({u \in TaskId : Holds(w, u)}) < BatchLimit
    /\ ~Holds(w, t)
    /\ Due(task[t])
    /\ task' = [task EXCEPT ![t] = leased(@, w)]
    /\ held' = [held EXCEPT ![w][t] = leased(task[t], w)]
    /\ granted' = [granted EXCEPT ![w][t] = LeaseTicks]
    /\ UNCHANGED <<clientVars, running, reached, batch, crashes>>

startRun(w, t) ==
    /\ running[w] = NoTask
    /\ Holds(w, t)
    /\ running' = [running EXCEPT ![w] = t]
    /\ batch' = [batch EXCEPT ![w] = "draining"]
    /\ UNCHANGED <<task, clientVars, held, reached, crashes, granted>>

\* A page with a next cursor was ingested.  The copy in hand is not refreshed:
\* the document checkpoint() returns is dropped by crawlSlice.
checkpointRun(w, c) ==
    /\ running[w] # NoTask
    /\ c > reached[w]
    /\ c > held[w][running[w]].checkpoint
    /\ reached' = [reached EXCEPT ![w] = c]
    /\ task' = [task EXCEPT ![running[w]] = checkpoint(held[w][running[w]], c)]
    /\ granted' = [granted EXCEPT ![w][running[w]] = LeaseTicks]
    /\ UNCHANGED <<clientVars, held, running, batch, crashes>>

\* Putting the document that ends a task's turn, and dropping the copy.
Settle(w, t, doc) ==
    /\ task' = [task EXCEPT ![t] = doc]
    /\ held' = [held EXCEPT ![w][t] = Absent]
    /\ granted' = [granted EXCEPT ![w][t] = 0]
    /\ running' = [running EXCEPT ![w] = NoTask]
    /\ reached' = [reached EXCEPT ![w] = 0]
    /\ batch' = [batch EXCEPT ![w] =
                   IF \E u \in TaskId \ {t} : Holds(w, u) THEN "draining" ELSE "filling"]
    /\ UNCHANGED <<clientVars, crashes>>

\* The execution deadline passed before this task's turn came.
deferUnstarted(w, t) ==
    /\ running[w] = NoTask
    /\ Holds(w, t)
    /\ Settle(w, t, defer(held[w][t], held[w][t].checkpoint))

\* r.ok && r.partial: at least one page was ingested, and there is a next one.
deferRun(w) ==
    /\ running[w] # NoTask
    /\ reached[w] # 0
    /\ Settle(w, running[w], defer(held[w][running[w]], reached[w]))

completeRun(w) ==
    /\ running[w] # NoTask
    /\ Settle(w, running[w], complete(held[w][running[w]]))

\* A failed run; also a task whose source is gone, which fails before running.
fail(w, t, error) ==
    /\ \/ running[w] = t
       \/ running[w] = NoTask /\ Holds(w, t) /\ error \notin NonRetryable
    /\ \E doc \in failOutcomes(held[w][t], error) : Settle(w, t, doc)

-----------------------------------------------------------------------------
(* The environment. *)

\* A worker process dies; another (with the same id, after a restart) takes
\* its place, with nothing in hand.
crash(w) ==
    /\ crashes < MaxCrashes
    /\ ~Idle(w)
    /\ crashes' = crashes + 1
    /\ held' = [held EXCEPT ![w] = [t \in TaskId |-> Absent]]
    /\ granted' = [granted EXCEPT ![w] = [t \in TaskId |-> 0]]
    /\ running' = [running EXCEPT ![w] = NoTask]
    /\ reached' = [reached EXCEPT ![w] = 0]
    /\ batch' = [batch EXCEPT ![w] = "filling"]
    /\ UNCHANGED <<task, clientVars>>

NextWindow(s) ==
    /\ window[s] < MaxWindow
    /\ window' = [window EXCEPT ![s] = @ + 1]
    /\ UNCHANGED <<task, intent, workerVars>>

Tick ==
    /\ Timely => \A w \in Worker, t \in TaskId : granted[w][t] # 1
    /\ task' = [t \in TaskId |-> Aged(task[t])]
    /\ held' = [w \in Worker |-> [t \in TaskId |-> Aged(held[w][t])]]
    /\ granted' = [w \in Worker |-> [t \in TaskId |-> Less(granted[w][t])]]
    /\ UNCHANGED <<clientVars, running, reached, batch, crashes>>

ClientStep(c) ==
    \/ \E s \in Source : enqueueRead(c, s)
    \/ \E t \in TaskId : requeueRead(c, t)
    \/ putIntent(c)

WorkerStep(w) ==
    \/ \E t \in TaskId : lease(w, t)
    \/ \E t \in TaskId : startRun(w, t)
    \/ \E c \in Cursor : checkpointRun(w, c)
    \/ \E t \in TaskId : deferUnstarted(w, t)
    \/ deferRun(w)
    \/ completeRun(w)
    \/ \E t \in TaskId, error \in ErrorClass : fail(w, t, error)

Next ==
    \/ \E c \in Client : ClientStep(c)
    \/ \E w \in Worker : WorkerStep(w)
    \/ \E w \in Worker : crash(w)
    \/ \E s \in Source : NextWindow(s)
    \/ Tick

Spec == Init /\ [][Next]_vars

\* Time passes; a client that has read goes on to put; a worker that has taken
\* tasks works through them and, leasing and crawling often enough, does both
\* (runForever and the cron trigger repeat crawlSlice).  A checkpoint, a
\* deferral, a failure or a crash is never bound to happen.  completeRun stands
\* for a run that meets its last page: a board has finitely many, so a task
\* that is started again and again is completed in the end.
Fairness ==
    /\ WF_vars(Tick)
    /\ \A c \in Client : WF_vars(putIntent(c))
    /\ \A t \in TaskId : SF_vars(\E w \in Worker : lease(w, t))
    /\ \A w \in Worker : WF_vars(WorkerStep(w))
    /\ \A t \in TaskId :
          SF_vars(\E w \in Worker : startRun(w, t))
    /\ \A t \in TaskId :
          SF_vars(\E w \in Worker : running[w] = t /\ completeRun(w))

FairSpec == Spec /\ Fairness

-----------------------------------------------------------------------------
(* Properties *)

\* Every variable has its type; in particular a document is never torn.
TypeOK ==
    /\ task \in [TaskId -> Doc]
    /\ window \in [Source -> Window]
    /\ intent \in [Client -> SUBSET Pending]
    /\ held \in [Worker -> [TaskId -> Doc]]
    /\ running \in [Worker -> TaskId \cup {NoTask}]
    /\ reached \in [Worker -> Cursor]
    /\ batch \in [Worker -> {"filling", "draining"}]
    /\ crashes \in Nat
    /\ granted \in [Worker -> [TaskId -> 0 .. LeaseTicks]]

\* "An expired lease is reclaimed automatically" (crawlQueue.js:21): whatever
\* stale copies have been written over it, a LEASED document names an owner and
\* is not also waiting for a later instant, so the moment its lease runs out the
\* store's lease query finds it.
ExpiredLeaseIsDue ==
    \A t \in TaskId : task[t].state = "LEASED" =>
        /\ task[t].leaseOwner \in Worker
        /\ task[t].leaseLeft = 0 => Due(task[t])

\* A document says LEASED only while the worker it names has a copy of it in
\* hand, or after that worker crashed: a settled task is never left behind
\* looking leased, even when workers with expired leases write over each other.
NoStrandedLease ==
    crashes = 0 => \A t \in TaskId :
        task[t].state = "LEASED" => Holds(task[t].leaseOwner, t)

\* At most one worker at a time is crawling a task under a lease it may still
\* rely on (crawlQueue.js:20-21, store.js "two workers can never take the same
\* task").
OneCrawlAtATime ==
    \A t \in TaskId, v, w \in Worker :
        granted[v][t] > 0 /\ granted[w][t] > 0 => v = w

\* The queue's abstract promise, with a task open while it is PENDING, LEASED
\* or RETRY and worked on by whoever holds a copy of it; a DEAD one may be queued again.
statusOf(doc) ==
    CASE doc.state = "ABSENT" -> "none"
      [] doc.state = "DONE"   -> "done"
      [] doc.state = "DEAD"   -> "shelved"
      [] OTHER                -> "open"

Abstract ==
    INSTANCE LeaseQueue WITH
        Task      <- TaskId,
        status    <- [t \in TaskId |-> statusOf(task[t])],
        workingOn <- [w \in Worker |-> {t \in TaskId : Holds(w, t)}]

\* While no worker outlives its lease and one process enqueues, the queue of
\* documents implements the promise: every operation is a step of it.
KeepsPromise == Abstract!Spec

\* Nothing queued is forgotten: it ends DONE or DEAD, through any crash, as long
\* as time goes on and some worker keeps leasing and crawling.
EveryTaskSettles ==
    \A t \in TaskId : []<>(task[t].state \in {"ABSENT", "DONE", "DEAD"})
=============================================================================
