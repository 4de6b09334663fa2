-------------------------- MODULE CrawlQueueProofs --------------------------
(***************************************************************************)
(* Proofs about CrawlQueue for every number of workers, clients, sources   *)
(* and windows, every lease length and attempt limit.                      *)
(***************************************************************************)
EXTENDS CrawlQueue, TLAPS

\* What makes the queue's guarantees inductive: a copy in a worker's hand is
\* always one that was taken under a lease in that worker's name, and was due
\* then; only held tasks run; and what a client is about to put is PENDING.
CopiesAreLeases ==
    \A w \in Worker, t \in TaskId : Holds(w, t) =>
        /\ held[w][t].state = "LEASED"
        /\ held[w][t].leaseOwner = w
        /\ held[w][t].waitLeft = 0

RunningIsHeld == \A w \in Worker, t \in TaskId : running[w] = t => Holds(w, t)

IntentsArePending == \A c \in Client : \A p \in intent[c] : p.doc.state = "PENDING"

LeasedIsOwned ==
    \A t \in TaskId : task[t].state = "LEASED" =>
        task[t].leaseOwner \in Worker /\ task[t].waitLeft = 0

IInv == /\ TypeOK
        /\ CopiesAreLeases
        /\ RunningIsHeld
        /\ IntentsArePending
        /\ LeasedIsOwned
        /\ NoStrandedLease

-----------------------------------------------------------------------------
(* What the operations write. *)

\* The two documents that exist before any lease are documents.
LEMMA BlankType == Absent \in Doc /\ makeCrawlTask \in Doc
  BY CrawlTaskAssumption DEF Absent, makeCrawlTask, Blank, Doc, CRAWL_STATE, Cursor

\* A lease writes a document, LEASED in the worker's name.
LEMMA LeasedType ==
  ASSUME NEW d \in Doc, NEW w \in Worker
  PROVE  /\ leased(d, w) \in Doc
         /\ leased(d, w).state = "LEASED"
         /\ leased(d, w).leaseOwner = w
         /\ leased(d, w).leaseLeft = LeaseTicks
         /\ leased(d, w).waitLeft = d.waitLeft
<1> DEFINE n == IF d.attempts > MaxAttempts THEN d.attempts ELSE d.attempts + 1
<1>1. n \in 0 .. MaxAttempts + 1
  BY CrawlTaskAssumption DEF Doc
<1>2. LeaseTicks \in 0 .. LeaseTicks /\ "LEASED" \in CRAWL_STATE
  BY CrawlTaskAssumption DEF CRAWL_STATE
<1>3. leased(d, w) = [d EXCEPT !.state = "LEASED", !.leaseOwner = w,
                               !.leaseLeft = LeaseTicks, !.attempts = n]
  BY DEF leased
<1> HIDE DEF n
<1> QED BY <1>1, <1>2, <1>3 DEF Doc

\* A checkpoint changes the cursor and extends the lease, nothing else.
LEMMA CheckpointType ==
  ASSUME NEW d \in Doc, NEW c \in Cursor
  PROVE  /\ checkpoint(d, c) \in Doc
         /\ checkpoint(d, c).state = d.state
         /\ checkpoint(d, c).leaseOwner = d.leaseOwner
         /\ checkpoint(d, c).waitLeft = d.waitLeft
         /\ checkpoint(d, c).leaseLeft = LeaseTicks
<1>1. LeaseTicks \in 0 .. LeaseTicks
  BY CrawlTaskAssumption
<1> QED BY <1>1 DEF checkpoint, Doc

\* The documents that end a turn are documents and are not LEASED.
LEMMA DeferType ==
  ASSUME NEW d \in Doc, NEW c \in Cursor
  PROVE  defer(d, c) \in Doc /\ defer(d, c).state = "RETRY"
<1>1. 0 \in 0 .. LeaseTicks /\ 0 \in Nat /\ "RETRY" \in CRAWL_STATE
  BY CrawlTaskAssumption DEF CRAWL_STATE
<1>2. (IF c # 0 THEN c ELSE d.checkpoint) \in Cursor
  BY DEF Doc
<1> QED BY <1>1, <1>2 DEF defer, unleased, Doc

LEMMA CompleteType ==
  ASSUME NEW d \in Doc
  PROVE  complete(d) \in Doc /\ complete(d).state = "DONE"
<1>1. 0 \in 0 .. LeaseTicks /\ 0 \in Cursor /\ "DONE" \in CRAWL_STATE
  BY CrawlTaskAssumption DEF CRAWL_STATE, Cursor
<1> QED BY <1>1 DEF complete, unleased, Doc

LEMMA FailType ==
  ASSUME NEW d \in Doc, NEW e \in ErrorClass, NEW x \in failOutcomes(d, e)
  PROVE  x \in Doc /\ x.state \in {"DEAD", "RETRY"}
<1>0. 0 \in 0 .. LeaseTicks /\ "DEAD" \in CRAWL_STATE /\ "RETRY" \in CRAWL_STATE
  BY CrawlTaskAssumption DEF CRAWL_STATE
<1>1. CASE GivesUp(d, e)
  <2>1. x = dead(d, e)
    BY <1>1 DEF failOutcomes
  <2> QED BY <1>0, <2>1 DEF dead, unleased, Doc
<1>2. CASE ~GivesUp(d, e)
  <2>1. PICK y \in RetryDelays(d.attempts) : x = retry(d, e, y)
    BY <1>2 DEF failOutcomes
  <2>2. y \in Nat
    BY <2>1, CrawlTaskAssumption DEF RetryDelays
  <2> QED BY <1>0, <2>1, <2>2 DEF retry, unleased, Doc
<1> QED BY <1>1, <1>2

LEMMA RequeuedType ==
  ASSUME NEW d \in Doc
  PROVE  requeued(d) \in Doc /\ requeued(d).state = "PENDING"
<1>1. 0 \in 0 .. MaxAttempts + 1 /\ 0 \in Nat /\ "PENDING" \in CRAWL_STATE
  BY CrawlTaskAssumption DEF CRAWL_STATE
<1>2. requeued(d) \in Doc
  BY <1>1 DEF requeued, Doc
<1>3. requeued(d).state = "PENDING"
  BY DEF requeued, Doc
<1> QED BY <1>2, <1>3

\* A tick changes only the two timers, and never restarts them.
LEMMA AgedType ==
  ASSUME NEW d \in Doc
  PROVE  /\ Aged(d) \in Doc
         /\ Aged(d).state = d.state
         /\ Aged(d).leaseOwner = d.leaseOwner
         /\ d.waitLeft = 0 => Aged(d).waitLeft = 0
         /\ Aged(d).leaseLeft = Less(d.leaseLeft)
<1>1. d.waitLeft \in Nat /\ d.leaseLeft \in 0 .. LeaseTicks
  BY DEF Doc
<1>2. Less(d.waitLeft) \in Nat /\ Less(d.leaseLeft) \in 0 .. LeaseTicks
  BY <1>1, CrawlTaskAssumption DEF Less
<1>3. d.waitLeft = 0 => Less(d.waitLeft) = 0
  BY DEF Less
<1> QED BY <1>2, <1>3 DEF Aged, Doc

-----------------------------------------------------------------------------
(* The invariant holds at the start and is kept by every action. *)

LEMMA InitIInv == Init => IInv
<1> SUFFICES ASSUME Init PROVE IInv
  OBVIOUS
<1>1. TypeOK
  BY BlankType, CrawlTaskAssumption, CrawlQueueAssumption
     DEF Init, TypeOK, Window, Cursor
<1>2. \A t \in TaskId : task[t].state = "ABSENT"
  BY DEF Init, Absent, Blank
<1>3. \A w \in Worker, t \in TaskId : ~Holds(w, t)
  BY DEF Init, Holds, Absent, Blank
<1>4. \A w \in Worker, t \in TaskId : running[w] # t
  BY CrawlQueueAssumption DEF Init, TaskId, Window
<1>5. IntentsArePending
  BY DEF Init, IntentsArePending
<1> QED
  BY <1>1, <1>2, <1>3, <1>4, <1>5
     DEF IInv, CopiesAreLeases, RunningIsHeld, LeasedIsOwned, NoStrandedLease

LEMMA ClientKeepsIInv ==
  ASSUME IInv, NEW c \in Client, ClientStep(c)
  PROVE  IInv'
<1> USE DEF IInv
<1>1. ASSUME NEW s \in Source, enqueueRead(c, s)
      PROVE  IInv'
  <2>1. <<s, window[s]>> \in TaskId
    BY DEF TypeOK, TaskId
  <2>2. intent' \in [Client -> SUBSET Pending]
    BY <1>1, <2>1, BlankType DEF enqueueRead, TypeOK, Pending
  <2>3. IntentsArePending'
    BY <1>1 DEF enqueueRead, IntentsArePending, makeCrawlTask, Blank, TypeOK
  <2> QED
    BY <1>1, <2>2, <2>3 DEF enqueueRead, workerVars, TypeOK, CopiesAreLeases,
       RunningIsHeld, LeasedIsOwned, NoStrandedLease, Holds
<1>2. ASSUME NEW t \in TaskId, requeueRead(c, t)
      PROVE  IInv'
  <2>1. requeued(task[t]) \in Doc /\ requeued(task[t]).state = "PENDING"
    BY RequeuedType DEF TypeOK
  <2>2. intent' \in [Client -> SUBSET Pending]
    BY <1>2, <2>1 DEF requeueRead, TypeOK, Pending
  <2>3. IntentsArePending'
    BY <1>2, <2>1 DEF requeueRead, IntentsArePending, TypeOK
  <2> QED
    BY <1>2, <2>2, <2>3 DEF requeueRead, workerVars, TypeOK, CopiesAreLeases,
       RunningIsHeld, LeasedIsOwned, NoStrandedLease, Holds
<1>3. ASSUME putIntent(c)
      PROVE  IInv'
  <2>1. PICK p \in intent[c] : task' = [task EXCEPT ![p.id] = p.doc]
    BY <1>3 DEF putIntent
  <2>2. p.id \in TaskId /\ p.doc \in Doc /\ p.doc.state = "PENDING"
    BY <2>1 DEF TypeOK, Pending, IntentsArePending
  <2>3. intent' = [intent EXCEPT ![c] = {}]
    BY <1>3 DEF putIntent
  <2>4. task' \in [TaskId -> Doc]
    BY <2>1, <2>2 DEF TypeOK
  <2>5. intent' \in [Client -> SUBSET Pending] /\ IntentsArePending'
    BY <2>3 DEF TypeOK, IntentsArePending
  <2>6. \A t \in TaskId : task'[t].state = "LEASED" => task'[t] = task[t]
    BY <2>1, <2>2 DEF TypeOK
  <2>7. UNCHANGED <<window, workerVars>>
    BY <1>3 DEF putIntent
  <2> QED
    BY <2>4, <2>5, <2>6, <2>7 DEF workerVars, TypeOK, CopiesAreLeases,
       RunningIsHeld, LeasedIsOwned, NoStrandedLease, Holds
<1> QED BY <1>1, <1>2, <1>3 DEF ClientStep

\* Settling a held task with a document that is not LEASED: the put and the
\* dropping of the copy go together, so nobody is left named by the document.
LEMMA SettleKeepsIInv ==
  ASSUME IInv, NEW w \in Worker, NEW t \in TaskId, Holds(w, t),
         NEW doc \in Doc, doc.state # "LEASED", Settle(w, t, doc)
  PROVE  IInv'
<1> USE DEF IInv
<1>1. /\ task' = [task EXCEPT ![t] = doc]
      /\ held' = [held EXCEPT ![w][t] = Absent]
      /\ granted' = [granted EXCEPT ![w][t] = 0]
      /\ running' = [running EXCEPT ![w] = NoTask]
      /\ reached' = [reached EXCEPT ![w] = 0]
      /\ intent' = intent /\ window' = window /\ crashes' = crashes
  BY DEF Settle, clientVars
<1>2. batch' \in [Worker -> {"filling", "draining"}]
  BY DEF Settle, TypeOK
<1>3. TypeOK'
  <2>1. task' \in [TaskId -> Doc] /\ held' \in [Worker -> [TaskId -> Doc]]
    BY <1>1, BlankType DEF TypeOK
  <2>2. 0 \in 0 .. LeaseTicks /\ 0 \in Cursor
    BY CrawlTaskAssumption DEF Cursor
  <2>3. /\ granted' \in [Worker -> [TaskId -> 0 .. LeaseTicks]]
        /\ reached' \in [Worker -> Cursor]
        /\ running' \in [Worker -> TaskId \cup {NoTask}]
    BY <1>1, <2>2 DEF TypeOK
  <2> QED BY <1>1, <1>2, <2>1, <2>3 DEF TypeOK
<1>4. \A v \in Worker, u \in TaskId :
         Holds(v, u)' <=> Holds(v, u) /\ ~(v = w /\ u = t)
  BY <1>1 DEF Holds, TypeOK, Absent, Blank
<1>5. \A v \in Worker, u \in TaskId : Holds(v, u)' => held'[v][u] = held[v][u]
  BY <1>1, <1>4 DEF TypeOK
<1>6. CopiesAreLeases'
  BY <1>4, <1>5 DEF CopiesAreLeases
<1>7. RunningIsHeld'
  <2> SUFFICES ASSUME NEW v \in Worker, NEW u \in TaskId, running'[v] = u
               PROVE  Holds(v, u)'
    BY DEF RunningIsHeld
  <2>1. v # w
    BY <1>1, CrawlQueueAssumption DEF TypeOK, TaskId, Window
  <2> QED BY <1>1, <1>4, <2>1 DEF RunningIsHeld, TypeOK
<1>8. IntentsArePending'
  BY <1>1 DEF IntentsArePending
<1>9. LeasedIsOwned'
  BY <1>1 DEF LeasedIsOwned, TypeOK
<1>10. NoStrandedLease'
  <2> SUFFICES ASSUME crashes = 0, NEW u \in TaskId, task'[u].state = "LEASED"
               PROVE  Holds(task[u].leaseOwner, u)'
    BY <1>1 DEF NoStrandedLease
  <2>1. u # t /\ task'[u] = task[u]
    BY <1>1 DEF TypeOK
  <2> QED BY <1>4, <2>1 DEF NoStrandedLease, LeasedIsOwned, Holds
<1> QED BY <1>3, <1>6, <1>7, <1>8, <1>9, <1>10

LEMMA LeaseKeepsIInv ==
  ASSUME IInv, NEW w \in Worker, NEW t \in TaskId, lease(w, t)
  PROVE  IInv'
<1> USE DEF IInv
<1> DEFINE d == leased(task[t], w)
<1>1. /\ d \in Doc /\ d.state = "LEASED" /\ d.leaseOwner = w /\ d.waitLeft = 0
      /\ task' = [task EXCEPT ![t] = d]
      /\ held' = [held EXCEPT ![w][t] = d]
      /\ granted' = [granted EXCEPT ![w][t] = LeaseTicks]
      /\ UNCHANGED <<clientVars, running, reached, batch, crashes>>
  BY LeasedType DEF lease, Due, TypeOK
<1> HIDE DEF d
<1>2. TypeOK'
  BY <1>1, CrawlTaskAssumption DEF TypeOK, clientVars
<1>3. \A v \in Worker, u \in TaskId :
         Holds(v, u)' <=> Holds(v, u) \/ (v = w /\ u = t)
  BY <1>1 DEF Holds, TypeOK
<1>4. CopiesAreLeases'
  BY <1>1, <1>3 DEF CopiesAreLeases, TypeOK
<1>5. RunningIsHeld' /\ IntentsArePending'
  BY <1>1, <1>3 DEF RunningIsHeld, IntentsArePending, clientVars
<1>6. LeasedIsOwned'
  BY <1>1 DEF LeasedIsOwned, TypeOK
<1>7. NoStrandedLease'
  <2> SUFFICES ASSUME crashes = 0, NEW u \in TaskId, task'[u].state = "LEASED"
               PROVE  Holds(task[u].leaseOwner, u)'
    BY <1>1 DEF NoStrandedLease
  <2>1. CASE u = t
    BY <1>1, <1>3, <2>1 DEF TypeOK, Holds
  <2>2. CASE u # t
    BY <1>1, <1>3, <2>2 DEF TypeOK, NoStrandedLease, LeasedIsOwned, Holds
  <2> QED BY <2>1, <2>2
<1> QED BY <1>2, <1>4, <1>5, <1>6, <1>7

LEMMA CheckpointKeepsIInv ==
  ASSUME IInv, NEW w \in Worker, NEW c \in Cursor, checkpointRun(w, c)
  PROVE  IInv'
<1> USE DEF IInv
<1> DEFINE t == running[w]
           d == checkpoint(held[w][t], c)
<1>1. t \in TaskId /\ Holds(w, t)
  BY DEF checkpointRun, TypeOK, RunningIsHeld
<1>2. /\ d \in Doc /\ d.state = "LEASED" /\ d.leaseOwner = w /\ d.waitLeft = 0
      /\ task' = [task EXCEPT ![t] = d]
      /\ reached' = [reached EXCEPT ![w] = c]
      /\ granted' = [granted EXCEPT ![w][t] = LeaseTicks]
      /\ UNCHANGED <<clientVars, held, running, batch, crashes>>
  <2>1. held[w][t] \in Doc /\ held[w][t].state = "LEASED"
        /\ held[w][t].leaseOwner = w /\ held[w][t].waitLeft = 0
    BY <1>1 DEF CopiesAreLeases, TypeOK
  <2>2. d \in Doc /\ d.state = "LEASED" /\ d.leaseOwner = w /\ d.waitLeft = 0
    BY <2>1, CheckpointType
  <2> QED BY <2>2 DEF checkpointRun
<1> HIDE DEF d, t
<1>3. TypeOK'
  BY <1>1, <1>2, CrawlTaskAssumption DEF TypeOK, clientVars
<1>4. \A v \in Worker, u \in TaskId : Holds(v, u)' <=> Holds(v, u)
  BY <1>2 DEF Holds
<1>5. CopiesAreLeases' /\ RunningIsHeld' /\ IntentsArePending'
  BY <1>2, <1>4 DEF CopiesAreLeases, RunningIsHeld, IntentsArePending, clientVars
<1>6. LeasedIsOwned'
  BY <1>2 DEF LeasedIsOwned, TypeOK
<1>7. NoStrandedLease'
  <2> SUFFICES ASSUME crashes = 0, NEW u \in TaskId, task'[u].state = "LEASED"
               PROVE  Holds(task[u].leaseOwner, u)'
    BY <1>2 DEF NoStrandedLease
  <2>1. CASE u = t
    BY <1>1, <1>2, <1>4, <2>1 DEF TypeOK, Holds
  <2>2. CASE u # t
    BY <1>2, <1>4, <2>2 DEF TypeOK, NoStrandedLease, LeasedIsOwned, Holds
  <2> QED BY <2>1, <2>2
<1> QED BY <1>3, <1>5, <1>6, <1>7

LEMMA WorkerKeepsIInv ==
  ASSUME IInv, NEW w \in Worker, WorkerStep(w)
  PROVE  IInv'
<1>0. running[w] # NoTask => running[w] \in TaskId /\ Holds(w, running[w])
  BY DEF IInv, TypeOK, RunningIsHeld
<1>1. ASSUME NEW t \in TaskId, lease(w, t) PROVE IInv'
  BY <1>1, LeaseKeepsIInv
<1>2. ASSUME NEW t \in TaskId, startRun(w, t) PROVE IInv'
  <2>1. TypeOK'
    BY <1>2 DEF IInv, startRun, TypeOK, clientVars
  <2>2. RunningIsHeld'
    BY <1>2 DEF IInv, startRun, TypeOK, RunningIsHeld, Holds
  <2> QED
    BY <1>2, <2>1, <2>2 DEF IInv, startRun, clientVars, CopiesAreLeases, IntentsArePending,
       LeasedIsOwned, NoStrandedLease, Holds
<1>3. ASSUME NEW c \in Cursor, checkpointRun(w, c) PROVE IInv'
  BY <1>3, CheckpointKeepsIInv
<1>4. ASSUME NEW t \in TaskId, deferUnstarted(w, t) PROVE IInv'
  <2>1. held[w][t] \in Doc /\ held[w][t].checkpoint \in Cursor
    BY DEF IInv, TypeOK, Doc
  <2> QED
    BY <1>4, <2>1, DeferType, SettleKeepsIInv DEF deferUnstarted
<1>5. ASSUME deferRun(w) PROVE IInv'
  <2>1. held[w][running[w]] \in Doc /\ reached[w] \in Cursor
    BY <1>0, <1>5 DEF IInv, TypeOK, deferRun
  <2> QED
    BY <1>0, <1>5, <2>1, DeferType, SettleKeepsIInv DEF deferRun
<1>6. ASSUME completeRun(w) PROVE IInv'
  <2>1. held[w][running[w]] \in Doc
    BY <1>0, <1>6 DEF IInv, TypeOK, completeRun
  <2> QED
    BY <1>0, <1>6, <2>1, CompleteType, SettleKeepsIInv DEF completeRun
<1>7. ASSUME NEW t \in TaskId, NEW e \in ErrorClass, fail(w, t, e) PROVE IInv'
  <2>1. held[w][t] \in Doc /\ Holds(w, t)
    BY <1>7 DEF IInv, TypeOK, fail, RunningIsHeld
  <2>2. PICK doc \in failOutcomes(held[w][t], e) : Settle(w, t, doc)
    BY <1>7 DEF fail
  <2> QED
    BY <2>1, <2>2, FailType, SettleKeepsIInv
<1> QED
  BY <1>1, <1>2, <1>3, <1>4, <1>5, <1>6, <1>7 DEF WorkerStep

LEMMA EnvironmentKeepsIInv ==
  ASSUME IInv,
         \/ \E w \in Worker : crash(w)
         \/ \E s \in Source : NextWindow(s)
         \/ Tick
  PROVE  IInv'
<1> USE DEF IInv
<1>1. ASSUME NEW w \in Worker, crash(w) PROVE IInv'
  <2>1. \A v \in Worker, u \in TaskId : Holds(v, u)' <=> Holds(v, u) /\ v # w
    BY <1>1 DEF crash, Holds, TypeOK, Absent, Blank
  <2>2. TypeOK'
    BY <1>1, BlankType, CrawlTaskAssumption DEF crash, TypeOK, clientVars, Cursor
  <2>3. CopiesAreLeases'
    BY <1>1, <2>1 DEF crash, CopiesAreLeases, TypeOK
  <2>4. RunningIsHeld'
    BY <1>1, <2>1, CrawlQueueAssumption DEF crash, RunningIsHeld, TypeOK, TaskId, Window
  <2>5. IntentsArePending' /\ LeasedIsOwned'
    BY <1>1 DEF crash, IntentsArePending, LeasedIsOwned, clientVars
  <2>6. NoStrandedLease'
    BY <1>1 DEF crash, NoStrandedLease, TypeOK
  <2> QED BY <2>2, <2>3, <2>4, <2>5, <2>6
<1>2. ASSUME NEW s \in Source, NextWindow(s) PROVE IInv'
  <2>1. window' \in [Source -> Window]
    BY <1>2, CrawlQueueAssumption DEF NextWindow, TypeOK, Window
  <2> QED
    BY <1>2, <2>1 DEF NextWindow, workerVars, TypeOK, CopiesAreLeases,
       RunningIsHeld, IntentsArePending, LeasedIsOwned, NoStrandedLease, Holds
<1>3. ASSUME Tick PROVE IInv'
  <2>1. \A t \in TaskId : task'[t] = Aged(task[t])
    BY <1>3 DEF Tick
  <2>2. \A w \in Worker, t \in TaskId : held'[w][t] = Aged(held[w][t])
    BY <1>3 DEF Tick
  <2>3. \A w \in Worker, t \in TaskId : Holds(w, t)' <=> Holds(w, t)
    BY <2>2, AgedType DEF Holds, TypeOK
  <2>4. task' \in [TaskId -> Doc] /\ held' \in [Worker -> [TaskId -> Doc]]
    <3>1. \A d \in Doc : Aged(d) \in Doc
      BY AgedType
    <3> QED BY <1>3, <3>1 DEF Tick, TypeOK
  <2>5. granted' \in [Worker -> [TaskId -> 0 .. LeaseTicks]]
    <3>1. \A n \in 0 .. LeaseTicks : Less(n) \in 0 .. LeaseTicks
      BY CrawlTaskAssumption DEF Less
    <3> QED BY <1>3, <3>1 DEF Tick, TypeOK
  <2>6. TypeOK'
    BY <1>3, <2>4, <2>5 DEF Tick, TypeOK, clientVars
  <2>7. CopiesAreLeases'
    <3> SUFFICES ASSUME NEW w \in Worker, NEW t \in TaskId, Holds(w, t)
                 PROVE  (/\ held[w][t].state = "LEASED"
                         /\ held[w][t].leaseOwner = w
                         /\ held[w][t].waitLeft = 0)'
      BY <2>3 DEF CopiesAreLeases
    <3>1. held[w][t] \in Doc
      BY DEF TypeOK
    <3> QED BY <2>2, <3>1, AgedType DEF CopiesAreLeases
  <2>8. LeasedIsOwned'
    BY <2>1, AgedType DEF LeasedIsOwned, TypeOK
  <2>9. NoStrandedLease'
    BY <1>3, <2>1, <2>3, AgedType DEF Tick, NoStrandedLease, LeasedIsOwned, TypeOK
  <2>10. RunningIsHeld' /\ IntentsArePending'
    BY <1>3, <2>3 DEF Tick, RunningIsHeld, IntentsArePending, clientVars
  <2> QED BY <2>6, <2>7, <2>8, <2>9, <2>10
<1> QED BY <1>1, <1>2, <1>3

LEMMA StepIInv == IInv /\ [Next]_vars => IInv'
<1> SUFFICES ASSUME IInv, [Next]_vars PROVE IInv'
  OBVIOUS
<1>1. CASE Next
  BY <1>1, ClientKeepsIInv, WorkerKeepsIInv, EnvironmentKeepsIInv DEF Next
<1>2. CASE UNCHANGED vars
  BY <1>2 DEF vars, IInv, TypeOK, CopiesAreLeases, RunningIsHeld,
     IntentsArePending, LeasedIsOwned, NoStrandedLease, Holds
<1> QED BY <1>1, <1>2

-----------------------------------------------------------------------------
(* Theorems *)

\* The inductive invariant holds of every behaviour.
THEOREM Inductive == Spec => []IInv
  BY InitIInv, StepIInv, PTL DEF Spec

\* Every stored, copied or pending document is well formed, whatever the
\* workers and clients write over each other.
THEOREM TypeCorrect == Spec => []TypeOK
<1>1. IInv => TypeOK
  BY DEF IInv
<1> QED BY <1>1, Inductive, PTL

\* No write of a stale copy can hide a lapsed lease from the lease query.
THEOREM LapsedLeasesAreFound == Spec => []ExpiredLeaseIsDue
<1>1. IInv => ExpiredLeaseIsDue
  BY DEF IInv, ExpiredLeaseIsDue, LeasedIsOwned, Due, Leasable
<1> QED BY <1>1, Inductive, PTL

\* A document that says LEASED is in its owner's hands unless a worker crashed.
THEOREM LeasesAreInHand == Spec => []NoStrandedLease
<1>1. IInv => NoStrandedLease
  BY DEF IInv
<1> QED BY <1>1, Inductive, PTL

-----------------------------------------------------------------------------
(***************************************************************************)
(* Exclusion.  It needs two things of the surroundings.  Live workers act  *)
(* before their leases lapse (Timely): one that outlives its lease goes on *)
(* crawling a task that another has leased.  And one process enqueues and  *)
(* requeues: of two, the second may put a fresh task over one that a       *)
(* worker leased after the first put it.                                   *)
(***************************************************************************)
SoleClient == \A c, d \in Client : c = d

\* A worker counts on a lease exactly while it has the copy in hand, and then
\* the stored document is still the one it leased, with the same time left.
LeasesAgree ==
    \A w \in Worker, t \in TaskId :
        /\ granted[w][t] > 0 <=> Holds(w, t)
        /\ Holds(w, t) => /\ task[t].state = "LEASED"
                          /\ task[t].leaseOwner = w
                          /\ task[t].leaseLeft = granted[w][t]

\* What a client is about to put is put over nothing, or over a dead letter.
IntentsAreFresh ==
    \A c \in Client : \A p \in intent[c] : task[p.id].state \in {"ABSENT", "DEAD"}

TInv == IInv /\ LeasesAgree /\ IntentsAreFresh

LEMMA InitTInv == Init => TInv
<1> SUFFICES ASSUME Init PROVE TInv
  OBVIOUS
<1>1. LeasesAgree /\ IntentsAreFresh
  BY DEF Init, LeasesAgree, IntentsAreFresh, Holds, Absent, Blank
<1> QED BY <1>1, InitIInv DEF TInv

LEMMA ClientKeepsTInv ==
  ASSUME SoleClient, TInv, NEW c \in Client, ClientStep(c)
  PROVE  LeasesAgree' /\ IntentsAreFresh'
<1> USE DEF TInv, IInv
<1>1. ASSUME NEW s \in Source, enqueueRead(c, s)
      PROVE  LeasesAgree' /\ IntentsAreFresh'
  <2> DEFINE u == <<s, window[s]>>
  <2>1. /\ task[u].state \in {"ABSENT", "DEAD"}
        /\ intent' = [intent EXCEPT ![c] = {[id |-> u, doc |-> makeCrawlTask]}]
        /\ UNCHANGED <<task, workerVars>>
    BY <1>1 DEF enqueueRead
  <2> HIDE DEF u
  <2>2. IntentsAreFresh'
    BY <2>1 DEF IntentsAreFresh, TypeOK
  <2>3. LeasesAgree'
    BY <2>1 DEF workerVars, LeasesAgree, Holds
  <2> QED BY <2>2, <2>3
<1>2. ASSUME NEW t \in TaskId, requeueRead(c, t)
      PROVE  LeasesAgree' /\ IntentsAreFresh'
  BY <1>2 DEF requeueRead, workerVars, LeasesAgree, IntentsAreFresh, Holds, TypeOK
<1>3. ASSUME putIntent(c)
      PROVE  LeasesAgree' /\ IntentsAreFresh'
  <2>1. PICK p \in intent[c] : task' = [task EXCEPT ![p.id] = p.doc]
    BY <1>3 DEF putIntent
  <2>2. p.id \in TaskId /\ task[p.id].state \in {"ABSENT", "DEAD"}
    BY <2>1 DEF TypeOK, Pending, IntentsAreFresh
  <2>3. \A w \in Worker, t \in TaskId : Holds(w, t) => task'[t] = task[t]
    BY <2>1, <2>2 DEF LeasesAgree, TypeOK
  <2>4. LeasesAgree'
    BY <1>3, <2>3 DEF putIntent, workerVars, LeasesAgree, Holds
  <2>5. IntentsAreFresh'
    BY <1>3 DEF putIntent, IntentsAreFresh, TypeOK, SoleClient
  <2> QED BY <2>4, <2>5
<1> QED BY <1>1, <1>2, <1>3 DEF ClientStep

LEMMA SettleKeepsTInv ==
  ASSUME TInv, NEW w \in Worker, NEW t \in TaskId, Holds(w, t),
         NEW doc \in Doc, doc.state # "LEASED", Settle(w, t, doc)
  PROVE  LeasesAgree' /\ IntentsAreFresh'
<1> USE DEF TInv, IInv
<1>1. /\ task' = [task EXCEPT ![t] = doc]
      /\ held' = [held EXCEPT ![w][t] = Absent]
      /\ granted' = [granted EXCEPT ![w][t] = 0]
      /\ intent' = intent
  BY DEF Settle, clientVars
<1>2. \A v \in Worker, u \in TaskId :
         Holds(v, u)' <=> Holds(v, u) /\ ~(v = w /\ u = t)
  BY <1>1 DEF Holds, TypeOK, Absent, Blank
<1>3. \A v \in Worker : Holds(v, t) => v = w
  BY DEF LeasesAgree
<1>4. LeasesAgree'
  <2> SUFFICES ASSUME NEW v \in Worker, NEW u \in TaskId
               PROVE  /\ granted'[v][u] > 0 <=> Holds(v, u)'
                      /\ Holds(v, u)' => /\ task'[u].state = "LEASED"
                                         /\ task'[u].leaseOwner = v
                                         /\ task'[u].leaseLeft = granted'[v][u]
    BY DEF LeasesAgree
  <2>1. CASE v = w /\ u = t
    BY <1>1, <1>2, <2>1 DEF TypeOK
  <2>2. CASE ~(v = w /\ u = t)
    <3>1. granted'[v][u] = granted[v][u] /\ (Holds(v, u)' <=> Holds(v, u))
      BY <1>1, <1>2, <2>2 DEF TypeOK
    <3>2. Holds(v, u) => task'[u] = task[u]
      BY <1>1, <1>3, <2>2 DEF TypeOK
    <3> QED BY <3>1, <3>2 DEF LeasesAgree
  <2> QED BY <2>1, <2>2
<1>5. IntentsAreFresh'
  <2> SUFFICES ASSUME NEW c \in Client, NEW p \in intent[c]
               PROVE  task'[p.id].state \in {"ABSENT", "DEAD"}
    BY <1>1 DEF IntentsAreFresh
  <2>1. task[t].state = "LEASED"
    BY DEF LeasesAgree
  <2>2. p.id \in TaskId /\ task[p.id].state \in {"ABSENT", "DEAD"}
    BY DEF TypeOK, Pending, IntentsAreFresh
  <2>3. p.id # t
    BY <2>1, <2>2
  <2> QED BY <1>1, <2>2, <2>3 DEF TypeOK
<1> QED BY <1>4, <1>5

LEMMA LeaseKeepsTInv ==
  ASSUME TInv, NEW w \in Worker, NEW t \in TaskId, lease(w, t)
  PROVE  LeasesAgree' /\ IntentsAreFresh'
<1> USE DEF TInv, IInv
<1> DEFINE d == leased(task[t], w)
<1>1. /\ d.state = "LEASED" /\ d.leaseOwner = w /\ d.leaseLeft = LeaseTicks
      /\ task' = [task EXCEPT ![t] = d]
      /\ held' = [held EXCEPT ![w][t] = d]
      /\ granted' = [granted EXCEPT ![w][t] = LeaseTicks]
      /\ intent' = intent
  BY LeasedType DEF lease, TypeOK, clientVars
<1> HIDE DEF d
<1>2. \A v \in Worker : ~Holds(v, t)
  <2> SUFFICES ASSUME NEW v \in Worker, Holds(v, t) PROVE FALSE
    OBVIOUS
  <2>1. task[t].state = "LEASED" /\ task[t].leaseLeft > 0
    BY DEF LeasesAgree
  <2> QED BY <2>1 DEF lease, Due, Leasable
<1>3. \A v \in Worker, u \in TaskId :
         Holds(v, u)' <=> Holds(v, u) \/ (v = w /\ u = t)
  BY <1>1 DEF Holds, TypeOK
<1>4. LeasesAgree'
  <2> SUFFICES ASSUME NEW v \in Worker, NEW u \in TaskId
               PROVE  /\ granted'[v][u] > 0 <=> Holds(v, u)'
                      /\ Holds(v, u)' => /\ task'[u].state = "LEASED"
                                         /\ task'[u].leaseOwner = v
                                         /\ task'[u].leaseLeft = granted'[v][u]
    BY DEF LeasesAgree
  <2>1. CASE v = w /\ u = t
    BY <1>1, <1>3, <2>1, CrawlTaskAssumption DEF TypeOK
  <2>2. CASE ~(v = w /\ u = t)
    <3>1. granted'[v][u] = granted[v][u] /\ (Holds(v, u)' <=> Holds(v, u))
      BY <1>1, <1>3, <2>2 DEF TypeOK
    <3>2. Holds(v, u) => task'[u] = task[u]
      BY <1>1, <1>2 DEF TypeOK
    <3> QED BY <3>1, <3>2 DEF LeasesAgree
  <2> QED BY <2>1, <2>2
<1>5. IntentsAreFresh'
  <2> SUFFICES ASSUME NEW c \in Client, NEW p \in intent[c]
               PROVE  task'[p.id].state \in {"ABSENT", "DEAD"}
    BY <1>1 DEF IntentsAreFresh
  <2>1. p.id \in TaskId /\ task[p.id].state \in {"ABSENT", "DEAD"}
    BY DEF TypeOK, Pending, IntentsAreFresh
  <2>2. p.id # t
    BY <2>1 DEF lease, Due, Leasable
  <2> QED BY <1>1, <2>1, <2>2 DEF TypeOK
<1> QED BY <1>4, <1>5

LEMMA CheckpointKeepsTInv ==
  ASSUME TInv, NEW w \in Worker, NEW c \in Cursor, checkpointRun(w, c)
  PROVE  LeasesAgree' /\ IntentsAreFresh'
<1> USE DEF TInv, IInv
<1> DEFINE t == running[w]
           d == checkpoint(held[w][t], c)
<1>1. t \in TaskId /\ Holds(w, t)
  BY DEF checkpointRun, TypeOK, RunningIsHeld
<1>2. held[w][t] \in Doc /\ held[w][t].state = "LEASED" /\ held[w][t].leaseOwner = w
  BY <1>1 DEF CopiesAreLeases, TypeOK
<1>3. d.state = "LEASED" /\ d.leaseOwner = w /\ d.leaseLeft = LeaseTicks
  BY <1>2, CheckpointType
<1>4. /\ task' = [task EXCEPT ![t] = d]
      /\ granted' = [granted EXCEPT ![w][t] = LeaseTicks]
      /\ intent' = intent /\ held' = held
  BY DEF checkpointRun, clientVars
<1> HIDE DEF d, t
<1>5. \A v \in Worker : Holds(v, t) => v = w
  BY <1>1 DEF LeasesAgree
<1>6. \A v \in Worker, u \in TaskId : Holds(v, u)' <=> Holds(v, u)
  BY <1>4 DEF Holds
<1>7. LeasesAgree'
  <2> SUFFICES ASSUME NEW v \in Worker, NEW u \in TaskId
               PROVE  /\ granted'[v][u] > 0 <=> Holds(v, u)'
                      /\ Holds(v, u)' => /\ task'[u].state = "LEASED"
                                         /\ task'[u].leaseOwner = v
                                         /\ task'[u].leaseLeft = granted'[v][u]
    BY DEF LeasesAgree
  <2>1. CASE v = w /\ u = t
    BY <1>1, <1>3, <1>4, <1>6, <2>1, CrawlTaskAssumption DEF TypeOK
  <2>2. CASE ~(v = w /\ u = t)
    <3>1. granted'[v][u] = granted[v][u]
      BY <1>4, <2>2 DEF TypeOK
    <3>2. Holds(v, u) => task'[u] = task[u]
      BY <1>4, <1>5, <2>2 DEF TypeOK
    <3> QED BY <1>6, <3>1, <3>2 DEF LeasesAgree
  <2> QED BY <2>1, <2>2
<1>8. IntentsAreFresh'
  <2> SUFFICES ASSUME NEW e \in Client, NEW p \in intent[e]
               PROVE  task'[p.id].state \in {"ABSENT", "DEAD"}
    BY <1>4 DEF IntentsAreFresh
  <2>1. p.id \in TaskId /\ task[p.id].state \in {"ABSENT", "DEAD"}
    BY DEF TypeOK, Pending, IntentsAreFresh
  <2>2. p.id # t
    BY <1>1, <2>1 DEF LeasesAgree
  <2> QED BY <1>4, <2>1, <2>2 DEF TypeOK
<1> QED BY <1>7, <1>8

LEMMA WorkerKeepsTInv ==
  ASSUME TInv, NEW w \in Worker, WorkerStep(w)
  PROVE  LeasesAgree' /\ IntentsAreFresh'
<1>0. /\ \A t \in TaskId : held[w][t] \in Doc
      /\ running[w] # NoTask => running[w] \in TaskId /\ Holds(w, running[w])
      /\ \A t \in TaskId : running[w] = t => Holds(w, t)
  BY DEF TInv, IInv, TypeOK, RunningIsHeld
<1>1. ASSUME NEW t \in TaskId, lease(w, t) PROVE LeasesAgree' /\ IntentsAreFresh'
  BY <1>1, LeaseKeepsTInv
<1>2. ASSUME NEW t \in TaskId, startRun(w, t) PROVE LeasesAgree' /\ IntentsAreFresh'
  BY <1>2 DEF TInv, startRun, clientVars, LeasesAgree, IntentsAreFresh, Holds
<1>3. ASSUME NEW c \in Cursor, checkpointRun(w, c) PROVE LeasesAgree' /\ IntentsAreFresh'
  BY <1>3, CheckpointKeepsTInv
<1>4. ASSUME NEW t \in TaskId, deferUnstarted(w, t) PROVE LeasesAgree' /\ IntentsAreFresh'
  <2>1. held[w][t].checkpoint \in Cursor
    BY <1>0 DEF Doc
  <2> QED BY <1>0, <1>4, <2>1, DeferType, SettleKeepsTInv DEF deferUnstarted
<1>5. ASSUME deferRun(w) PROVE LeasesAgree' /\ IntentsAreFresh'
  <2>1. reached[w] \in Cursor
    BY DEF TInv, IInv, TypeOK
  <2> QED BY <1>0, <1>5, <2>1, DeferType, SettleKeepsTInv DEF deferRun
<1>6. ASSUME completeRun(w) PROVE LeasesAgree' /\ IntentsAreFresh'
  BY <1>0, <1>6, CompleteType, SettleKeepsTInv DEF completeRun
<1>7. ASSUME NEW t \in TaskId, NEW e \in ErrorClass, fail(w, t, e)
      PROVE  LeasesAgree' /\ IntentsAreFresh'
  <2>1. Holds(w, t) /\ held[w][t] \in Doc
    BY <1>0, <1>7 DEF fail
  <2>2. PICK doc \in failOutcomes(held[w][t], e) : Settle(w, t, doc)
    BY <1>7 DEF fail
  <2> QED BY <2>1, <2>2, FailType, SettleKeepsTInv
<1> QED
  BY <1>1, <1>2, <1>3, <1>4, <1>5, <1>6, <1>7 DEF WorkerStep

LEMMA EnvironmentKeepsTInv ==
  ASSUME Timely, TInv,
         \/ \E w \in Worker : crash(w)
         \/ \E s \in Source : NextWindow(s)
         \/ Tick
  PROVE  LeasesAgree' /\ IntentsAreFresh'
<1> USE DEF TInv, IInv
<1>1. ASSUME NEW w \in Worker, crash(w) PROVE LeasesAgree' /\ IntentsAreFresh'
  <2>1. \A v \in Worker, u \in TaskId : Holds(v, u)' <=> Holds(v, u) /\ v # w
    BY <1>1 DEF crash, Holds, TypeOK, Absent, Blank
  <2>2. \A v \in Worker, u \in TaskId :
           granted'[v][u] = IF v = w THEN 0 ELSE granted[v][u]
    BY <1>1 DEF crash, TypeOK
  <2> QED BY <1>1, <2>1, <2>2 DEF crash, clientVars, LeasesAgree, IntentsAreFresh
<1>2. ASSUME NEW s \in Source, NextWindow(s) PROVE LeasesAgree' /\ IntentsAreFresh'
  BY <1>2 DEF NextWindow, workerVars, LeasesAgree, IntentsAreFresh, Holds
<1>3. ASSUME Tick PROVE LeasesAgree' /\ IntentsAreFresh'
  <2>1. /\ \A t \in TaskId : task'[t] = Aged(task[t]) /\ task[t] \in Doc
        /\ \A w \in Worker, t \in TaskId :
              held'[w][t] = Aged(held[w][t]) /\ held[w][t] \in Doc
        /\ \A w \in Worker, t \in TaskId :
              /\ granted'[w][t] = Less(granted[w][t])
              /\ granted[w][t] \in Nat /\ granted[w][t] # 1
    BY <1>3, CrawlTaskAssumption DEF Tick, TypeOK
  <2>2. \A w \in Worker, t \in TaskId : granted'[w][t] > 0 <=> granted[w][t] > 0
    BY <2>1 DEF Less
  <2>3. \A w \in Worker, t \in TaskId : Holds(w, t)' <=> Holds(w, t)
    BY <2>1, AgedType DEF Holds
  <2>4. \A t \in TaskId : /\ task'[t].state = task[t].state
                          /\ task'[t].leaseOwner = task[t].leaseOwner
                          /\ task'[t].leaseLeft = Less(task[t].leaseLeft)
    BY <2>1, AgedType
  <2>5. LeasesAgree'
    BY <2>1, <2>2, <2>3, <2>4 DEF LeasesAgree
  <2>6. IntentsAreFresh'
    <3>1. intent' = intent
      BY <1>3 DEF Tick, clientVars
    <3>2. \A c \in Client : \A p \in intent[c] : p.id \in TaskId
      BY DEF TypeOK, Pending
    <3> QED BY <2>4, <3>1, <3>2 DEF IntentsAreFresh
  <2> QED BY <2>5, <2>6
<1> QED BY <1>1, <1>2, <1>3

LEMMA StepTInv == Timely /\ SoleClient /\ TInv /\ [Next]_vars => TInv'
<1> SUFFICES ASSUME Timely, SoleClient, TInv, [Next]_vars PROVE TInv'
  OBVIOUS
<1>1. IInv'
  BY StepIInv DEF TInv
<1>2. CASE Next
  BY <1>1, <1>2, ClientKeepsTInv, WorkerKeepsTInv, EnvironmentKeepsTInv DEF Next, TInv
<1>3. CASE UNCHANGED vars
  BY <1>1, <1>3 DEF vars, TInv, LeasesAgree, IntentsAreFresh, Holds
<1> QED BY <1>2, <1>3

\* Under the two assumptions no task is crawled by two workers at once.
THEOREM Exclusion ==
  ASSUME Timely, SoleClient
  PROVE  Spec => []OneCrawlAtATime
<1>1. TInv => OneCrawlAtATime
  BY DEF TInv, LeasesAgree, OneCrawlAtATime
<1>2. TInv /\ [Next]_vars => TInv'
  BY StepTInv
<1> QED BY <1>1, <1>2, InitTInv, PTL DEF Spec

-----------------------------------------------------------------------------
(* The same two assumptions make the queue implement its promise. *)

Statuses == [t \in TaskId |-> statusOf(task[t])]
InHand == [w \in Worker |-> {t \in TaskId : Holds(w, t)}]

LEMMA StatusFacts ==
  ASSUME NEW d \in Doc
  PROVE  /\ d.state = "ABSENT" => statusOf(d) = "none"
         /\ d.state = "DEAD" => statusOf(d) = "shelved"
         /\ d.state = "DONE" => statusOf(d) = "done"
         /\ d.state \in {"PENDING", "LEASED", "RETRY"} => statusOf(d) = "open"
  BY DEF statusOf

\* Nothing that the abstract queue knows of has changed.
LEMMA PromiseStutters ==
  ASSUME TypeOK,
         \A t \in TaskId : task'[t] \in Doc /\ task'[t].state = task[t].state,
         \A w \in Worker, t \in TaskId : Holds(w, t)' <=> Holds(w, t)
  PROVE  UNCHANGED <<Statuses, InHand>>
<1>1. \A t \in TaskId : statusOf(task'[t]) = statusOf(task[t])
  BY DEF TypeOK, statusOf
<1> QED BY <1>1 DEF Statuses, InHand

LEMMA PutIsAdd ==
  ASSUME TInv, NEW c \in Client, putIntent(c)
  PROVE  Abstract!Next
<1>1. PICK p \in intent[c] : task' = [task EXCEPT ![p.id] = p.doc]
  BY DEF putIntent
<1>2. /\ p.id \in TaskId /\ p.doc \in Doc /\ p.doc.state = "PENDING"
      /\ task[p.id] \in Doc /\ task[p.id].state \in {"ABSENT", "DEAD"}
      /\ held' = held
  BY DEF putIntent, workerVars, TInv, IInv, TypeOK, Pending, IntentsArePending, IntentsAreFresh
<1>3. \A w \in Worker : ~Holds(w, p.id)
  BY <1>2 DEF TInv, LeasesAgree
<1>4. Statuses' = [Statuses EXCEPT ![p.id] = "open"] /\ Statuses[p.id] \in {"none", "shelved"}
  BY <1>1, <1>2, StatusFacts DEF Statuses, TInv, IInv, TypeOK
<1>5. InHand' = InHand /\ \A w \in Worker : p.id \notin InHand[w]
  BY <1>2, <1>3 DEF InHand, Holds
<1>6. Abstract!Add(p.id)
  BY <1>4, <1>5 DEF Abstract!Add, Abstract!Free, Statuses, InHand
<1> QED BY <1>2, <1>6 DEF Abstract!Next

LEMMA LeaseIsTake ==
  ASSUME TInv, NEW w \in Worker, NEW t \in TaskId, lease(w, t)
  PROVE  Abstract!Next
<1> DEFINE d == leased(task[t], w)
<1>1. /\ d \in Doc /\ d.state = "LEASED"
      /\ task' = [task EXCEPT ![t] = d] /\ held' = [held EXCEPT ![w][t] = d]
      /\ task[t] \in Doc /\ Due(task[t])
  BY LeasedType DEF lease, TInv, IInv, TypeOK
<1> HIDE DEF d
<1>2. task[t].state \in {"PENDING", "LEASED", "RETRY"}
  BY <1>1 DEF Due, Leasable
<1>3. \A v \in Worker : ~Holds(v, t)
  <2> SUFFICES ASSUME NEW v \in Worker, Holds(v, t) PROVE FALSE
    OBVIOUS
  <2>1. task[t].state = "LEASED" /\ task[t].leaseLeft > 0
    BY DEF TInv, LeasesAgree
  <2> QED BY <1>1, <2>1 DEF Due, Leasable
<1>4. \A v \in Worker, u \in TaskId : Holds(v, u)' <=> Holds(v, u) \/ (v = w /\ u = t)
  BY <1>1 DEF Holds, TInv, IInv, TypeOK
<1>5. InHand' = [InHand EXCEPT ![w] = @ \cup {t}] /\ \A v \in Worker : t \notin InHand[v]
  BY <1>3, <1>4 DEF InHand
<1>6. Statuses' = Statuses /\ Statuses[t] = "open"
  BY <1>1, <1>2, StatusFacts DEF Statuses, TInv, IInv, TypeOK
<1>7. Abstract!Take(w, t)
  BY <1>5, <1>6 DEF Abstract!Take, Abstract!Free, Statuses, InHand
<1> QED BY <1>7 DEF Abstract!Next

LEMMA SettleIsReturn ==
  ASSUME TInv, NEW w \in Worker, NEW t \in TaskId, Holds(w, t),
         NEW doc \in Doc, doc.state \in {"RETRY", "DONE", "DEAD"}, Settle(w, t, doc)
  PROVE  Abstract!Next
<1>1. task' = [task EXCEPT ![t] = doc] /\ held' = [held EXCEPT ![w][t] = Absent]
  BY DEF Settle
<1>2. \A v \in Worker, u \in TaskId : Holds(v, u)' <=> Holds(v, u) /\ ~(v = w /\ u = t)
  BY <1>1 DEF Holds, TInv, IInv, TypeOK, Absent, Blank
<1>3. InHand' = [InHand EXCEPT ![w] = @ \ {t}] /\ t \in InHand[w]
  BY <1>2 DEF InHand
<1>4. Statuses' = [Statuses EXCEPT ![t] = statusOf(doc)]
  BY <1>1 DEF Statuses, TInv, IInv, TypeOK
<1>5. statusOf(doc) \in {"open", "done", "shelved"}
  BY StatusFacts
<1>6. Abstract!Return(w, t, statusOf(doc))
  BY <1>3, <1>4 DEF Abstract!Return, Statuses, InHand
<1> QED BY <1>5, <1>6 DEF Abstract!Next

LEMMA CrashIsDie ==
  ASSUME TInv, NEW w \in Worker, crash(w)
  PROVE  Abstract!Next
<1>1. task' = task /\ held' = [held EXCEPT ![w] = [t \in TaskId |-> Absent]]
  BY DEF crash
<1>2. \A v \in Worker, u \in TaskId : Holds(v, u)' <=> Holds(v, u) /\ v # w
  BY <1>1 DEF Holds, TInv, IInv, TypeOK, Absent, Blank
<1>3. InHand' = [InHand EXCEPT ![w] = {}]
  BY <1>2 DEF InHand
<1>4. Statuses' = Statuses
  BY <1>1 DEF Statuses
<1>5. Abstract!Die(w)
  BY <1>3, <1>4 DEF Abstract!Die, Statuses, InHand
<1> QED BY <1>5 DEF Abstract!Next

LEMMA WorkerKeepsPromise ==
  ASSUME TInv, NEW w \in Worker, WorkerStep(w)
  PROVE  Abstract!Next \/ UNCHANGED <<Statuses, InHand>>
<1>0. /\ \A t \in TaskId : held[w][t] \in Doc /\ task[t] \in Doc
      /\ running[w] # NoTask => running[w] \in TaskId /\ Holds(w, running[w])
      /\ \A t \in TaskId : running[w] = t => Holds(w, t)
      /\ reached[w] \in Cursor /\ TypeOK
  BY DEF TInv, IInv, TypeOK, RunningIsHeld
<1>1. ASSUME NEW t \in TaskId, startRun(w, t) PROVE UNCHANGED <<Statuses, InHand>>
  BY <1>1 DEF startRun, Statuses, InHand, Holds
<1>2. ASSUME NEW c \in Cursor, checkpointRun(w, c) PROVE UNCHANGED <<Statuses, InHand>>
  <2> DEFINE t == running[w]
             d == checkpoint(held[w][t], c)
  <2>1. t \in TaskId /\ Holds(w, t)
    BY <1>0, <1>2 DEF checkpointRun
  <2>2. held[w][t].state = "LEASED" /\ task[t].state = "LEASED"
    BY <2>1 DEF TInv, IInv, CopiesAreLeases, LeasesAgree
  <2>3. d \in Doc /\ d.state = "LEASED"
    BY <1>0, <2>1, <2>2, CheckpointType
  <2>4. task' = [task EXCEPT ![t] = d] /\ held' = held
    BY <1>2 DEF checkpointRun
  <2> HIDE DEF d, t
  <2>5. \A u \in TaskId : task'[u] \in Doc /\ task'[u].state = task[u].state
    BY <1>0, <2>1, <2>2, <2>3, <2>4 DEF TypeOK
  <2> QED BY <1>0, <2>4, <2>5, PromiseStutters DEF Holds
<1>3. ASSUME NEW t \in TaskId, deferUnstarted(w, t) PROVE Abstract!Next
  <2>1. held[w][t].checkpoint \in Cursor
    BY <1>0 DEF Doc
  <2> QED BY <1>0, <1>3, <2>1, DeferType, SettleIsReturn DEF deferUnstarted
<1>4. ASSUME deferRun(w) PROVE Abstract!Next
  BY <1>0, <1>4, DeferType, SettleIsReturn DEF deferRun
<1>5. ASSUME completeRun(w) PROVE Abstract!Next
  BY <1>0, <1>5, CompleteType, SettleIsReturn DEF completeRun
<1>6. ASSUME NEW t \in TaskId, NEW e \in ErrorClass, fail(w, t, e) PROVE Abstract!Next
  <2>1. Holds(w, t)
    BY <1>0, <1>6 DEF fail
  <2>2. PICK doc \in failOutcomes(held[w][t], e) : Settle(w, t, doc)
    BY <1>6 DEF fail
  <2> QED BY <1>0, <2>1, <2>2, FailType, SettleIsReturn
<1> QED
  BY <1>1, <1>2, <1>3, <1>4, <1>5, <1>6, LeaseIsTake DEF WorkerStep

LEMMA StepsKeepPromise ==
  ASSUME TInv, Next
  PROVE  Abstract!Next \/ UNCHANGED <<Statuses, InHand>>
<1>1. ASSUME NEW c \in Client, ClientStep(c)
      PROVE  Abstract!Next \/ UNCHANGED <<Statuses, InHand>>
  <2>1. ASSUME NEW s \in Source, enqueueRead(c, s) PROVE UNCHANGED <<Statuses, InHand>>
    BY <2>1 DEF enqueueRead, workerVars, Statuses, InHand, Holds
  <2>2. ASSUME NEW t \in TaskId, requeueRead(c, t) PROVE UNCHANGED <<Statuses, InHand>>
    BY <2>2 DEF requeueRead, workerVars, Statuses, InHand, Holds
  <2> QED BY <1>1, <2>1, <2>2, PutIsAdd DEF ClientStep
<1>2. ASSUME NEW s \in Source, NextWindow(s) PROVE UNCHANGED <<Statuses, InHand>>
  BY <1>2 DEF NextWindow, workerVars, Statuses, InHand, Holds
<1>3. ASSUME Tick PROVE UNCHANGED <<Statuses, InHand>>
  <2>1. \A t \in TaskId : task'[t] = Aged(task[t]) /\ task[t] \in Doc
    BY <1>3 DEF Tick, TInv, IInv, TypeOK
  <2>2. \A w \in Worker, t \in TaskId : held'[w][t] = Aged(held[w][t]) /\ held[w][t] \in Doc
    BY <1>3 DEF Tick, TInv, IInv, TypeOK
  <2> QED BY <2>1, <2>2, AgedType, PromiseStutters DEF Holds, TInv, IInv
<1> QED
  BY <1>1, <1>2, <1>3, WorkerKeepsPromise, CrashIsDie DEF Next

\* Under the two assumptions the queue of documents, copies and leases implements
\* LeaseQueue: each step is a step of it, and what is done is never opened again.
THEOREM QueueKeepsPromise ==
  ASSUME Timely, SoleClient
  PROVE  Spec => KeepsPromise
<1>1. Init => Abstract!Init
  BY DEF Init, Abstract!Init, statusOf, Holds, Absent, Blank
<1>2. TInv /\ [Next]_vars => TInv'
  BY StepTInv
<1>3. TInv /\ [Next]_vars =>
         [Abstract!Step]_<<[t \in TaskId |-> statusOf(task[t])],
                           [w \in Worker |-> {t \in TaskId : Holds(w, t)}]>>
  <2>1. ASSUME TInv, Next PROVE Abstract!Next \/ UNCHANGED <<Statuses, InHand>>
    BY <2>1, StepsKeepPromise
  <2>2. ASSUME UNCHANGED vars PROVE UNCHANGED <<Statuses, InHand>>
    BY <2>2 DEF vars, Statuses, InHand, Holds
  <2>3. ASSUME Abstract!Next, ~UNCHANGED <<Statuses, InHand>> PROVE Abstract!Step
    BY <2>3 DEF Abstract!Step, Abstract!vars, Statuses, InHand
  <2> QED BY <2>1, <2>2, <2>3 DEF Statuses, InHand
<1> QED BY <1>1, <1>2, <1>3, InitTInv, PTL DEF Spec, KeepsPromise, Abstract!Spec, Abstract!vars
=============================================================================
