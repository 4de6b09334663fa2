---------------------------- MODULE RateControl ----------------------------
(***************************************************************************)
(* The transport every crawl goes through (crawler/rateControl.js and      *)
(* SafeHttpClient.fetch in crawler/httpClient.js): a request takes a slot  *)
(* of the whole process, then one of its host, and the host's circuit      *)
(* breaker may refuse it.  One thread runs it all.  A promise that settles *)
(* puts what awaits it at the end of a queue, and the next answer, timer   *)
(* or new call is taken only when that queue is empty.  A slot that is     *)
(* freed is free until the request that was woken for it gets its turn.    *)
(***************************************************************************)
EXTENDS Naturals, Sequences, FiniteSets

CONSTANTS
    Request,            \* callers of fetch
    Host,
    NoHost,             \* of a caller that has no fetch under way
    Global,             \* the semaphore all requests share
    globalConcurrency,
    hostConcurrency,
    failureThreshold,   \* failures in a row that open a circuit
    OPEN_FOR,           \* openMs, in ticks of the model's clock
    MaxLegs             \* retries and redirects that follow a first request

ASSUME RateAssumption ==
    /\ Global \notin Host /\ NoHost \notin Host
    /\ {globalConcurrency, hostConcurrency, failureThreshold} \subseteq Nat \ {0}
    /\ {OPEN_FOR, MaxLegs} \subseteq Nat
    /\ IsFiniteSet(Request)

Semaphore == Host \cup {Global}
limit(s) == IF s = Global THEN globalConcurrency ELSE hostConcurrency

VARIABLES
    active,     \* slots each semaphore counts as taken
    queue,      \* the requests each of them makes wait
    ready,      \* the requests whose continuations are due, in order
    at,         \* where each request is: its step, its host, the legs it has left
    breaker     \* the circuit of each host

rateVars == <<active, queue, ready, at, breaker>>

Step == {"idle", "between", "queued", "woken", "granted", "hostQueued", "hostWoken",
         "hostGranted", "waiting", "flying", "landed", "freed", "over",
         "reading"}
Leg == [step : Step, host : Host \cup {NoHost}, legs : 0 .. MaxLegs]
Breaker == [state : {"CLOSED", "OPEN", "HALF_OPEN"}, failures : 0 .. failureThreshold,
            left : 0 .. OPEN_FOR]

returned == [step |-> "idle", host |-> NoHost, legs |-> 0]
shut == [state |-> "CLOSED", failures |-> 0, left |-> 0]

RateTypeOK ==
    /\ active \in [Semaphore -> Nat]
    /\ queue \in [Semaphore -> Seq(Request)]
    /\ ready \in Seq(Request)
    /\ at \in [Request -> Leg]
    /\ breaker \in [Host -> Breaker]

RateInit ==
    /\ active = [s \in Semaphore |-> 0]
    /\ queue = [s \in Semaphore |-> <<>>]
    /\ ready = <<>>
    /\ at = [r \in Request |-> returned]
    /\ breaker = [h \in Host |-> shut]

-----------------------------------------------------------------------------
(* Semaphore *)

StepOf(s, global, host) == IF s = Global THEN global ELSE host
Moves(r, step) == at' = [at EXCEPT ![r].step = step]

\* acquire, up to its await: r goes on at once, or waits.  then is what else is due.
acquire(r, s, then) ==
    IF active[s] < limit(s)
    THEN /\ active' = [active EXCEPT ![s] = @ + 1]
         /\ ready' = Append(then, r)
         /\ Moves(r, StepOf(s, "granted", "hostGranted"))
         /\ UNCHANGED queue
    ELSE /\ queue' = [queue EXCEPT ![s] = Append(@, r)]
         /\ ready' = then
         /\ Moves(r, StepOf(s, "queued", "hostQueued"))
         /\ UNCHANGED active

\* Mutant: a request that was woken is not counted.
acquiredUncounted(s) == UNCHANGED active

\* acquire, after its await: the slot is counted now.
acquired(s) == active' = [active EXCEPT ![s] = @ + 1]

giveBack(s) == active' = [active EXCEPT ![s] = IF @ > 0 THEN @ - 1 ELSE 0]

wakeNobody(r, step) ==
    /\ ready' = Append(Tail(ready), r)
    /\ Moves(r, step)
    /\ UNCHANGED queue

\* next is told, and r goes on behind it.
wake(r, s, step, next, others) ==
    /\ queue' = [queue EXCEPT ![s] = others]
    /\ ready' = Tail(ready) \o <<next, r>>
    /\ at' = [at EXCEPT ![next].step = StepOf(s, "woken", "hostWoken"), ![r].step = step]

\* Mutant: the slot is given back and nobody is told.
releaseSilent(r, s, step) == giveBack(s) /\ wakeNobody(r, step)

\* Mutant: the request that came last is woken.
releaseNewest(r, s, step) ==
    LET q == queue[s]
    IN /\ giveBack(s)
       /\ IF q = <<>> THEN wakeNobody(r, step)
          ELSE wake(r, s, step, q[Len(q)], SubSeq(q, 1, Len(q) - 1))

\* release: the slot is given back, and the first in the queue is told.
release(r, s, step) ==
    LET q == queue[s]
    IN /\ giveBack(s)
       /\ IF q = <<>> THEN wakeNobody(r, step) ELSE wake(r, s, step, Head(q), Tail(q))

-----------------------------------------------------------------------------
(* HostBreaker *)

Refuses(b) == b.state = "OPEN" /\ b.left > 0

\* A circuit that was open for long enough half-opens when it is asked.
canRequest(b) == IF b.state = "OPEN" /\ b.left = 0 THEN [b EXCEPT !.state = "HALF_OPEN"] ELSE b

onSuccess(b) == shut

onFailure(b) ==
    LET failures == IF b.failures < failureThreshold THEN b.failures + 1 ELSE b.failures
        opens == b.state = "HALF_OPEN" \/ failures = failureThreshold
    IN [state |-> IF opens THEN "OPEN" ELSE b.state, failures |-> failures,
        left |-> IF opens THEN OPEN_FOR ELSE b.left]

-----------------------------------------------------------------------------
(* A leg of a fetch: RateController.schedule, the exchange, what its answer means *)

\* Somebody asks for a page of h.
fetch(r, h) ==
    /\ at[r].step = "idle"
    /\ at' = [at EXCEPT ![r] = [step |-> "between", host |-> h, legs |-> MaxLegs]]
    /\ UNCHANGED <<active, queue, ready, breaker>>

\* assertAllowed turns the address down.
disallowed(r) ==
    /\ at[r].step = "between" /\ ready = <<>>
    /\ at' = [at EXCEPT ![r] = returned]
    /\ UNCHANGED <<active, queue, ready, breaker>>

\* An open circuit refuses: schedule throws, and fetch counts that as one more
\* failure of the host.
refuse(r) ==
    LET h == at[r].host
    IN /\ at[r].step = "between" /\ ready = <<>> /\ Refuses(breaker[h])
       /\ breaker' = [breaker EXCEPT ![h] = onFailure(@)]
       /\ at' = [at EXCEPT ![r] = returned]
       /\ UNCHANGED <<active, queue, ready>>

\* The look-up of the name comes before each leg, and the pause before a retry, so
\* schedule is called when nothing else is due.
schedule(r) ==
    LET h == at[r].host
    IN /\ at[r].step = "between" /\ ready = <<>> /\ ~Refuses(breaker[h])
       /\ breaker' = [breaker EXCEPT ![h] = canRequest(@)]
       /\ acquire(r, Global, <<>>)

\* The continuation that is due: each goes as far as its next await.  Hops that
\* touch nothing others see are left out.
continueAcquire(r) ==
    \/ /\ at[r].step = "woken"
       /\ acquired(Global) /\ Moves(r, "granted")
       /\ ready' = Append(Tail(ready), r)
       /\ UNCHANGED queue
    \/ /\ at[r].step = "granted"
       /\ acquire(r, at[r].host, Tail(ready))
    \/ /\ at[r].step = "hostWoken"
       /\ acquired(at[r].host) /\ Moves(r, "hostGranted")
       /\ ready' = Append(Tail(ready), r)
       /\ UNCHANGED queue
    \/ /\ at[r].step = "hostGranted"      \* a pause for the host's sake, or none
       /\ \E step \in {"waiting", "flying"} : Moves(r, step)
       /\ ready' = Tail(ready)
       /\ UNCHANGED <<active, queue>>

continueRelease(r) ==
    \/ at[r].step = "landed" /\ release(r, at[r].host, "freed")
    \/ at[r].step = "freed" /\ release(r, Global, "over")

\* What fetch makes of the answer: it throws, or is a 304; it goes on with a retry
\* or a redirect, perhaps to another host; or there is a body to read.
settle(r) ==
    LET h == at[r].host
        Noted(outcome) == breaker' = [breaker EXCEPT ![h] = outcome]
        NextLeg(next) ==
            at' = [at EXCEPT ![r] = [step |-> "between", host |-> next, legs |-> @.legs - 1]]
    IN /\ at[r].step = "over"
       /\ \/ /\ \E b \in {onSuccess(breaker[h]), onFailure(breaker[h]), breaker[h]} : Noted(b)
             /\ at' = [at EXCEPT ![r] = returned]
          \/ /\ at[r].legs > 0 /\ Noted(onFailure(breaker[h]))
             /\ NextLeg(h)
          \/ /\ at[r].legs > 0 /\ Noted(breaker[h])
             /\ \E next \in Host : NextLeg(next)
          \/ Noted(breaker[h]) /\ Moves(r, "reading")
       /\ ready' = Tail(ready)
       /\ UNCHANGED <<active, queue>>

continue ==
    /\ ready # <<>>
    /\ LET r == Head(ready)
       IN \/ (continueAcquire(r) \/ continueRelease(r)) /\ UNCHANGED breaker
          \/ settle(r)

\* The pause is over.
depart(r) ==
    /\ at[r].step = "waiting" /\ ready = <<>>
    /\ Moves(r, "flying")
    /\ UNCHANGED <<active, queue, ready, breaker>>

\* An answer, an error, or the abort of the timer.
land(r) ==
    /\ at[r].step = "flying" /\ ready = <<>>
    /\ Moves(r, "landed") /\ ready' = <<r>>
    /\ UNCHANGED <<active, queue, breaker>>

\* The body was read, or could not be.
readCapped(r) ==
    /\ at[r].step = "reading" /\ ready = <<>>
    /\ \E b \in {onSuccess(breaker[at[r].host]), breaker[at[r].host]} :
          breaker' = [breaker EXCEPT ![at[r].host] = b]
    /\ at' = [at EXCEPT ![r] = returned]
    /\ UNCHANGED <<active, queue, ready>>

RateTick ==
    /\ ready = <<>>
    /\ \E h \in Host : breaker[h].left > 0
    /\ breaker' = [h \in Host |->
          [breaker[h] EXCEPT !.left = IF @ > 0 THEN @ - 1 ELSE 0]]
    /\ UNCHANGED <<active, queue, ready, at>>

RequestStep(r) ==
    disallowed(r) \/ refuse(r) \/ schedule(r) \/ depart(r) \/ land(r) \/ readCapped(r)

RateNext ==
    \/ continue
    \/ \E r \in Request : RequestStep(r) \/ \E h \in Host : fetch(r, h)
    \/ RateTick

RateSpec == RateInit /\ [][RateNext]_rateVars

\* What is due is done before anything else.  A pause, a look-up and an exchange
\* come to an end: each has its timer.
RateFairness ==
    /\ WF_rateVars(continue)
    /\ \A r \in Request : SF_rateVars(RequestStep(r))
    /\ WF_rateVars(RateTick)

FairRateSpec == RateSpec /\ RateFairness

-----------------------------------------------------------------------------
(* Properties *)

Within(steps) == {r \in Request : at[r].step \in steps}
Inside(h) == {r \in Within({"hostGranted", "waiting", "flying", "landed"}) : at[r].host = h}
Holding == Within({"granted", "hostQueued", "hostWoken", "hostGranted", "waiting", "flying",
                   "landed", "freed"})

\* "total in-flight requests across all hosts" and "in-flight requests per host"
\* (RateController's options) are bounds: nobody takes a slot that was freed before
\* the request it was freed for has counted it.
InFlightBounded ==
    /\ Cardinality(Holding) =< globalConcurrency
    /\ \A h \in Host : Cardinality(Inside(h)) =< hostConcurrency

\* While anybody waits for a slot, each slot is taken or is somebody's who was woken
\* for it: no freed slot is forgotten (release and acquire are two moments).
Woken(s) ==
    IF s = Global THEN Within({"woken"})
    ELSE {r \in Within({"hostWoken"}) : at[r].host = s}
NoLostWakeup ==
    \A s \in Semaphore :
        queue[s] # <<>> => active[s] + Cardinality(Woken(s)) >= limit(s)

\* The slots as their callers see them: a slot belongs to the request that took it or
\* that was woken for it, and whoever has to wait is served in the order of asking.
Holders(s) == (IF s = Global THEN Holding ELSE Inside(s)) \cup Woken(s)

Slots ==
    INSTANCE SlotPool WITH
        Client  <- Request,
        Pool    <- Semaphore,
        Root    <- Global,
        holders <- [s \in Semaphore |-> Holders(s)],
        line    <- queue

\* Semaphore's two moments, a slot given back and the count of whoever it wakes, with
\* every other request's turn in between, are one step to its callers: nobody waits
\* while a slot is free, nobody overtakes, and a slot of a host is held within one of
\* the process.
SlotsInTurn == Slots!Spec

\* Every fetch returns or throws, whatever the other hosts do, behind however many
\* requests it queues: none of them keeps a slot for good.
EveryFetchReturns == \A r \in Request : []<>(at[r].step = "idle")

\* "the circuit breaker opens after repeated failures and half-opens later"
\* (test/jobDiscoverySecurity.test.js): a host is tried again.
HalfOpensLater == \A h \in Host : []<>(breaker[h].state # "OPEN")
=============================================================================
