--------------------------- MODULE DiscoveryQueue ---------------------------
(***************************************************************************)
(* The discovery queue (discoveryQueue.js over store.js): one document per *)
(* lead, leased in batches by workers that probe the lead and write a      *)
(* verdict over their COPY of the document (sourceDiscovery.processTask,   *)
(* scheduler.discoverySlice), while seeders and the workers themselves     *)
(* enqueue leads, which puts a lead that is already known back as it was   *)
(* READ.  Unlike in the crawl queue, a lease costs no attempt and is never *)
(* renewed.                                                                *)
(*                                                                         *)
(* Instants are kept as the ticks left until them; payload, confidence and *)
(* priority, which only enrich a lead or order the lease, are left out.    *)
(***************************************************************************)
EXTENDS Integers, FiniteSets

CONSTANTS
    Prober,            \* worker processes
    Seeder,            \* other processes that enqueue: routes, manual ingestion
    NoProber,          \* leaseOwner: null
    Lead,              \* the canonical keys (discoveryKey)
    NoLead,            \* a worker between two leads
    MAX_ATTEMPTS,      \* 6 in the code
    BASE_BACKOFF,      \* 6 hours
    MAX_BACKOFF,       \* 30 days
    RESOLVED_RECHECK,  \* 21 days
    ProbeLease,        \* leaseMs, 2 minutes
    ProbeBatch,        \* limit, discoverPerTick
    MaxProberCrashes   \* bound: how many crashes a behaviour may have

ASSUME DiscoveryAssumption ==
    /\ NoProber \notin Prober
    /\ NoLead \notin Lead
    /\ MAX_ATTEMPTS \in Nat \ {0}
    /\ BASE_BACKOFF \in Nat \ {0} /\ MAX_BACKOFF \in Nat /\ RESOLVED_RECHECK \in Nat
    /\ ProbeLease \in Nat \ {0}
    /\ ProbeBatch \in Nat \ {0}
    /\ MaxProberCrashes \in Nat

DISCOVERY_STATE == {"PENDING", "LEASED", "RETRY", "RESOLVED", "EXHAUSTED", "DEAD"}
Open == {"PENDING", "LEASED", "RETRY"}

\* ABSENT stands for "no document with this key".
LeadDoc == [state    : DISCOVERY_STATE \cup {"ABSENT"},
            attempts : 0 .. MAX_ATTEMPTS,
            waitLeft : Nat,
            owner    : Prober \cup {NoProber},
            leaseLeft: 0 .. ProbeLease]

FreshLead(state) == [state |-> state, attempts |-> 0, waitLeft |-> 0,
                     owner |-> NoProber, leaseLeft |-> 0]
NoDoc == FreshLead("ABSENT")
makeDiscoveryTask == FreshLead("PENDING")

backoff(attempts) ==
    LET doubled == BASE_BACKOFF * 2 ^ (IF attempts > 1 THEN attempts - 1 ELSE 0)
    IN  IF doubled < MAX_BACKOFF THEN doubled ELSE MAX_BACKOFF

-----------------------------------------------------------------------------
(* What the operations write. *)

\* Mutant: an expired lease is not looked for.
leasableNoReclaim(doc) == doc.state \in {"PENDING", "RETRY"} /\ doc.waitLeft = 0

\* Mutant: the second conjunct of the query, nextAttemptAt, is dropped.
leasableEarly(doc) ==
    \/ doc.state \in {"PENDING", "RETRY"}
    \/ doc.state = "LEASED" /\ doc.leaseLeft = 0

leasable(doc) ==
    /\ \/ doc.state \in {"PENDING", "RETRY"}
       \/ doc.state = "LEASED" /\ doc.leaseLeft = 0
    /\ doc.waitLeft = 0

leaseTo(doc, w) ==
    [doc EXCEPT !.state = "LEASED", !.owner = w, !.leaseLeft = ProbeLease]

\* Mutant: a lead that ran out of attempts is seeded again as if it were new.
enqueuedAgain(doc) ==
    IF doc.state \in {"ABSENT", "EXHAUSTED"} THEN makeDiscoveryTask ELSE doc

\* An existing key is enriched, which writes the copy that was read.
enqueued(doc) == IF doc.state = "ABSENT" THEN makeDiscoveryTask ELSE doc

released(doc) == [doc EXCEPT !.owner = NoProber, !.leaseLeft = 0]

\* Mutant: a deferred lead is left LEASED, with its lease still running.
deferredLeased(doc) == [doc EXCEPT !.waitLeft = 1]

deferred(doc) == [released(doc) EXCEPT !.state = "RETRY", !.waitLeft = 0]

resolved(doc) ==
    [released(doc) EXCEPT !.state = "RESOLVED", !.attempts = @ + 1,
                          !.waitLeft = RESOLVED_RECHECK]

\* Mutant: a retry does not count the attempt.
failedUncounted(doc, permanent) ==
    LET attempts == doc.attempts + 1 IN
    IF permanent \/ attempts >= MAX_ATTEMPTS
    THEN [released(doc) EXCEPT !.attempts = attempts, !.waitLeft = 0,
                               !.state = IF permanent THEN "DEAD" ELSE "EXHAUSTED"]
    ELSE [released(doc) EXCEPT !.state = "RETRY", !.waitLeft = backoff(attempts)]

failed(doc, permanent) ==
    LET attempts == doc.attempts + 1 IN
    IF permanent \/ attempts >= MAX_ATTEMPTS
    THEN [released(doc) EXCEPT !.attempts = attempts, !.waitLeft = 0,
                               !.state = IF permanent THEN "DEAD" ELSE "EXHAUSTED"]
    ELSE [released(doc) EXCEPT !.attempts = attempts, !.state = "RETRY",
                               !.waitLeft = backoff(attempts)]

Sooner(n) == IF n = 0 THEN 0 ELSE n - 1
AgedLead(doc) == [doc EXCEPT !.waitLeft = Sooner(@), !.leaseLeft = Sooner(@)]

-----------------------------------------------------------------------------
VARIABLES
    lead,        \* the stored documents
    reading,     \* what a process has read of a lead and is about to put
    copy,        \* a worker's copies of the leads it leased
    probing,     \* the lead a worker is probing
    turn,        \* "filling" while a lease call loops, then "draining"
    deaths,      \* how many crashes have happened
    secured,     \* history: ticks a worker may still count on its own lease
    owed,        \* history: ticks the last failure says to leave the lead alone
    probes,      \* history: probes of a lead that reached a verdict
    calm         \* no worker outlives a lease, no write falls into an enqueue

leadVars == <<lead, reading, copy, probing, turn, deaths, secured, owed, probes, calm>>
proberVars == <<copy, probing, turn, deaths, secured>>

Agent == Prober \cup Seeder
Reading == [key : Lead, doc : LeadDoc]

HasCopy(w, l) == copy[w][l].state # "ABSENT"
NoCopies == [l \in Lead |-> NoDoc]
EmptyHanded(w) == copy[w] = NoCopies

\* In a calm behaviour nothing is written to a lead between an enqueue's read and
\* its put, and enqueues come one after the other.
Undisturbed(l) == calm => \A a \in Agent : \A r \in reading[a] : r.key # l

LeadInit ==
    /\ lead    = [l \in Lead |-> NoDoc]
    /\ reading = [a \in Agent |-> {}]
    /\ copy    = [w \in Prober |-> NoCopies]
    /\ probing = [w \in Prober |-> NoLead]
    /\ turn    = [w \in Prober |-> "filling"]
    /\ deaths  = 0
    /\ secured = [w \in Prober |-> [l \in Lead |-> 0]]
    /\ owed    = [l \in Lead |-> 0]
    /\ probes  = [l \in Lead |-> 0]
    /\ calm \in BOOLEAN

\* A worker seeds before it leases (discoverySlice), and queues what a page or a
\* sitemap it is probing links to (processCareersUrl, processSitemap).
EnqueueRead(a, l) ==
    /\ reading[a] = {}
    /\ a \in Prober => EmptyHanded(a) \/ probing[a] # NoLead
    /\ calm => \A b \in Agent : reading[b] = {}
    /\ reading' = [reading EXCEPT ![a] = {[key |-> l, doc |-> lead[l]]}]
    /\ UNCHANGED <<lead, proberVars, owed, probes, calm>>

EnqueuePut(a) ==
    /\ \E r \in reading[a] : lead' = [lead EXCEPT ![r.key] = enqueued(r.doc)]
    /\ reading' = [reading EXCEPT ![a] = {}]
    /\ UNCHANGED <<proberVars, owed, probes, calm>>

Lease(w, l) ==
    /\ turn[w] = "filling"
    /\ reading[w] = {}
    /\ Cardinality({k \in Lead : HasCopy(w, k)}) < ProbeBatch
    /\ ~HasCopy(w, l)
    /\ leasable(lead[l])
    /\ Undisturbed(l)
    /\ lead' = [lead EXCEPT ![l] = leaseTo(@, w)]
    /\ copy' = [copy EXCEPT ![w][l] = leaseTo(lead[l], w)]
    /\ secured' = [secured EXCEPT ![w][l] = IF calm THEN ProbeLease ELSE 0]
    /\ UNCHANGED <<reading, probing, turn, deaths, owed, probes, calm>>

StartProbe(w, l) ==
    /\ probing[w] = NoLead
    /\ reading[w] = {}
    /\ HasCopy(w, l)
    /\ probing' = [probing EXCEPT ![w] = l]
    /\ turn' = [turn EXCEPT ![w] = "draining"]
    /\ UNCHANGED <<lead, reading, copy, deaths, secured, owed, probes, calm>>

\* Putting the document that ends a lead's turn, and dropping the copy.
EndTurn(w, l, doc) ==
    /\ reading[w] = {}
    /\ Undisturbed(l)
    /\ lead' = [lead EXCEPT ![l] = doc]
    /\ copy' = [copy EXCEPT ![w][l] = NoDoc]
    /\ secured' = [secured EXCEPT ![w][l] = 0]
    /\ probing' = [probing EXCEPT ![w] = NoLead]
    /\ turn' = [turn EXCEPT ![w] =
                  IF \E k \in Lead \ {l} : HasCopy(w, k) THEN "draining" ELSE "filling"]
    /\ UNCHANGED <<reading, deaths, calm>>

\* The execution deadline passed before this lead's turn came.
Defer(w, l) ==
    /\ probing[w] = NoLead
    /\ HasCopy(w, l)
    /\ EndTurn(w, l, deferred(copy[w][l]))
    /\ UNCHANGED <<owed, probes>>

CountProbe(l) == probes' = [probes EXCEPT ![l] = IF calm /\ @ <= MAX_ATTEMPTS THEN @ + 1 ELSE @]

Resolve(w) ==
    /\ probing[w] # NoLead
    /\ EndTurn(w, probing[w], resolved(copy[w][probing[w]]))
    /\ CountProbe(probing[w])
    /\ UNCHANGED owed

Fail(w, permanent) ==
    /\ probing[w] # NoLead
    /\ LET l == probing[w] IN
       /\ EndTurn(w, l, failed(copy[w][l], permanent))
       /\ CountProbe(l)
       /\ owed' = [owed EXCEPT ![l] = IF calm THEN backoff(copy[w][l].attempts + 1) ELSE 0]

\* The process dies, or the store fails the write of a verdict and the tick ends:
\* whatever the worker had in hand stays leased in its name.
Crash(w) ==
    /\ deaths < MaxProberCrashes
    /\ ~EmptyHanded(w) \/ reading[w] # {}
    /\ deaths' = deaths + 1
    /\ copy' = [copy EXCEPT ![w] = NoCopies]
    /\ secured' = [secured EXCEPT ![w] = [l \in Lead |-> 0]]
    /\ probing' = [probing EXCEPT ![w] = NoLead]
    /\ turn' = [turn EXCEPT ![w] = "filling"]
    /\ reading' = [reading EXCEPT ![w] = {}]
    /\ UNCHANGED <<lead, owed, probes, calm>>

LeadTick ==
    /\ calm => \A w \in Prober, l \in Lead : secured[w][l] # 1
    /\ lead' = [l \in Lead |-> AgedLead(lead[l])]
    /\ copy' = [w \in Prober |-> [l \in Lead |-> AgedLead(copy[w][l])]]
    /\ reading' = [a \in Agent |-> {[r EXCEPT !.doc = AgedLead(@)] : r \in reading[a]}]
    /\ secured' = [w \in Prober |-> [l \in Lead |-> Sooner(secured[w][l])]]
    /\ owed' = [l \in Lead |-> Sooner(owed[l])]
    /\ UNCHANGED <<probing, turn, deaths, probes, calm>>

Verdict(w) == Resolve(w) \/ \E permanent \in BOOLEAN : Fail(w, permanent)

ProberStep(w) ==
    \/ \E l \in Lead : Lease(w, l) \/ StartProbe(w, l) \/ Defer(w, l)
    \/ Verdict(w)

LeadNext ==
    \/ \E a \in Agent : (\E l \in Lead : EnqueueRead(a, l)) \/ EnqueuePut(a)
    \/ \E w \in Prober : ProberStep(w) \/ Crash(w)
    \/ LeadTick

LeadSpec == LeadInit /\ [][LeadNext]_leadVars

\* Time passes; what was read is put; discoverySlice runs again and again, with
\* time enough in some of its runs for a probe of each lead, and every probe comes
\* to a verdict: processTask "never throws: the queue needs a verdict for every
\* task" (sourceDiscovery.js:315-317), requests time out and pages end.  The
\* verdict is strongly fair because enqueues of the same lead may keep slipping in
\* before it.  No deferral, resolution or crash is ever bound to happen.
LeadFairness ==
    /\ WF_leadVars(LeadTick)
    /\ \A a \in Agent : WF_leadVars(EnqueuePut(a))
    /\ \A l \in Lead : SF_leadVars(\E w \in Prober : Lease(w, l))
    /\ \A l \in Lead : SF_leadVars(\E w \in Prober : StartProbe(w, l))
    /\ \A w \in Prober :
          /\ WF_leadVars(\E l \in Lead : StartProbe(w, l) \/ Defer(w, l))
          /\ SF_leadVars(Verdict(w))

-----------------------------------------------------------------------------
(* Properties *)

\* Every variable has its type; in particular no document ever counts more
\* attempts than MAX_ATTEMPTS, although nothing in lease or resolve asks.
LeadTypeOK ==
    /\ lead \in [Lead -> LeadDoc]
    /\ reading \in [Agent -> SUBSET Reading]
    /\ copy \in [Prober -> [Lead -> LeadDoc]]
    /\ probing \in [Prober -> Lead \cup {NoLead}]
    /\ turn \in [Prober -> {"filling", "draining"}]
    /\ deaths \in Nat
    /\ secured \in [Prober -> [Lead -> 0 .. ProbeLease]]
    /\ owed \in [Lead -> Nat]
    /\ probes \in [Lead -> 0 .. MAX_ATTEMPTS + 1]
    /\ calm \in BOOLEAN

\* The lease that a dead worker leaves behind can always be taken over: whatever
\* stale copies enqueues and late verdicts put over a lead, one that says LEASED
\* is not also waiting for a later nextAttemptAt, which the lease query demands
\* of it too (store.js:1602-1608), and still has an attempt to spend.
LapsedLeadIsDue ==
    \A l \in Lead : lead[l].state = "LEASED" =>
        /\ lead[l].leaseLeft = 0 => leasable(lead[l])
        /\ lead[l].owner \in Prober
        /\ lead[l].attempts < MAX_ATTEMPTS

\* An enqueue "cannot wipe out a backoff that a string of failures earned"
\* (discoveryQueue.js:136-137): in calm behaviours, while the last failure's backoff
\* has not run out, no worker probes the lead, nor holds it to probe it next.  An
\* enqueue that read the lead before the failure and puts it after does wipe it out.
BackoffIsKept ==
    calm => \A w \in Prober, l \in Lead : owed[l] > 0 => ~HasCopy(w, l)

\* In calm behaviours, the attempts a document counts are the probes of the lead that
\* came to a verdict, so EXHAUSTED means MAX_ATTEMPTS real ones: a deferral, a crash
\* and an enqueue that read after the verdict cost none and hide none.
AttemptsAreProbes == calm => \A l \in Lead : lead[l].attempts = probes[l]

\* "Resolved is not final" (discoveryQueue.js:207); exhausted and dead are.
leadStatus(doc) ==
    CASE doc.state = "ABSENT"   -> "none"
      [] doc.state \in Open     -> "open"
      [] doc.state = "RESOLVED" -> "shelved"
      [] OTHER                  -> "done"

Promise ==
    INSTANCE LeaseQueue WITH
        Worker    <- Prober,
        Task      <- Lead,
        status    <- [l \in Lead |-> leadStatus(lead[l])],
        workingOn <- [w \in Prober |-> {l \in Lead : HasCopy(w, l)}]

\* In calm behaviours the queue implements the abstract one: one worker at a time
\* has a lead, only that worker settles it, and a lead that is exhausted or dead is
\* never open again, whoever enqueues it afterwards ("or resurrect a lead we proved
\* is unusable", discoveryQueue.js:137).  Of a resolved lead it says no such thing.
\* An enqueue that read the lead before its verdict is not calm, and does put a
\* dead one back.
LeadsKeepPromise ==
    /\ calm => Promise!Init
    /\ [][calm => Promise!Next]_<<[l \in Lead |-> leadStatus(lead[l])],
                                  [w \in Prober |-> {l \in Lead : HasCopy(w, l)}]>>

\* In calm behaviours every lead comes to a verdict, through deferrals, crashes
\* and backoffs: "leaves the lead EXHAUSTED - recorded, not deleted"
\* (discoveryQueue.js:224-225), never forgotten half way.
EveryLeadSettles ==
    \A l \in Lead : []<>(calm => lead[l].state \notin Open)

\* "Resolved is not final: ... the lead is rechecked long after the fact rather than
\* closed forever" (discoveryQueue.js:207-208): a resolved lead whose recheck is due
\* is leased again.  The lease query asks for no RESOLVED lead, so it never is.
ResolvedIsRechecked ==
    \A l \in Lead :
        lead[l].state = "RESOLVED" /\ lead[l].waitLeft = 0 ~> lead[l].state = "LEASED"
=============================================================================
