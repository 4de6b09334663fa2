------------------------------ MODULE MCQueues ------------------------------
(***************************************************************************)
(* What waits in a queue, under fairness, for TLC: the tasks and the leads *)
(* of the two durable queues, and the requests at the transport's          *)
(* semaphores.  They share no variable here, so a behaviour lets one of    *)
(* them move, chosen at the start, and the others rest: the states add up  *)
(* instead of multiplying.                                                 *)
(***************************************************************************)
EXTENDS CrawlQueue, DiscoveryQueue, RateControl, SequencesExt

VARIABLE focus    \* the queue this behaviour is about

mcVars == <<vars, leadVars, rateVars, focus>>

Crawl(A) == focus = "crawl" /\ A /\ UNCHANGED <<leadVars, rateVars, focus>>
Discover(A) == focus = "leads" /\ A /\ UNCHANGED <<vars, rateVars, focus>>
Requesting(A) == focus = "rate" /\ A /\ UNCHANGED <<vars, leadVars, focus>>

\* CrawlQueue's Fairness, DiscoveryQueue's LeadFairness and RateControl's
\* RateFairness, condition by condition.  Only one of the three ever moves in a
\* behaviour, so what is fair to an action of each is fair to their disjunction, and
\* one condition stands for up to three.
AnyTask == CHOOSE t \in TaskId : TRUE
LeadAt == SetToSeq(Lead)
ProberAt == SetToSeq(Prober)
WorkerAt == SetToSeq(Worker)
CallerAt == SetToSeq(Request)

ASSUME OneForEach ==
    /\ {Cardinality(TaskId), Cardinality(Client)} = {1}
    /\ {Len(LeadAt), Len(ProberAt), Len(WorkerAt)} = {2} /\ Seeder = {}
    /\ Len(CallerAt) = 3

CrawlTurn(i) ==
    Crawl(\E w \in Worker :
              \/ i = 1 /\ lease(w, AnyTask)
              \/ i = 2 /\ startRun(w, AnyTask)
              \/ i = 3 /\ running[w] = AnyTask /\ completeRun(w))

LeadTurn(i) ==
    \/ i \in 1 .. 2 /\ Discover(\E w \in Prober : Lease(w, LeadAt[i]))
    \/ i \in 3 .. 4 /\ Discover(\E w \in Prober : StartProbe(w, LeadAt[i - 2]))
    \/ i \in 5 .. 6 /\ Discover(Verdict(ProberAt[i - 4]))

CallerTurn(i) == i \in 1 .. 3 /\ Requesting(RequestStep(CallerAt[i]))

LiveFairness ==
    /\ WF_mcVars(Crawl(Tick) \/ Discover(LeadTick) \/ Requesting(continue))
    /\ WF_mcVars(Crawl(\E c \in Client : putIntent(c)) \/ Requesting(RateTick))
    /\ \A i \in 1 .. 6 : SF_mcVars(CrawlTurn(i) \/ LeadTurn(i) \/ CallerTurn(i))
    /\ \A i \in 1 .. 2 :
          /\ WF_mcVars(Discover(EnqueuePut(ProberAt[i])))
          /\ WF_mcVars(\/ Crawl(WorkerStep(WorkerAt[i]))
                       \/ Discover(\E l \in Lead : \/ StartProbe(ProberAt[i], l)
                                                   \/ Defer(ProberAt[i], l)))

\* Of the discovery queue the calm behaviours: MCDiscovery takes the others.
LiveInit ==
    /\ focus \in {"crawl", "leads", "rate"}
    /\ Init /\ LeadInit /\ RateInit
    /\ calm = TRUE

LiveSpec ==
    /\ LiveInit
    /\ [][Crawl(Next) \/ Discover(LeadNext) \/ Requesting(RateNext)]_mcVars
    /\ LiveFairness
=============================================================================
