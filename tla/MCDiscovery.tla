---------------------------- MODULE MCDiscovery ----------------------------
(***************************************************************************)
(* Safety of four parts of job discovery for TLC: the crawl queue in       *)
(* timely behaviours, the discovery queue in behaviours that are not calm, *)
(* the source registry in orderly ones, and the transport.  They share no  *)
(* variable here, so a behaviour lets one of them move, chosen at the      *)
(* start, and the others rest: the states add up instead of multiplying.   *)
(***************************************************************************)
EXTENDS CrawlQueue, DiscoveryQueue, SourceRegistry, RateControl, TLC

VARIABLE focus    \* the component this behaviour is about

mcVars == <<vars, leadVars, regVars, rateVars, focus>>

Crawl(A) == focus = "crawl" /\ A /\ UNCHANGED <<leadVars, regVars, rateVars, focus>>
Discover(A) == focus = "leads" /\ A /\ UNCHANGED <<vars, regVars, rateVars, focus>>
Register(A) == focus = "registry" /\ A /\ UNCHANGED <<vars, leadVars, rateVars, focus>>
Requesting(A) == focus = "rate" /\ A /\ UNCHANGED <<vars, leadVars, regVars, focus>>

AnyInit ==
    /\ focus \in {"crawl", "leads", "registry", "rate"}
    /\ Init /\ LeadInit /\ RegInit /\ RateInit
    /\ calm = FALSE /\ orderly = TRUE

AnySpec ==
    /\ AnyInit
    /\ [][\/ Crawl(Next) \/ Discover(LeadNext)
          \/ Register(RegNext) \/ Requesting(RateNext)]_mcVars

\* The slots of the first three components are the same model values in Discovery.cfg.
Symmetry == Permutations(Worker)
=============================================================================
