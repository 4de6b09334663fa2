---------------------------- MODULE MCScheduler ----------------------------
(***************************************************************************)
(* What ticks that go on owe the boards and the jobs, for TLC: BoardCrawl  *)
(* and VerificationBudget under fairness.  They share no variable here, so *)
(* a behaviour lets one of them move, chosen at the start.                 *)
(***************************************************************************)
EXTENDS MCBoardCrawl, MCVerification

VARIABLE focus    \* what this behaviour is about

mcVars == <<vars, budgetVars, focus>>

OnBoard(Step) == focus = "board" /\ Step /\ UNCHANGED <<budgetVars, focus>>
OnJobs(Step) == focus = "jobs" /\ Step /\ UNCHANGED <<vars, focus>>

\* BoardCrawl's Fairness, and VerificationBudget's BudgetFairness.
TickFairness ==
    /\ WF_mcVars(OnBoard(enqueue)) /\ WF_mcVars(OnBoard(Crawl))
    /\ WF_mcVars(OnJobs(PassStep))
    /\ \A j \in JobId \ Obscure : SF_mcVars(OnJobs(conclude(j)))

LiveInit ==
    /\ focus \in {"board", "jobs"}
    /\ Init /\ BudgetInit

LiveSpec ==
    /\ LiveInit
    /\ [][OnBoard(Next) \/ OnJobs(BudgetNext)]_mcVars
    /\ TickFairness
=============================================================================
