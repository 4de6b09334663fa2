----------------------------- MODULE MCRecords -----------------------------
(***************************************************************************)
(* Records that several requests or passes put over each other, for TLC: a *)
(* team project, accounts under deletion, placement outcomes and a job of  *)
(* the board.  They share no variable: a behaviour is about one of them,   *)
(* chosen at the start.                                                    *)
(***************************************************************************)
EXTENDS TeamProject, AccountDeletion, PlacementDrive, MCJobLifecycle

VARIABLE focus    \* the record this behaviour is about

mcVars == <<teamVars, acctVars, driveVars, vars, focus>>

Team(Step) == focus = "team" /\ Step /\ UNCHANGED <<acctVars, driveVars, vars, focus>>
Deletion(Step) == focus = "account" /\ Step /\ UNCHANGED <<teamVars, driveVars, vars, focus>>
Placement(Step) == focus = "drive" /\ Step /\ UNCHANGED <<teamVars, acctVars, vars, focus>>
Vacancy(Step) == focus = "job" /\ Step /\ UNCHANGED <<teamVars, acctVars, driveVars, focus>>

\* One focus, one choice of mode.
AnyInit ==
    /\ focus \in {"team", "account", "drive", "job"}
    /\ TeamInit /\ AcctInit /\ DriveInit /\ Init
    /\ calm => focus = "team"
    /\ quiet => focus = "account"
    /\ tidy => focus = "drive"

AnySpec ==
    /\ AnyInit
    /\ [][\/ Team(TeamNext) \/ Deletion(AcctNext) \/ Placement(DriveNext)
          \/ Vacancy(Next)]_mcVars

\* The slots of the three records of the database are the same model values in
\* Records.cfg.
Symmetry ==
    Permutations(Request) \cup Permutations(Member) \cup Permutations(Link)
=============================================================================
