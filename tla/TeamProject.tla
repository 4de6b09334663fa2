---------------------------- MODULE TeamProject ----------------------------
(***************************************************************************)
(* One team project of a college and the requests that rewrite it          *)
(* (teamProjectRoutes.js, teamProgressRoutes.js, db.js).  Every request    *)
(* computes a patch, most of them from a copy of the project read earlier, *)
(* some of them across a slow look at GitHub or the hosted site.           *)
(* updateTeamProject merges the patch: in memory in one step; in MongoDB   *)
(* it finds the document, merges and saves ALL of `data', so two updates   *)
(* that overlap lose one of them.                                          *)
(***************************************************************************)
EXTENDS Naturals, Sequences

CONSTANTS
    Member,    \* the students of the team, each the owner of one module
    Link,      \* what a team may submit
    NoLink,    \* nothing submitted
    Request,   \* slots for the requests being served
    Kept       \* submissions kept in the history (10)

ASSUME TeamAssumption ==
    /\ NoLink \notin Link
    /\ Kept \in Nat \ {0}

VARIABLES
    project,   \* the stored document as a set: empty once it is deleted
    request,   \* what each request holds
    ticked,    \* history: who ever marked their own module done
    calm       \* no two saves overlap, no submission falls inside a check

teamVars == <<project, request, ticked, calm>>

Module == {"todo", "done"}
BadgeVerdict == {{}} \cup {{l} : l \in Link \cup {NoLink}}
Project == [link : Link \cup {NoLink}, history : Seq(Link), verdict : BadgeVerdict,
            progress : [Member -> Module]]

NoPatch == [f \in {} |-> {}]
IsPatch(patch) ==
    \/ patch = NoPatch
    \/ patch \in [link : Link, history : Seq(Link), verdict : {{}}]
    \/ patch \in [verdict : BadgeVerdict]
    \/ patch \in [progress : [Member -> Module]]
IsCopy(docs) == docs = {} \/ \E p \in docs : docs = {p} /\ p \in Project
Idle == [at |-> "idle", read |-> {}, patch |-> NoPatch]

TeamInit ==
    /\ project = {[link |-> NoLink, history |-> <<>>, verdict |-> {},
                   progress |-> [m \in Member |-> "todo"]]}
    /\ request = [r \in Request |-> Idle]
    /\ ticked = {}
    /\ calm \in BOOLEAN

-----------------------------------------------------------------------------
(* updateTeamProject *)

Merge(doc, patch) ==
    [f \in DOMAIN doc |-> IF f \in DOMAIN patch THEN patch[f] ELSE doc[f]]

Hold(r, at, read, patch) ==
    request' = [request EXCEPT ![r] = [at |-> at, read |-> read, patch |-> patch]]

\* A request whose handler has read nothing, or whose read and patch fall
\* together, goes straight to updateTeamProject.
Ask(r, patch) ==
    /\ request[r] = Idle
    /\ Hold(r, "updating", {}, patch)
    /\ UNCHANGED <<project, calm>>

FindDoc(r) ==
    /\ request[r].at = "updating"
    /\ calm => \A q \in Request : request[q].at # "saving"
    /\ IF project = {} THEN request' = [request EXCEPT ![r] = Idle]     \* not_found
                       ELSE Hold(r, "saving", project, request[r].patch)
    /\ UNCHANGED <<project, ticked, calm>>

\* save of a document that was deleted meanwhile throws and leaves nothing.
SaveDoc(r) ==
    /\ request[r].at = "saving"
    /\ project' = IF project = {} THEN {}
                  ELSE {Merge(doc, request[r].patch) : doc \in request[r].read}
    /\ request' = [request EXCEPT ![r] = Idle]
    /\ UNCHANGED <<ticked, calm>>

-----------------------------------------------------------------------------
(* The routes *)

Submitting == {r \in Request : "link" \in DOMAIN request[r].patch}
Checking == {r \in Request : \/ request[r].at = "checking"
                             \/ "verdict" \in DOMAIN request[r].patch /\ r \notin Submitting}

\* Mutants: the verdict survives; the history gets the link that was replaced.
submissionSticky(p, l) ==
    [link |-> l, history |-> Append(p.history, l)]
submissionBehind(p, l) ==
    [link |-> l, history |-> IF p.link = NoLink THEN p.history ELSE <<p.link>>, verdict |-> {}]

\* A new submission invalidates the previous verdict.
submission(p, l) ==
    LET n == Len(p.history)
        recent == IF n < Kept THEN p.history ELSE SubSeq(p.history, n + 2 - Kept, n)
    IN [link |-> l, history |-> Append(recent, l), verdict |-> {}]

submitTeamProjectLink(r, l) ==
    /\ calm => Checking = {}
    /\ \E p \in project : Ask(r, submission(p, l))
    /\ UNCHANGED ticked

\* Mutant: a student may name a teammate's module.
ownedByAnyone(m, owner) == TRUE

\* Only the owner's row has the module.
owned(m, owner) == m = owner

\* A student marks a module; the patch carries the rows of the whole team.
patchModule(r, m, owner, status) ==
    /\ owned(m, owner)
    /\ \E p \in project : Ask(r, [progress |-> [p.progress EXCEPT ![owner] = status]])
    /\ ticked' = IF status = "done" /\ m = owner THEN ticked \cup {m} ELSE ticked

\* sync-commits reads the project, looks at GitHub, and puts every row back;
\* link-github does so at once.  Only the rows' commit fields change.
syncCommits(r) ==
    /\ \E p \in project : Ask(r, [progress |-> p.progress])
    /\ UNCHANGED ticked

\* The coordinator's PATCH and request-link change fields that nothing here reads
\* (a title, a due date, the list of requests), and save everything.
patchProject(r) ==
    /\ project # {}
    /\ Ask(r, NoPatch)
    /\ UNCHANGED ticked

\* verify: reads the project, then checks what it had submitted.
verifyRead(r) ==
    /\ request[r] = Idle
    /\ project # {}
    /\ calm => Submitting = {}
    /\ Hold(r, "checking", project, NoPatch)
    /\ UNCHANGED <<project, ticked, calm>>

\* Passed, failed, pending or nothing to check: the verdict is about the link that
\* was read.
verifyEnd(r) ==
    /\ request[r].at = "checking"
    /\ \E p \in request[r].read : Hold(r, "updating", {}, [verdict |-> {p.link}])
    /\ UNCHANGED <<project, ticked, calm>>

deleteTeamProject ==
    /\ project # {}
    /\ project' = {}
    /\ UNCHANGED <<request, ticked, calm>>

\* The process dies or the database fails a request.
Drop(r) ==
    /\ request[r] # Idle
    /\ request' = [request EXCEPT ![r] = Idle]
    /\ UNCHANGED <<project, ticked, calm>>

Serve(r) ==
    \/ FindDoc(r) \/ SaveDoc(r)
    \/ \E l \in Link : submitTeamProjectLink(r, l)
    \/ \E m, owner \in Member, status \in Module : patchModule(r, m, owner, status)
    \/ syncCommits(r) \/ patchProject(r)
    \/ verifyRead(r) \/ verifyEnd(r)
    \/ Drop(r)

TeamNext ==
    \/ \E r \in Request : Serve(r)
    \/ deleteTeamProject

TeamSpec == TeamInit /\ [][TeamNext]_teamVars

-----------------------------------------------------------------------------
(* Properties *)

\* The variables have their types.
TeamTypeOK ==
    /\ IsCopy(project)
    /\ DOMAIN request = Request
    /\ \A r \in Request :
          /\ request[r].at \in {"idle", "checking", "updating", "saving"}
          /\ IsCopy(request[r].read)
          /\ IsPatch(request[r].patch)
    /\ ticked \subseteq Member
    /\ calm \in BOOLEAN

\* What the project shows as submitted is always the last entry of the submission
\* history the coordinator sees, and never a link the history misses, although
\* stale saves may undo submissions (submitTeamProjectLink writes both at once).
HistoryTellsSubmission ==
    \A p \in project :
        p.link = (IF p.history = <<>> THEN NoLink ELSE p.history[Len(p.history)])

\* "a student cannot tick a teammate's deliverable" (applyModuleUpdate): a module
\* that shows as done was marked done by its owner, whoever saved its row last.
TicksAreTheOwners ==
    \A p \in project : \A m \in Member : p.progress[m] = "done" => m \in ticked

\* "A new submission invalidates the previous verdict" (submitTeamProjectLink): a
\* green badge is about the link that is submitted, while no submission is made
\* during a check and no two saves overlap; with either it may not be.
BadgeIsCurrent ==
    calm => \A p \in project : p.verdict \subseteq {p.link}
=============================================================================
