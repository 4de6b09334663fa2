------------------------- MODULE VerificationBudget -------------------------
(***************************************************************************)
(* The verification passes of a scheduler (VerificationWorker.run in       *)
(* scheduler.js) and the policy that spends their budget                   *)
(* (verificationPolicy.js): the store lists candidates, the policy takes   *)
(* the heaviest that are due, and each check says when the job comes up    *)
(* again.  A crawl that sees a job reschedules it too (ingest.js).  The    *)
(* phases of a tick follow one another, so nothing else writes jobs during *)
(* a pass: JobLifecycle has what happens when something does.  It assumes  *)
(* that a flagged job is picked up again and again; here is why.           *)
(***************************************************************************)
EXTENDS Integers, FiniteSets, Sequences

CONSTANTS
    JobId,        \* job documents, ordered by their ids
    base,         \* the score of a job's age, source, changes and completeness
    Checkable,    \* the jobs with an instance that has a url
    Obscure,      \* the jobs whose checks need never tell whether they are up
    INTERVAL,     \* TIER_INTERVAL_HOURS, in passes
    Limit,        \* checks of a pass (verifyPerTick, 20)
    Fetch,        \* candidates read for a pass (4 * Limit)
    NoJob,
    MaxOverdue,   \* bound: overdue times saturate
    MaxFlags,     \* bound: how often jobs are flagged in a behaviour
    MaxCuts       \* bound: passes cut off by a deadline or a crash

\* Each tier stands for its weight: the heavier is the greater (TIER_WEIGHT).
DORMANT == 1
COLD    == 2
STEADY  == 3
WARM    == 4
HOT     == 5
URGENT  == 6
VERIFY_TIER == DORMANT .. URGENT

ASSUME BudgetAssumption ==
    /\ JobId \subseteq Nat /\ IsFiniteSet(JobId) /\ NoJob \notin JobId
    /\ base \in [JobId -> Nat]
    /\ Checkable \subseteq JobId /\ Obscure \subseteq JobId
    /\ INTERVAL \in [VERIFY_TIER -> Nat \ {0}]
    /\ \A t \in VERIFY_TIER : INTERVAL[t] =< INTERVAL[DORMANT]
    /\ {Limit, Fetch} \subseteq Nat \ {0} /\ Limit =< Fetch
    /\ {MaxOverdue, MaxFlags, MaxCuts} \subseteq Nat

VARIABLES
    docs,      \* the stored jobs
    pass,      \* the jobs a pass has still to check
    phase,     \* of a tick: "crawl", then "verify"
    checked,   \* history: the job that was checked last in this pass
    flags,     \* how many times a job was flagged
    cuts       \* how many passes were cut off

budgetVars == <<docs, pass, phase, checked, flags, cuts>>

\* left is the time until nextVerifyAt, since the time from lastVerifiedAt on.
\* Every stored job but a REMOVED one has a nextVerifyAt (ingest.js and run set it
\* with each document they put), so the policy's cases for jobs without one, kept
\* for documents older than the policy, do not arise.  FLAGGED is any status with
\* needsVerification set, STALE always among them (JobLifecycle's StaleIsFlagged),
\* and ACTIVE is NEW too: the policy treats them alike.
MaxSince == MaxOverdue + INTERVAL[DORMANT]
JobDoc == [status : {"ACTIVE", "LIKELY_ACTIVE", "FLAGGED", "REMOVED"},
           verified : BOOLEAN, since : 0 .. MaxSince,
           left : -MaxOverdue .. INTERVAL[DORMANT]]

-----------------------------------------------------------------------------
(* The policy *)

verificationTier(j, doc) ==
    LET score == base[j] + (IF doc.status = "LIKELY_ACTIVE" THEN 1 ELSE 0)
    IN CASE doc.status = "REMOVED" -> DORMANT
         [] doc.status = "FLAGGED" -> URGENT
         [] OTHER -> CASE score >= 5       -> HOT
                       [] score = 4        -> WARM
                       [] score \in {2, 3} -> STEADY
                       [] score = 1        -> COLD
                       [] score = 0        -> DORMANT

Floored(n) == IF n < -MaxOverdue THEN -MaxOverdue ELSE n

\* The next check, counted from ago.
applyVerificationSchedule(j, doc, ago) ==
    [doc EXCEPT !.left = IF doc.status = "REMOVED" THEN 0
                         ELSE Floored(INTERVAL[verificationTier(j, doc)] - ago)]

\* Mutant: a crawl always counts from now.
anchorNow(doc) == 0

\* A crawl counts from the last verification, or from now when there was none.
anchor(doc) == IF doc.verified THEN doc.since ELSE 0

isVerificationDue(doc) ==
    doc.status = "FLAGGED" \/ (doc.status # "REMOVED" /\ doc.left =< 0)

overdueBy(doc) == IF doc.left < 0 THEN -doc.left ELSE 0

Heavier(i, j) ==
    LET a == docs[i]
        b == docs[j]
        v == verificationTier(i, a)
        w == verificationTier(j, b)
    IN \/ v > w
       \/ v = w /\ overdueBy(a) > overdueBy(b)
       \/ v = w /\ overdueBy(a) = overdueBy(b) /\ i < j

\* The first n of a set in an order that may leave ties.
IsFirst(n, chosen, all, Before(_, _)) ==
    /\ chosen \subseteq all
    /\ Cardinality(chosen) = (IF Cardinality(all) < n THEN Cardinality(all) ELSE n)
    /\ \A i \in chosen, j \in all \ chosen : ~Before(j, i)

\* listVerificationCandidates: what the query matches, flagged jobs first and then
\* those that have waited longest.
AwaitsCheck(doc) == doc.status = "FLAGGED" \/ (doc.status # "REMOVED" /\ doc.left =< 0)

\* Mutant: the query sorts by the waiting time alone.
SortsByWait(i, j) == docs[i].left < docs[j].left

SortsBefore(i, j) ==
    LET first == docs[i].status = "FLAGGED"
        second == docs[j].status = "FLAGGED"
    IN \/ first /\ ~second
       \/ first = second /\ docs[i].left < docs[j].left

ListedCandidates(fetched) ==
    IsFirst(Fetch, fetched, {j \in JobId : AwaitsCheck(docs[j])}, SortsBefore)

\* Mutant: while a job is flagged, only flagged jobs are looked at.
allocateToFlagged(taken, fetched) ==
    LET urgent == {j \in fetched : docs[j].status = "FLAGGED"}
    IN IsFirst(Limit, taken, IF urgent # {} THEN urgent ELSE fetched, Heavier)

\* allocateVerificationBudget
allocateBudget(taken, fetched) ==
    IsFirst(Limit, taken, {j \in fetched : isVerificationDue(docs[j])}, Heavier)

-----------------------------------------------------------------------------
(* A pass *)

BudgetInit ==
    /\ docs = [j \in JobId |->
                  applyVerificationSchedule(j,
                      [status |-> "ACTIVE", verified |-> FALSE, since |-> 0, left |-> 0], 0)]
    /\ pass = <<>>
    /\ phase = "crawl"
    /\ checked = NoJob
    /\ flags = 0
    /\ cuts = 0

beginPass ==
    /\ phase = "crawl"
    /\ \E fetched, taken \in SUBSET JobId :
          /\ ListedCandidates(fetched)
          /\ allocateBudget(taken, fetched)
          /\ pass' \in {s \in [1 .. Cardinality(taken) -> taken] :
                           \A m, n \in DOMAIN s : m < n => Heavier(s[m], s[n])}
    /\ phase' = "verify"
    /\ checked' = NoJob
    /\ UNCHANGED <<docs, flags, cuts>>

Doubted(status) == IF status = "ACTIVE" THEN {"ACTIVE", "LIKELY_ACTIVE"} ELSE {status}

\* applyVerification: the posting is up, or gone and nobody else lists it; it is
\* gone but another source lists the job, which leaves a flag; or the check did not
\* tell (a NEW job stays NEW then).
answered(doc) ==
    {[doc EXCEPT !.status = status, !.verified = TRUE, !.since = 0] :
        status \in {"ACTIVE", "REMOVED"}}
unanswered(doc) ==
    {[doc EXCEPT !.status = IF @ = "FLAGGED" THEN @ ELSE "LIKELY_ACTIVE",
                 !.verified = TRUE, !.since = 0]}
    \cup {[doc EXCEPT !.status = status] : status \in Doubted(doc.status)}

\* The schedule is counted from the check, whether or not it told.
checkJob(j, outcomes) ==
    /\ phase = "verify" /\ pass # <<>> /\ j = Head(pass) /\ j \in Checkable
    /\ \E doc \in outcomes :
          docs' = [docs EXCEPT ![j] = applyVerificationSchedule(j, doc, 0)]
    /\ checked' = j
    /\ pass' = Tail(pass)
    /\ UNCHANGED <<phase, flags, cuts>>

conclude(j) == checkJob(j, answered(docs[j]))
waver(j) == checkJob(j, unanswered(docs[j]))

\* No instance has a url: the slot is spent and nothing is put.
skip ==
    /\ phase = "verify" /\ pass # <<>> /\ Head(pass) \notin Checkable
    /\ pass' = Tail(pass)
    /\ UNCHANGED <<docs, phase, checked, flags, cuts>>

check == skip \/ \E j \in JobId : conclude(j) \/ waver(j)

\* The time between two passes, as a stored job sees it.
Later(doc) ==
    [doc EXCEPT !.since = IF doc.verified /\ @ < MaxSince THEN @ + 1 ELSE @,
                !.left = IF doc.status = "REMOVED" THEN 0 ELSE Floored(@ - 1)]

rest ==
    /\ pass' = <<>>
    /\ phase' = "crawl"
    /\ docs' = [j \in JobId |-> Later(docs[j])]
    /\ UNCHANGED <<checked, flags>>

endPass == phase = "verify" /\ pass = <<>> /\ rest /\ UNCHANGED cuts

\* The deadline passes before the next check, or the process dies.
cutOff ==
    /\ phase = "verify" /\ pass # <<>> /\ cuts < MaxCuts
    /\ cuts' = cuts + 1
    /\ rest

-----------------------------------------------------------------------------
(* What the crawls between two passes do to a job *)

Sighted(doc, material) ==
    [doc EXCEPT !.status = IF material \/ @ = "FLAGGED" THEN "FLAGGED" ELSE "ACTIVE"]

\* ingestRow on a job that is known: merged, seen, perhaps flagged for a material
\* change, and rescheduled.
seen(j, material) ==
    /\ phase = "crawl"
    /\ material => flags < MaxFlags /\ docs[j].status # "FLAGGED"
    /\ flags' = flags + (IF material THEN 1 ELSE 0)
    /\ docs' = [docs EXCEPT ![j] =
                   applyVerificationSchedule(j, Sighted(docs[j], material), anchor(docs[j]))]
    /\ UNCHANGED <<pass, phase, checked, cuts>>

\* observeMissing: one of several sources lost the job (a NEW one stays NEW), or the
\* last one did; also verifySource, which flags the jobs of a source.
losesSighting(j, gone) ==
    /\ phase = "crawl" /\ docs[j].status \in {"ACTIVE", "LIKELY_ACTIVE"}
    /\ gone => flags < MaxFlags
    /\ flags' = flags + (IF gone THEN 1 ELSE 0)
    /\ docs' = [docs EXCEPT ![j].status = IF gone THEN "FLAGGED" ELSE "LIKELY_ACTIVE"]
    /\ UNCHANGED <<pass, phase, checked, cuts>>

PassStep == beginPass \/ check \/ endPass

BudgetNext ==
    \/ PassStep \/ cutOff
    \/ \E j \in JobId, material \in BOOLEAN : seen(j, material)
    \/ \E j \in JobId, gone \in BOOLEAN : losesSighting(j, gone)

BudgetSpec == BudgetInit /\ [][BudgetNext]_budgetVars

\* Ticks go on (runForever, or the cron trigger), and a pass that began works
\* through what it took.  A board answers in the end about a job that is not
\* Obscure, if it is asked again and again.  Nothing is assumed of the crawls.
BudgetFairness ==
    /\ WF_budgetVars(PassStep)
    /\ \A j \in JobId \ Obscure : SF_budgetVars(conclude(j))

FairBudgetSpec == BudgetSpec /\ BudgetFairness

-----------------------------------------------------------------------------
(* Properties *)

BudgetTypeOK ==
    /\ docs \in [JobId -> JobDoc]
    /\ pass \in Seq(JobId)
    /\ phase \in {"crawl", "verify"}
    /\ checked \in JobId \cup {NoJob}
    /\ flags \in Nat /\ cuts \in Nat

\* "anything already suspected gone is checked first" (verificationPolicy.js:20): the
\* query that reads a window of candidates and the policy that spends the budget on
\* some of these sort by different keys, and yet no pass comes to a job that is not
\* flagged before it has come to every flagged job there is.
SuspectsFirst ==
    [][phase = "crawl" /\ phase' = "verify" =>
         \A n \in DOMAIN pass', j \in JobId :
            docs[pass'[n]].status # "FLAGGED" /\ docs[j].status = "FLAGGED" =>
               \E m \in DOMAIN pass' : m < n /\ pass'[m] = j]_budgetVars

\* The budget goes to jobs that are due when their turn comes, to none of them twice,
\* and there are never more of them than a pass may check (allocateVerificationBudget).
BudgetWellSpent ==
    /\ Len(pass) =< Limit
    /\ \A m, n \in DOMAIN pass : pass[m] = pass[n] => m = n
    /\ phase = "verify" => \A n \in DOMAIN pass : isVerificationDue(docs[pass[n]])

\* A pass spends its whole budget before it leaves out a job that is due: the window
\* of candidates holds enough jobs that pass the policy's own test (scheduler.js:129).
NoCheckIsSpared ==
    [][phase = "crawl" /\ phase' = "verify" =>
         \A j \in JobId :
            isVerificationDue(docs[j]) /\ (\A n \in DOMAIN pass' : pass'[n] # j) =>
               Len(pass') = Limit]_budgetVars

\* However often crawls see a job that was verified once, and whatever tier they put
\* it in, they never move its next check beyond the longest interval, counted from
\* that verification: only a check may (applyVerificationSchedule's anchor).
NeverPutOff ==
    [][\A j \in JobId :
         docs[j].verified /\ docs'[j].left > docs[j].left =>
            \/ phase = "verify" /\ checked' = j
            \/ docs'[j].since + docs'[j].left =< INTERVAL[DORMANT]]_budgetVars

\* A job that is due gets its check, or stops being due, whatever else competes for
\* the budget: neither jobs of a heavier tier, nor jobs without a url, which are due
\* and passed over in every pass, nor Obscure ones, which every crawl makes due
\* again, keep it out for ever, as long as these are fewer than Limit.
EveryDueJobIsChecked ==
    \A j \in Checkable : []<>(checked = j \/ ~isVerificationDue(docs[j]))

\* A job that was verified once is verified again, or found to be gone: no crawl
\* that sees it, and no change of tier, puts the next check off for good.
VerifiedAgain ==
    \A j \in Checkable :
        []<>(docs[j].verified => checked = j \/ docs[j].status = "REMOVED")

\* "verified rarely, never dropped" (verificationPolicy.js:34): every stored job
\* comes up for a check again and again, until it is found to be gone.
NeverDropped ==
    \A j \in Checkable : []<>(checked = j \/ docs[j].status = "REMOVED")
=============================================================================
