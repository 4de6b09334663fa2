------------------------------ MODULE JobRecord ------------------------------
(***************************************************************************)
(* One canonical job document and the pure functions that rewrite it:      *)
(* dedupe.js (findDuplicate, mergeJobs) and freshness.js.  A posting is    *)
(* one row of one source (sourceId, sourceJobId); the document clusters    *)
(* the postings that share a canonical id.  Titles, texts, dates and       *)
(* provenance are left out; of the four timestamps only what a decision    *)
(* reads is kept (lastSeenAt too old, closedAt set or not).                *)
(***************************************************************************)
EXTENDS Integers, Sequences

CONSTANTS
    Source,         \* the registered sources
    Posting,        \* the rows that share one canonical job id
    sourceOf,       \* the source a posting belongs to
    rank,           \* SOURCE_AUTHORITY of a posting: 1 aggregator .. 4 career site
    Linked,         \* the postings that carry a job or an apply url
    Alike,          \* pairs the dedupe stages 2-4 take for one vacancy
    MissThreshold   \* MISS_THRESHOLD

ASSUME JobRecordAssumption ==
    /\ sourceOf \in [Posting -> Source]
    /\ rank \in [Posting -> 1 .. 4]
    /\ Linked \subseteq Posting
    /\ Alike \subseteq Posting \X Posting
    /\ MissThreshold \in Nat \ {0}

JOB_STATUS == {"NEW", "ACTIVE", "LIKELY_ACTIVE", "STALE", "REMOVED"}
Shown == {"NEW", "ACTIVE", "LIKELY_ACTIVE"}   \* what a search may return

\* missCount saturates: the code only compares it with the threshold.
Instance == [posting : Posting, active : BOOLEAN, missCount : 0 .. MissThreshold]

Job == [status  : JOB_STATUS \cup {"ABSENT"},
        insts   : Seq(Instance),
        flagged : BOOLEAN,    \* needsVerification
        closed  : BOOLEAN,    \* closedAt is set
        old     : BOOLEAN]    \* lastSeenAt is STALE_AFTER_DAYS back

Absent == [status |-> "ABSENT", insts |-> <<>>, flagged |-> FALSE,
           closed |-> FALSE, old |-> FALSE]

Original(p) == rank[p] >= 3
seenInstance(p) == [posting |-> p, active |-> TRUE, missCount |-> 0]

AnyActive(insts) == \E i \in DOMAIN insts : insts[i].active
Carries(job, s) == \E i \in DOMAIN job.insts : sourceOf[job.insts[i].posting] = s

\* Array.find: the first instance of a source stands for all of them.
First(insts, s) ==
    CHOOSE i \in DOMAIN insts :
        /\ sourceOf[insts[i].posting] = s
        /\ \A j \in DOMAIN insts : sourceOf[insts[j].posting] = s => i <= j

\* Mutant: one absence is enough.
missedOnce(inst) == [inst EXCEPT !.active = FALSE]

\* Mutant: being seen does not forget the misses.
revivedCounting(inst) == [inst EXCEPT !.active = TRUE]
revived(inst) == [inst EXCEPT !.active = TRUE, !.missCount = 0]
retired(inst) == [inst EXCEPT !.active = FALSE]
missed(inst) ==
    IF inst.missCount + 1 >= MissThreshold
    THEN [inst EXCEPT !.missCount = MissThreshold, !.active = FALSE]
    ELSE [inst EXCEPT !.missCount = @ + 1]

-----------------------------------------------------------------------------
(* Dedupe. *)

\* toCanonicalJob: a document with one instance.
created(p) ==
    [Absent EXCEPT !.status = "NEW", !.insts = <<seenInstance(p)>>]

findDuplicate(job, p) ==
    \E i \in DOMAIN job.insts :
        job.insts[i].posting = p \/ <<job.insts[i].posting, p>> \in Alike

\* Mutant: the incoming instance replaces the cluster.
mergedInstsCollapsed(insts, p) == <<seenInstance(p)>>

mergedInsts(insts, p) ==
    IF \E i \in DOMAIN insts : insts[i].posting = p
    THEN [i \in DOMAIN insts |->
             IF insts[i].posting = p THEN revived(insts[i]) ELSE insts[i]]
    ELSE Append(insts, seenInstance(p))

mergeJobs(job, p) ==
    [job EXCEPT !.insts = mergedInsts(@, p),
                !.status = IF @ = "REMOVED" THEN "ACTIVE" ELSE @,
                !.closed = FALSE,
                !.old = FALSE]

-----------------------------------------------------------------------------
(* Freshness. *)

observeSeen(job, s) ==
    [job EXCEPT !.insts = [i \in DOMAIN @ |->
                             IF i = First(@, s) THEN revived(@[i]) ELSE @[i]],
                !.status = "ACTIVE",
                !.closed = IF job.status \in {"REMOVED", "STALE"} THEN FALSE ELSE @,
                !.old = FALSE]

\* Mutant: the activity test looks at the instances as they were before the miss.
observeMissingStale(job, s) ==
    LET insts == [i \in DOMAIN job.insts |->
                    IF i = First(job.insts, s) THEN missed(job.insts[i])
                                               ELSE job.insts[i]] IN
    IF AnyActive(job.insts)
    THEN [job EXCEPT !.insts = insts,
                     !.status = IF @ = "ACTIVE" THEN "LIKELY_ACTIVE" ELSE @]
    ELSE [job EXCEPT !.insts = insts, !.status = "STALE", !.flagged = TRUE]

\* A complete listing of s came back without this job.
observeMissing(job, s) ==
    LET insts == [i \in DOMAIN job.insts |->
                    IF i = First(job.insts, s) THEN missed(job.insts[i])
                                               ELSE job.insts[i]] IN
    IF AnyActive(insts)
    THEN [job EXCEPT !.insts = insts,
                     !.status = IF @ = "ACTIVE" THEN "LIKELY_ACTIVE" ELSE @]
    ELSE [job EXCEPT !.insts = insts, !.status = "STALE", !.flagged = TRUE]

\* A run of one of its sources threw.
observeSourceFailure(job) ==
    [job EXCEPT !.status = IF @ = "ACTIVE" THEN "LIKELY_ACTIVE" ELSE @]

\* What a check of a posting's url may report.
alive   == [ok |-> TRUE,  closed |-> FALSE, http |-> "200"]
gone    == [ok |-> FALSE, closed |-> TRUE,  http |-> "404"]
unclear == [ok |-> FALSE, closed |-> FALSE, http |-> "5xx"]
Verdict == {alive, gone, unclear}

verifiedAlive(job, s) ==
    [job EXCEPT !.insts = [i \in DOMAIN @ |->
                             IF i = First(@, s) THEN revived(@[i]) ELSE @[i]],
                !.status = IF @ = "NEW" THEN @ ELSE "ACTIVE",
                !.flagged = FALSE,
                !.closed = FALSE]

\* Mutant: a proven closure of one instance closes the whole document.
verifiedGoneWhole(job, s) ==
    [job EXCEPT !.insts = [i \in DOMAIN @ |->
                             IF i = First(@, s) THEN retired(@[i]) ELSE @[i]],
                !.status = "REMOVED", !.closed = TRUE, !.flagged = FALSE]

verifiedGone(job, s) ==
    LET insts == [i \in DOMAIN job.insts |->
                    IF i = First(job.insts, s) THEN retired(job.insts[i])
                                               ELSE job.insts[i]] IN
    IF AnyActive(insts)
    THEN [job EXCEPT !.insts = insts, !.status = "LIKELY_ACTIVE"]
    ELSE [job EXCEPT !.insts = insts, !.status = "REMOVED",
                     !.closed = TRUE, !.flagged = FALSE]

applyVerification(job, s, result) ==
    IF result.ok THEN verifiedAlive(job, s)
    ELSE IF result.closed \/ result.http = "404" THEN verifiedGone(job, s)
    ELSE observeSourceFailure(job)     \* unclear: at most ACTIVE -> LIKELY_ACTIVE

\* Mutant: the sweep forgets to ask for a verification.
sweepStalenessUnflagged(job) ==
    IF job.status \notin {"REMOVED", "STALE"} /\ job.old
    THEN [job EXCEPT !.status = "STALE"]
    ELSE job

sweepStaleness(job) ==
    IF job.status \notin {"REMOVED", "STALE"} /\ job.old
    THEN [job EXCEPT !.status = "STALE", !.flagged = TRUE]
    ELSE job

\* A verification pass may pick the document up.
Candidate(job) == job.status \notin {"ABSENT", "REMOVED"}
Held(job, s) == job.status \notin {"ABSENT", "REMOVED"} /\ Carries(job, s)

\* Mutant: only instances still believed active are checked.
MostAuthoritativeActive(job, i) ==
    /\ i \in DOMAIN job.insts
    /\ job.insts[i].posting \in Linked /\ job.insts[i].active
    /\ \A j \in DOMAIN job.insts :
          job.insts[j].posting \in Linked /\ job.insts[j].active =>
             rank[job.insts[j].posting] <= rank[job.insts[i].posting]

\* The instance a verification pass checks: the first linked one of the
\* highest authority, active or not.
MostAuthoritative(job, i) ==
    /\ i \in DOMAIN job.insts
    /\ job.insts[i].posting \in Linked
    /\ \A j \in DOMAIN job.insts :
          job.insts[j].posting \in Linked =>
             \/ rank[job.insts[j].posting] < rank[job.insts[i].posting]
             \/ rank[job.insts[j].posting] = rank[job.insts[i].posting] /\ i <= j

HasOriginal(job) == \E i \in DOMAIN job.insts : Original(job.insts[i].posting)

\* The verification worker's handling of an aggregator's dead link: the
\* closed flag is taken back, the http status is not.
weighed(job, p, result) ==
    IF result.closed /\ rank[p] = 1 /\ HasOriginal(job)
    THEN [result EXCEPT !.closed = FALSE, !.ok = FALSE]
    ELSE result
=============================================================================
