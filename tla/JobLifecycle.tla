---------------------------- MODULE JobLifecycle ----------------------------
(***************************************************************************)
(* The life of one canonical job document under the processes that rewrite *)
(* it: ingest runs (ingest.js) that merge sightings, count misses and mark *)
(* failures, verification passes and the staleness sweep (scheduler.js).   *)
(* Each of them reads the document, awaits, and puts a whole document      *)
(* back; the store checks no version.  The environment posts and withdraws *)
(* the rows on the boards.  A run sees one listing here; pages, cursors    *)
(* and credibility are the subject of BoardCrawl.                          *)
(***************************************************************************)
EXTENDS JobRecord

CONSTANTS
    Crawler,        \* slots in which an ingest run may be under way
    Verifier,       \* slots in which a verification pass may be under way
    Authoritative,  \* the sources whose complete listing is evidence
    Serial,         \* TRUE: one scheduler, whose phases follow one another
    None            \* the source of an idle slot, the row of an idle read

ASSUME JobLifecycleAssumption ==
    /\ Authoritative \subseteq Source
    /\ Serial \in BOOLEAN
    /\ None \notin Source \cup Posting

VARIABLES
    job,      \* the stored document
    listed,   \* the postings that are up on their boards right now
    run,      \* the ingest runs under way
    check,    \* the documents a verification pass or a sweep has read
    dry       \* history: complete listings of a source in a row without the job

vars == <<job, listed, run, check, dry>>

Phase == {"idle", "listing", "missing", "failing"}
Run == [phase : Phase, source : Source \cup {None}, todo : SUBSET Posting,
        seen : BOOLEAN, row : Posting \cup {None}, read : SUBSET Job]
Check == [kind : {"idle", "verify", "sweep"}, read : SUBSET Job]

idleRun == [phase |-> "idle", source |-> None, todo |-> {},
            seen |-> FALSE, row |-> None, read |-> {}]
idleCheck == [kind |-> "idle", read |-> {}]

Init ==
    /\ job    = Absent
    /\ listed = {}
    /\ run    = [c \in Crawler |-> idleRun]
    /\ check  = [v \in Verifier |-> idleCheck]
    /\ dry    = [s \in Source |-> 0]

\* One process drains its phases one after the other; several, or a manual
\* ingestion beside the scheduler, overlap.
MayStart ==
    Serial => /\ \A c \in Crawler : run[c] = idleRun
              /\ \A v \in Verifier : check[v] = idleCheck

-----------------------------------------------------------------------------
(* Ingest runs. *)

\* fetchJobs: an authoritative source returns its board, any other source some
\* of its rows.
startRun(c, s) ==
    /\ MayStart
    /\ run[c] = idleRun
    /\ \E rows \in SUBSET {p \in listed : sourceOf[p] = s} :
          /\ s \in Authoritative => rows = {p \in listed : sourceOf[p] = s}
          /\ run' = [run EXCEPT ![c] = [idleRun EXCEPT !.phase = "listing",
                                                       !.source = s, !.todo = rows]]
    /\ UNCHANGED <<job, listed, check, dry>>

readJob(c, p) ==
    /\ run[c].phase = "listing"
    /\ p \in run[c].todo
    /\ run[c].read = {}
    /\ run' = [run EXCEPT ![c].row = p, ![c].read = {job}]
    /\ UNCHANGED <<job, listed, check, dry>>

\* Mutant: a closed document is left alone when its posting reappears.
ingestedClosedKept(copy, p) ==
    IF ~findDuplicate(copy, p) THEN created(p)
    ELSE IF copy.status = "REMOVED" THEN copy
    ELSE observeSeen(mergeJobs(copy, p), sourceOf[p])

\* The rest of ingestOne: merge into the duplicate, or put a new document --
\* over the one of the same canonical id, when dedupe rejected that one.
ingested(copy, p) ==
    IF findDuplicate(copy, p)
    THEN observeSeen(mergeJobs(copy, p), sourceOf[p])
    ELSE created(p)

putSighting(c) ==
    /\ run[c].phase = "listing"
    /\ \E copy \in run[c].read : job' = ingested(copy, run[c].row)
    /\ run' = [run EXCEPT ![c].todo = @ \ {run[c].row}, ![c].seen = TRUE,
                          ![c].row = None, ![c].read = {}]
    /\ dry' = [dry EXCEPT ![run[c].source] = 0]
    /\ UNCHANGED <<listed, check>>

\* reconcileMissing reads the documents the source is held to carry.
reconcileMissing(c) ==
    /\ run[c].phase = "listing" /\ run[c].todo = {} /\ run[c].read = {}
    /\ run[c].source \in Authoritative
    /\ ~run[c].seen
    /\ Held(job, run[c].source)
    /\ run' = [run EXCEPT ![c].phase = "missing", ![c].read = {job}]
    /\ UNCHANGED <<job, listed, check, dry>>

putMissing(c) ==
    /\ run[c].phase = "missing"
    /\ \E copy \in run[c].read : job' = observeMissing(copy, run[c].source)
    /\ run' = [run EXCEPT ![c] = idleRun]
    /\ dry' = [dry EXCEPT ![run[c].source] =
                 IF @ = MissThreshold THEN @ ELSE @ + 1]
    /\ UNCHANGED <<listed, check>>

\* Nothing to reconcile, or the run was partial, a 304, or not credible.
endRun(c) ==
    /\ run[c].phase = "listing" /\ run[c].todo = {} /\ run[c].read = {}
    /\ run' = [run EXCEPT ![c] = idleRun]
    /\ UNCHANGED <<job, listed, check, dry>>

\* An exception: markSourceFailureOnJobs reads the documents of the source.
throwRun(c) ==
    /\ run[c].phase = "listing"
    /\ Held(job, run[c].source)
    /\ run' = [run EXCEPT ![c].phase = "failing", ![c].todo = {},
                          ![c].row = None, ![c].read = {job}]
    /\ UNCHANGED <<job, listed, check, dry>>

putFailure(c) ==
    /\ run[c].phase = "failing"
    /\ \E copy \in run[c].read : job' = observeSourceFailure(copy)
    /\ run' = [run EXCEPT ![c] = idleRun]
    /\ UNCHANGED <<listed, check, dry>>

\* The process dies, between any read and its put.
crash(c) ==
    /\ run[c] # idleRun
    /\ run' = [run EXCEPT ![c] = idleRun]
    /\ UNCHANGED <<job, listed, check, dry>>

-----------------------------------------------------------------------------
(* Verification passes and the sweep. *)

readCandidate(v) ==
    /\ MayStart
    /\ check[v] = idleCheck
    /\ Candidate(job)
    /\ check' = [check EXCEPT ![v] = [kind |-> "verify", read |-> {job}]]
    /\ UNCHANGED <<job, listed, run, dry>>

\* adapter.verify on posting p, then applyVerification on the copy.
putVerified(v, p, result) ==
    /\ check[v].kind = "verify"
    /\ result = alive => p \in listed
    /\ result = gone => p \notin listed
    /\ \E copy \in check[v].read : \E i \in DOMAIN copy.insts :
          /\ MostAuthoritative(copy, i)
          /\ copy.insts[i].posting = p
          /\ job' = applyVerification(copy, sourceOf[p], weighed(copy, p, result))
    /\ check' = [check EXCEPT ![v] = idleCheck]
    /\ dry' = IF result = alive THEN [dry EXCEPT ![sourceOf[p]] = 0] ELSE dry
    /\ UNCHANGED <<listed, run>>

\* No instance has a url to check, a sweep finds nothing to put, or the
\* process dies.
dropCheck(v) ==
    /\ check[v] # idleCheck
    /\ check' = [check EXCEPT ![v] = idleCheck]
    /\ UNCHANGED <<job, listed, run, dry>>

sweepRead(v) ==
    /\ MayStart
    /\ check[v] = idleCheck
    /\ Candidate(job)
    /\ check' = [check EXCEPT ![v] = [kind |-> "sweep", read |-> {job}]]
    /\ UNCHANGED <<job, listed, run, dry>>

sweepPut(v) ==
    /\ check[v].kind = "sweep"
    /\ \E copy \in check[v].read :
          /\ sweepStaleness(copy) # copy     \* else nothing is put
          /\ job' = sweepStaleness(copy)
    /\ check' = [check EXCEPT ![v] = idleCheck]
    /\ UNCHANGED <<listed, run, dry>>

-----------------------------------------------------------------------------
(* The boards, and time. *)

postRow(p) ==
    /\ p \notin listed
    /\ listed' = listed \cup {p}
    /\ UNCHANGED <<job, run, check, dry>>

withdrawRow(p) ==
    /\ p \in listed
    /\ listed' = listed \ {p}
    /\ UNCHANGED <<job, run, check, dry>>

\* The document has not been seen for STALE_AFTER_DAYS.
Aged(copy) == IF copy.status = "ABSENT" THEN copy ELSE [copy EXCEPT !.old = TRUE]
Age ==
    /\ Aged(job) # job
    /\ job' = Aged(job)
    /\ run' = [c \in Crawler |->
                 [run[c] EXCEPT !.read = {Aged(copy) : copy \in @}]]
    /\ check' = [v \in Verifier |->
                   [check[v] EXCEPT !.read = {Aged(copy) : copy \in @}]]
    /\ UNCHANGED <<listed, dry>>

\* A run that is under way and does not fail.
RunOn(c) ==
    \/ \E p \in Posting : readJob(c, p)
    \/ putSighting(c)
    \/ reconcileMissing(c)
    \/ putMissing(c)
    \/ endRun(c)
    \/ putFailure(c)

RunStep(c) ==
    \/ \E s \in Source : startRun(c, s)
    \/ RunOn(c)
    \/ throwRun(c)
    \/ crash(c)

CheckStep(v) ==
    \/ readCandidate(v)
    \/ \E p \in Posting, result \in Verdict : putVerified(v, p, result)
    \/ dropCheck(v)
    \/ sweepRead(v)
    \/ sweepPut(v)

Next ==
    \/ \E c \in Crawler : RunStep(c)
    \/ \E v \in Verifier : CheckStep(v)
    \/ \E p \in Posting : postRow(p) \/ withdrawRow(p)
    \/ Age

Spec == Init /\ [][Next]_vars

\* Every source is crawled again and again, rows are read and put, a complete
\* listing of each source is reconciled now and then rather than never, and a verification
\* pass goes on picking the document up and now and then gets an answer.  A
\* sweep, a failure or a crash is never bound to begin.
Fairness ==
    /\ \A s \in Source : SF_vars(\E c \in Crawler : startRun(c, s))
    /\ \A c \in Crawler :
          /\ WF_vars(RunOn(c))
          /\ \A p \in Posting : SF_vars(readJob(c, p))
          /\ SF_vars(putSighting(c))
          /\ \A s \in Source :
                /\ SF_vars(run[c].source = s /\ reconcileMissing(c))
                /\ SF_vars(run[c].source = s /\ putMissing(c))
    /\ \A v \in Verifier :
          /\ WF_vars(check[v].kind = "sweep" /\ (sweepPut(v) \/ dropCheck(v)))
          /\ SF_vars(readCandidate(v))
          /\ SF_vars(\E p \in Posting : putVerified(v, p, alive) \/ putVerified(v, p, gone))

FairSpec == Spec /\ Fairness

-----------------------------------------------------------------------------
(* Properties *)

TypeOK ==
    /\ job \in Job
    /\ listed \subseteq Posting
    /\ run \in [Crawler -> Run]
    /\ check \in [Verifier -> Check]
    /\ dry \in [Source -> 0 .. MissThreshold]

\* Everything a search may return has an instance that is believed active
\* (observeMissing, applyVerification and mergeJobs must agree on this), even
\* when passes write stale copies over each other.
ShownHasLiveInstance ==
    job.status \in Shown => AnyActive(job.insts)

\* closedAt is set exactly on REMOVED documents, and those have lost every
\* instance.
ClosedIffRemoved ==
    /\ job.closed <=> job.status = "REMOVED"
    /\ job.status = "REMOVED" => ~AnyActive(job.insts)

\* A document that dropped out of the shown states without being closed is
\* flagged, so a verification pass always finds it ("flagged for verification",
\* freshness.js).
StaleIsFlagged == job.status = "STALE" => job.flagged

\* "Source instances are clustered, never collapsed" (dedupe.js): a posting once
\* clustered into the document stays in it.
InstancesKept ==
    [][\A i \in DOMAIN job.insts :
          \E j \in DOMAIN job'.insts : job'.insts[j].posting = job.insts[i].posting]_vars

\* A document is closed only when no instance it believes active is still up:
\* "only proven closure ... does" (VerificationWorker.run), "every source lost
\* it" (observeMissing).
NoLiveClosure ==
    [][job.status # "REMOVED" /\ job'.status = "REMOVED" =>
         \A i \in DOMAIN job.insts :
            job.insts[i].active => job.insts[i].posting \notin listed]_vars

\* Absence alone takes an instance out of service only after MISS_THRESHOLD
\* complete listings of its source in a row without the job.
MissesEarned ==
    [][\A i \in DOMAIN job.insts :
         LET s == sourceOf[job.insts[i].posting] IN
         (/\ job.insts[i].active
          /\ job'.status \in {"LIKELY_ACTIVE", "STALE"}
          /\ i \in DOMAIN job'.insts
          /\ job'.insts[i].posting = job.insts[i].posting
          /\ ~job'.insts[i].active
          /\ dry[s] # dry'[s]) => dry'[s] = MissThreshold]_vars

\* A posting withdrawn everywhere for good is closed for good: repeated absence
\* flags it, and "proven closure from the highest-authority instance" closes it.
GoneIsClosed ==
    <>[](listed = {}) => <>[](job.status \in {"ABSENT", "REMOVED"})

\* A posting that stays up on an authoritative board is never hidden for good,
\* whatever the other sources lose and however stale the document had become.
ListedIsShown ==
    \A p \in Posting :
        sourceOf[p] \in Authoritative =>
            (<>[](p \in listed) => []<>(job.status \in Shown))
=============================================================================
