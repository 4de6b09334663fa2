----------------------------- MODULE BoardCrawl -----------------------------
(***************************************************************************)
(* The crawl of one paginated authoritative board: IngestPipeline.runSource*)
(* (ingest.js) driven page by page through a board adapter, started and    *)
(* settled by the scheduler's crawlSlice, judged by the health guard       *)
(* (SourceDoc) and writing job documents (JobRecord).  Every posting has a *)
(* document of its own here; what several sources do to one document is    *)
(* JobLifecycle, and how tasks are leased is CrawlQueue: here one worker   *)
(* at a time works on the board.  Operators, verification and the sweep    *)
(* are left out.                                                           *)
(***************************************************************************)
EXTENDS JobRecord, SourceDoc

CONSTANTS
    Nameless,     \* postings whose row has no title, so that they are rejected
    PageSize,     \* rows on a page of the board
    PageLimit,    \* maxPages of a run
    Splits,       \* TRUE: the execution deadline may end a run between pages
    TotalGiven,   \* TRUE: the board tells how many rows it has
    Conditional,  \* TRUE: the board answers conditional requests with 304
    Failures,     \* the error classes a fetch may fail with
    NON_RETRYABLE,\* the error classes a task is never tried again after
    MaxFaults     \* faults between two clean complete listings

ASSUME BoardCrawlAssumption ==
    /\ Nameless \subseteq Posting
    /\ PageSize \in Nat \ {0} /\ PageLimit \in Nat \ {0}
    /\ Splits \in BOOLEAN /\ TotalGiven \in BOOLEAN /\ Conditional \in BOOLEAN
    /\ Failures \subseteq ERROR_CLASS /\ NON_RETRYABLE \subseteq ERROR_CLASS
    /\ MaxFaults \in Nat
    /\ MaxFetched >= PageSize * PageLimit

VARIABLES
    board,    \* the rows of the board, in its order
    unposted, \* the postings that have not been on the board yet
    job,      \* the document of each posting
    src,      \* the source's document
    etag,     \* the page whose validators the source's document holds, if any
    task,     \* the source's crawl task: its state and its checkpoint
    run,      \* the run under way; whole (it began at the first row), ended (it read
              \* the last) and calm (no row was withdrawn under it) only observe it
    faults    \* faults since the last clean complete listing

vars == <<board, unposted, job, src, etag, task, run, faults>>
crawlVars == <<job, src, etag, task, run>>

RowsOf(seq) == {seq[i] : i \in DOMAIN seq}
Page(offset) == SubSeq(board, offset + 1,
                       IF offset + PageSize < Len(board) THEN offset + PageSize ELSE Len(board))

\* Mutant: the offset of the next page is one row too far.
nextCursorFar(offset) ==
    IF Len(Page(offset)) = PageSize
       /\ (TotalGiven => offset + PageSize < Len(board))
    THEN offset + PageSize + 1 ELSE 0

\* 0 is no cursor: the page was the last one.
nextCursor(offset) ==
    IF Len(Page(offset)) = PageSize
       /\ (TotalGiven => offset + PageSize < Len(board))
    THEN offset + PageSize ELSE 0

\* Mutant: every page of a complete board counts as authoritative.
authoritativeEachPage(offset) == TRUE
authoritative(offset) == nextCursor(offset) = 0

idleRun == [phase |-> "idle", offset |-> 0, pages |-> 0, seen |-> {},
            complete |-> FALSE, partial |-> FALSE, unchanged |-> FALSE,
            fetched |-> 0, rejected |-> 0, errors |-> <<>>, next |-> 0,
            page |-> <<>>, credible |-> TRUE, status |-> "ACTIVE",
            leased |-> 0, whole |-> FALSE, ended |-> FALSE, calm |-> TRUE]
noTask == [state |-> "NONE", checkpoint |-> 0]

Init ==
    /\ board = <<>>
    /\ unposted = Posting
    /\ job = [p \in Posting |-> Absent]
    /\ src = [status |-> "ACTIVE", fails |-> 0, window |-> <<>>, cursor |-> 0]
    /\ etag = {}
    /\ task = noTask
    /\ run = idleRun
    /\ faults = 0

MayFault == faults < MaxFaults
Fault == MayFault /\ faults' = faults + 1

-----------------------------------------------------------------------------
(* The task. *)

\* crawlSlice enqueues a source that is due and has no task in flight.
enqueue ==
    /\ task.state = "NONE"
    /\ src.status \notin {"DISABLED", "NOT_CONFIGURED"}
    /\ task' = [state |-> "QUEUED", checkpoint |-> 0]
    /\ UNCHANGED <<board, unposted, job, src, etag, run, faults>>

\* Mutant: a run forgets both places its predecessor left a cursor in.
resumeOffsetNone == 0
\* resumeCursor || source.cursor || null
resumeOffset == IF task.checkpoint # 0 THEN task.checkpoint ELSE src.cursor

startRun ==
    /\ task.state = "QUEUED"
    /\ run = idleRun
    /\ task' = [task EXCEPT !.state = "LEASED"]
    /\ run' = [idleRun EXCEPT !.phase = "fetching", !.offset = resumeOffset,
                              !.status = src.status, !.leased = task.checkpoint,
                              !.whole = resumeOffset = 0]
    /\ UNCHANGED <<board, unposted, job, src, etag, faults>>

-----------------------------------------------------------------------------
(* Pages. *)

\* Only the first page is asked for with the stored validators.
NotModified == Conditional /\ run.offset = 0 /\ etag = {Page(0)}

ingested(copy, p) ==
    IF findDuplicate(copy, p) THEN observeSeen(mergeJobs(copy, p), sourceOf[p])
                              ELSE created(p)

\* Each class once, in the order of the first of its kind.
Noted(errors, class) ==
    IF \E i \in DOMAIN errors : errors[i] = class THEN errors ELSE Append(errors, class)

\* One page: its rows are normalized and ingested, the checkpoint is put, and
\* the loop goes on or ends.  bad is a row whose normalize (SCHEMA_CHANGED) or
\* canonicalization (PARSE_FAILED) throws.
fetchPage(bad, class, stop) ==
    LET rows == RowsOf(Page(run.offset))
        next == nextCursor(run.offset)
        good == rows \ (Nameless \cup bad)
        pages == run.pages + 1
        goOn == next # 0 /\ pages < PageLimit /\ ~stop IN
    /\ run.phase = "fetching" /\ ~NotModified
    /\ bad \subseteq rows \ Nameless
    /\ stop => Splits
    /\ job' = [p \in Posting |-> IF p \in good THEN ingested(job[p], p) ELSE job[p]]
    /\ task' = IF next # 0 THEN [task EXCEPT !.checkpoint = next] ELSE task
    /\ run' = [run EXCEPT
                 !.phase = IF goOn THEN "fetching" ELSE "judging",
                 !.offset = IF goOn THEN next ELSE @,
                 !.pages = IF goOn THEN pages ELSE 0,
                 !.seen = @ \cup good,
                 !.complete = @ \/ authoritative(run.offset),
                 !.partial = ~goOn /\ next # 0,
                 !.fetched = @ + Len(Page(run.offset)),
                 !.rejected = @ + Cardinality(rows \ good),
                 !.errors = IF bad = {} THEN @ ELSE Noted(@, class),
                 !.next = next,
                 !.page = Page(run.offset),
                 !.ended = run.offset + PageSize >= Len(board)]
    /\ IF bad = {} THEN UNCHANGED faults ELSE Fault
    /\ UNCHANGED <<board, unposted, src, etag>>

\* 304: the run ends, ok and with nothing fetched.
unmodifiedPage ==
    /\ run.phase = "fetching" /\ NotModified
    /\ run' = [run EXCEPT !.phase = "judging", !.unchanged = TRUE, !.page = Page(0)]
    /\ UNCHANGED <<board, unposted, job, src, etag, task, faults>>

\* batch.error: what was fetched so far is still judged.
pageError(class) ==
    /\ run.phase = "fetching"
    /\ run' = [run EXCEPT !.phase = "judging", !.errors = Noted(@, class), !.ended = FALSE]
    /\ Fault
    /\ UNCHANGED <<board, unposted, job, src, etag, task>>

-----------------------------------------------------------------------------
(* The end of a run. *)

Credible == credible(src.window, run.fetched, run.rejected, run.errors)
MayReconcile ==
    mayReconcileMissing(run.complete /\ ~run.unchanged /\ ~run.partial, Credible)
HeldRows == {p \in Posting : Held(job[p], sourceOf[p])}
Unseen == IF MayReconcile THEN HeldRows \ run.seen ELSE {}
counted(rows) ==
    [p \in Posting |-> IF p \in rows THEN observeMissing(job[p], sourceOf[p]) ELSE job[p]]

\* assessRun, the gate, and reconcileMissing on every held job not seen.
judge ==
    /\ run.phase = "judging"
    /\ job' = counted(Unseen)
    /\ run' = [run EXCEPT !.phase = "recording", !.credible = Credible]
    /\ UNCHANGED <<board, unposted, src, etag, task, faults>>

\* An exception out of the adapter or the store, before any judgement or in the
\* middle of the reconciliation: markSourceFailureOnJobs, and no cursor is lost.
throwRun(class, part) ==
    /\ run.phase \in {"fetching", "judging"}
    /\ part \subseteq IF run.phase = "judging" THEN Unseen ELSE {}
    /\ job' = [p \in Posting |-> IF Held(counted(part)[p], sourceOf[p])
                                 THEN observeSourceFailure(counted(part)[p])
                                 ELSE job[p]]
    /\ run' = [run EXCEPT !.phase = "recording", !.errors = Noted(@, class),
                          !.credible = run.phase = "judging" => Credible]
    /\ Fault
    /\ UNCHANGED <<board, unposted, src, etag, task>>

\* registry.recordRun, and the update of a source without credentials.
record ==
    LET doc == recordRun(src, run.status, run.fetched, run.unchanged, run.errors,
                         run.credible, run.next) IN
    /\ run.phase = "recording"
    /\ src' = IF \E i \in DOMAIN run.errors : run.errors[i] = "NOT_CONFIGURED"
              THEN [doc EXCEPT !.status = "NOT_CONFIGURED"] ELSE doc
    /\ etag' = IF run.fetched > 0 \/ run.unchanged \/ run.complete THEN {run.page} ELSE etag
    /\ run' = [run EXCEPT !.phase = "settling"]
    /\ UNCHANGED <<board, unposted, job, task, faults>>

\* A run that read the whole board, from its first row to its last, as it should.
Clean == /\ run.whole /\ run.calm /\ run.complete
         /\ run.errors = <<>> /\ run.credible /\ ~run.unchanged

\* crawlSlice: defer, complete or fail.  fail puts the task as it was leased,
\* without the checkpoints of this run.
settle(gaveUp) ==
    /\ run.phase = "settling"
    /\ gaveUp => run.errors # <<>>
    /\ run.errors # <<>> /\ run.errors[1] \in NON_RETRYABLE => gaveUp
    /\ task' = IF run.errors = <<>>
               THEN IF run.partial THEN [state |-> "QUEUED", checkpoint |-> run.next]
                    ELSE noTask
               ELSE IF gaveUp THEN noTask
               ELSE [state |-> "QUEUED", checkpoint |-> run.leased]
    /\ run' = idleRun
    /\ faults' = IF Clean THEN 0 ELSE faults
    /\ UNCHANGED <<board, unposted, job, src, etag>>

\* The worker dies, perhaps in the middle of the reconciliation; its lease runs
\* out and the stored task, with its last checkpoint, is leased again.
crash(part) ==
    /\ run # idleRun
    /\ part \subseteq IF run.phase = "judging" THEN Unseen ELSE {}
    /\ job' = counted(part)
    /\ task' = [task EXCEPT !.state = "QUEUED"]
    /\ run' = idleRun
    /\ Fault
    /\ UNCHANGED <<board, unposted, src, etag>>

-----------------------------------------------------------------------------
(* The board. *)

\* A new row goes to the top or to the bottom of the board.
post(p) ==
    /\ p \in unposted
    /\ board' \in {<<p>> \o board, Append(board, p)}
    /\ unposted' = unposted \ {p}
    /\ UNCHANGED <<crawlVars, faults>>

\* The rows after it move up.  Under a crawl, or between a crawl and its
\* continuation, one of them may slip past the cursor.
Between == run # idleRun \/ task.checkpoint # 0 \/ src.cursor # 0
withdraw(p) ==
    /\ \E i \in DOMAIN board :
          /\ board[i] = p
          /\ board' = SubSeq(board, 1, i - 1) \o SubSeq(board, i + 1, Len(board))
    /\ run' = [run EXCEPT !.calm = run = idleRun]
    /\ IF Between THEN Fault ELSE UNCHANGED faults
    /\ UNCHANGED <<job, src, etag, task, unposted>>

Crawl ==
    \/ startRun
    \/ \E bad \in {{}} \cup {{p} : p \in Posting}, stop \in BOOLEAN,
          class \in {"SCHEMA_CHANGED", "PARSE_FAILED"} : fetchPage(bad, class, stop)
    \/ unmodifiedPage
    \/ judge
    \/ record
    \/ \E gaveUp \in BOOLEAN : settle(gaveUp)

Next ==
    \/ enqueue
    \/ Crawl
    \/ \E class \in Failures : pageError(class)
    \/ \E class \in Failures, part \in SUBSET Posting : throwRun(class, part)
    \/ \E part \in SUBSET Posting : crash(part)
    \/ \E p \in Posting : post(p) \/ withdraw(p)

Spec == Init /\ [][Next]_vars

\* The scheduler ticks again and again and a run that is neither failed nor
\* killed goes on.  Faults and edits of the board are never bound to happen.
Fairness == WF_vars(enqueue) /\ WF_vars(Crawl)
FairSpec == Spec /\ Fairness

-----------------------------------------------------------------------------
(* Properties. *)

Errors == {e \in Seq(ERROR_CLASS) : \A i, j \in DOMAIN e : e[i] = e[j] => i = j}
Run == [phase : {"idle", "fetching", "judging", "recording", "settling"},
        offset : Nat, pages : 0 .. PageLimit - 1, seen : SUBSET (Posting \ Nameless),
        complete : BOOLEAN, partial : BOOLEAN, unchanged : BOOLEAN,
        fetched : 0 .. MaxFetched, rejected : Nat, errors : Errors,
        next : Nat, page : Seq(Posting), credible : BOOLEAN, status : SOURCE_STATUS,
        leased : Nat, whole : BOOLEAN, ended : BOOLEAN, calm : BOOLEAN]

\* The documents, the source, the task and the run stay within their types; a
\* task is leased exactly while a run is under way.
TypeOK ==
    /\ board \in Seq(Posting \ unposted)
    /\ unposted \subseteq Posting
    /\ job \in [Posting -> Job]
    /\ src \in Doc
    /\ Cardinality(etag) <= 1 /\ \A page \in etag : page \in Seq(Posting)
    /\ task \in [state : {"NONE", "QUEUED", "LEASED"}, checkpoint : Nat]
    /\ run \in Run
    /\ task.state = "LEASED" <=> run.phase # "idle"
    /\ faults \in 0 .. MaxFaults

Listed == RowsOf(board) \ Nameless
Misses(j) == IF j.insts = <<>> THEN 0 ELSE j.insts[1].missCount
MissRises(p) == Misses(job[p]) < Misses(job'[p])

\* Absence is counted only at the end of a run that reached the last row of the
\* board: never after a page that failed, a page limit or deadline before the
\* end, or a 304 (ingest.js: the gate in front of reconcileMissing).
AbsenceNeedsTheEnd ==
    [][\A p \in Posting : MissRises(p) =>
          run.phase = "judging" /\ run.ended /\ ~run.partial /\ ~run.unchanged]_vars

\* A run that began at the first row, on a board whose crawls have met no fault
\* since they last were clean, counts no miss against a row that is listed,
\* whatever is posted on the board while it reads (runSource, fetchJobs).
NoFalseMiss ==
    [][\A p \in Listed : MissRises(p) => faults > 0 \/ ~run.whole]_vars

\* With fewer faults between two clean listings than the miss threshold less one,
\* a listed row never goes stale, though resumed runs and rejected rows cost it
\* misses: being seen forgets them (observeSeen, observeMissing).
LiveNeverStale == \A p \in Listed : job[p].status # "STALE"

\* What the guard's own comment promises: a miss is only counted by a run that
\* read the complete listing (ingest.js, before assessRun).
AbsenceNeedsWholeListing == [][\A p \in Posting : MissRises(p) => run.whole]_vars

\* A 304 on the first page ends the run, so it must only ever be got when the
\* rows of the other pages have been read: otherwise a failure does not cost
\* "one page, not a board" (ingest.js:123, at the checkpoint).
UnmodifiedIsIndexed ==
    [][~run.unchanged /\ run'.unchanged =>
         \A p \in Listed \ RowsOf(Page(0)) : job[p].status # "ABSENT"]_vars

\* A row taken off the board is, in the end, never shown as an open job again
\* unless it never was (reconcileMissing run after run, past the health guard).
Gone(p) == p \notin unposted /\ p \notin RowsOf(board)
WithdrawnIsFlagged ==
    \A p \in Posting : <>[](Gone(p) => job[p].status \in {"ABSENT", "STALE"})

\* A row that stays on the board is indexed, on whatever page it is and however
\* many runs the crawl is cut into (the cursor, the checkpoint and defer).
EveryRowIsIndexed ==
    \A p \in Posting \ Nameless :
        []<>(job[p].status # "ABSENT" \/ p \notin RowsOf(board))

\* A degraded source heals on its own, whether it failed, sent rows that do not
\* parse, or shrank so much that its new size had to become the norm first
\* (healthStatusFor and baselineJobCount over the window recordRun keeps).
DegradedHeals == []<>(src.status = "ACTIVE")
=============================================================================
