------------------------------ MODULE SourceDoc ------------------------------
(***************************************************************************)
(* The document a registered source keeps about its own crawls, and the    *)
(* pure functions that judge a run against it and record the run in it:    *)
(* sourceHealth.js (baselineJobCount, assessRun, mayReconcileMissing)      *)
(* and SourceRegistry.recordRun.                                           *)
(* Latencies, ratios, intervals and priorities only order and space the    *)
(* crawls and are left out.                                                *)
(***************************************************************************)
EXTENDS SourceStatus, Sequences, FiniteSets

CONSTANTS
    MaxFetched,      \* no run fetches more rows than this
    HEALTH_WINDOW,   \* how many runs the health window keeps
    MIN_HISTORY_RUNS,
    MinBaseline,     \* the norm below which a source is not judged (5)
    CollapseNum, CollapseDen,   \* VOLUME_COLLAPSE_RATIO (2 / 5)
    MinAttempted     \* rows below which rejections are not judged (10)

ASSUME SourceDocAssumption ==
    /\ MaxFetched \in Nat
    /\ HEALTH_WINDOW \in Nat \ {0}
    /\ MIN_HISTORY_RUNS \in Nat \ {0}
    /\ MinBaseline \in Nat
    /\ CollapseNum \in Nat /\ CollapseDen \in Nat \ {0}
    /\ MinAttempted \in Nat

\* A window entry is the number of rows an ok run fetched; Void stands for a
\* failed run or a 304, whose count no judgement reads.
Void == -1
Entry == {Void} \cup 0 .. MaxFetched

\* cursor 0 is no cursor.
Doc == [status : SOURCE_STATUS,
        fails  : 0 .. DisableAfter,     \* consecutiveFailures, saturating
        window : {w \in Seq(Entry) : Len(w) <= HEALTH_WINDOW},
        cursor : Nat]

-----------------------------------------------------------------------------
(* Judging a run. *)

Counted(window) == SelectSeq(window, LAMBDA e : e # Void)

\* The k-th smallest entry.
Ranked(window, k) ==
    CHOOSE e \in {window[i] : i \in DOMAIN window} :
        /\ Cardinality({i \in DOMAIN window : window[i] < e}) < k
        /\ k <= Cardinality({i \in DOMAIN window : window[i] <= e})

\* Void when there is no norm yet.
baselineJobCount(window) ==
    LET counts == Counted(window)
        n      == Len(counts)
        mid    == n \div 2 IN
    IF n < MIN_HISTORY_RUNS THEN Void
    ELSE IF n % 2 = 1 THEN Ranked(counts, mid + 1)
    ELSE (Ranked(counts, mid) + Ranked(counts, mid + 1) + 1) \div 2

\* The high-severity anomalies of a run; fetched already includes the rejected
\* rows, and assessRun adds them once more.
Anomalies(window, fetched, rejected, errors) ==
    LET baseline == baselineJobCount(window) IN
    {kind \in {"SCHEMA_ERROR", "EMPTY_AFTER_POPULATED", "VOLUME_COLLAPSE",
               "PARSE_FAILURE_SPIKE"} :
       \/ kind = "SCHEMA_ERROR" /\ \E i \in DOMAIN errors : errors[i] = "SCHEMA_CHANGED"
       \/ kind = "EMPTY_AFTER_POPULATED" /\ baseline >= MinBaseline /\ fetched = 0
       \/ /\ kind = "VOLUME_COLLAPSE" /\ baseline >= MinBaseline
          /\ fetched > 0 /\ CollapseDen * fetched < CollapseNum * baseline
       \/ /\ kind = "PARSE_FAILURE_SPIKE"
          /\ fetched + rejected >= MinAttempted
          /\ 10 * rejected >= 3 * (fetched + rejected)}

credible(window, fetched, rejected, errors) ==
    Anomalies(window, fetched, rejected, errors) = {}

mayReconcileMissing(authoritative, isCredible) == authoritative /\ isCredible

-----------------------------------------------------------------------------
(* Recording a run. *)

Appended(window, e) ==
    Append(IF Len(window) = HEALTH_WINDOW THEN Tail(window) ELSE window, e)

\* Mutant: a run that is not credible leaves the window as it was.
recordRunUnlearned(src, stale, fetched, unchanged, errors, isCredible, nextCursor) ==
    [status |-> IF isCredible THEN "ACTIVE" ELSE "DEGRADED",
     fails  |-> 0,
     window |-> IF isCredible THEN Appended(src.window, fetched) ELSE src.window,
     cursor |-> nextCursor]

\* stale is the status the run read when it began; the rest of the document is
\* read again.  An empty sequence of errors means ok, whose deriveStatus the
\* health status always replaces.
recordRun(src, stale, fetched, unchanged, errors, isCredible, nextCursor) ==
    LET ok    == errors = <<>>
        fails == IF ok THEN 0
                 ELSE IF src.fails = DisableAfter THEN src.fails ELSE src.fails + 1 IN
    [status |-> IF ~isCredible THEN "DEGRADED"
                ELSE IF ok THEN healthStatusFor(stale, isCredible, ok)
                ELSE deriveStatus(src.status, fails, errors[1]),
     fails  |-> fails,
     window |-> Appended(src.window, IF ok /\ ~unchanged THEN fetched ELSE Void),
     cursor |-> nextCursor]
=============================================================================
