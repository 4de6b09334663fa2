------------------------------ MODULE CrawlTask ------------------------------
(***************************************************************************)
(* The document the crawl queue stores for one (source, due-window), and   *)
(* what each queue operation writes over it                                *)
(* (src/server/services/jobDiscovery/crawlQueue.js, and the lease of       *)
(* store.js).  Every operation but the lease replaces the WHOLE stored     *)
(* document by the caller's copy of it with some fields changed, so an     *)
(* operation is a function from the caller's copy to the document put.     *)
(*                                                                         *)
(* Instants are kept as the ticks left until them: leaseExpiresAt <= now   *)
(* is "leaseLeft = 0" and a null or past availableAt is "waitLeft = 0".    *)
(* Only those comparisons are ever made with the two instants.             *)
(***************************************************************************)
EXTENDS Integers

CONSTANTS
    Worker,        \* the worker processes (scheduler.js workerId)
    NoOwner,       \* leaseOwner: null
    ErrorClass,    \* the classes a failed run reports (schema.js ERROR_CLASS)
    NonRetryable,  \* those that must not be retried
    NoError,       \* lastError: null
    MaxAttempts,   \* maxAttempts, 5 in the code
    LeaseTicks,    \* leaseMs, 5 minutes in the code
    BaseRetry,     \* BASE_RETRY_MS
    MaxRetry,      \* MAX_RETRY_MS
    MaxCursor      \* bound: page cursors are 1..MaxCursor, 0 is "no checkpoint"

ASSUME CrawlTaskAssumption ==
    /\ NoOwner \notin Worker
    /\ NoError \notin ErrorClass
    /\ NonRetryable \subseteq ErrorClass
    /\ MaxAttempts \in Nat \ {0}
    /\ LeaseTicks \in Nat \ {0}
    /\ BaseRetry \in Nat \ {0}
    /\ MaxRetry \in Nat
    /\ MaxCursor \in Nat

CRAWL_STATE == {"PENDING", "LEASED", "RETRY", "DONE", "DEAD"}

Cursor == 0 .. MaxCursor

\* ABSENT stands for "no document with this id".  attempts is exact up to
\* MaxAttempts and saturates above it: fail() only asks attempts >= maxAttempts.
Doc == [state     : CRAWL_STATE \cup {"ABSENT"},
        attempts  : 0 .. MaxAttempts + 1,
        waitLeft  : Nat,
        leaseOwner: Worker \cup {NoOwner},
        leaseLeft : 0 .. LeaseTicks,
        checkpoint: Cursor,
        lastError : ErrorClass \cup {NoError}]

Blank(state) == [state |-> state, attempts |-> 0, waitLeft |-> 0,
                 leaseOwner |-> NoOwner, leaseLeft |-> 0,
                 checkpoint |-> 0, lastError |-> NoError]

Absent == Blank("ABSENT")

makeCrawlTask == Blank("PENDING")

\* The delays retryDelayMs can return: the doubled and capped base times a
\* factor between 0.7 and 1.3, rounded.
RetryDelays(attempts) ==
    LET doubled == BaseRetry * 2 ^ (IF attempts > 1 THEN attempts - 1 ELSE 0)
        base    == IF doubled < MaxRetry THEN doubled ELSE MaxRetry
    IN  {d \in 0 .. 2 * MaxRetry : 7 * base <= 10 * d + 5 /\ 10 * d <= 13 * base + 5}

-----------------------------------------------------------------------------
(* What the store's lease looks for, and what it sets. *)

\* Mutant: expired leases are not looked for.
LeasableNoReclaim(doc) == doc.state \in {"PENDING", "RETRY"}

\* Mutant: the lease query forgets to ask whether the lease has expired.
LeasableUnexpired(doc) == doc.state \in {"PENDING", "RETRY", "LEASED"}

\* Mutant: the lease query also finds dead letters.
LeasableDead(doc) ==
    \/ doc.state \in {"PENDING", "RETRY", "DEAD"}
    \/ doc.state = "LEASED" /\ doc.leaseLeft = 0

Leasable(doc) ==
    \/ doc.state \in {"PENDING", "RETRY"}
    \/ doc.state = "LEASED" /\ doc.leaseLeft = 0

Due(doc) == Leasable(doc) /\ doc.waitLeft = 0

leased(doc, w) ==
    [doc EXCEPT !.state = "LEASED",
                !.leaseOwner = w,
                !.leaseLeft = LeaseTicks,
                !.attempts = IF @ > MaxAttempts THEN @ ELSE @ + 1]

-----------------------------------------------------------------------------
(* What each operation of the queue writes, given the caller's copy.       *)

checkpoint(doc, cursor) ==
    [doc EXCEPT !.checkpoint = cursor, !.leaseLeft = LeaseTicks]

unleased(doc) == [doc EXCEPT !.leaseOwner = NoOwner, !.leaseLeft = 0]

defer(doc, cursor) ==
    [unleased(doc) EXCEPT !.state = "RETRY",
                          !.waitLeft = 0,
                          !.checkpoint = IF cursor # 0 THEN cursor ELSE @,
                          !.lastError = NoError]

complete(doc) ==
    [unleased(doc) EXCEPT !.state = "DONE", !.checkpoint = 0, !.lastError = NoError]

GivesUp(doc, error) == error \in NonRetryable \/ doc.attempts >= MaxAttempts

dead(doc, error) == [unleased(doc) EXCEPT !.state = "DEAD", !.lastError = error]

\* Mutant: a retry that forgets to leave LEASED.
retryStillLeased(doc, error, delay) ==
    [doc EXCEPT !.waitLeft = delay, !.lastError = error, !.leaseLeft = 0]

retry(doc, error, delay) ==
    [unleased(doc) EXCEPT !.state = "RETRY", !.waitLeft = delay, !.lastError = error]

failOutcomes(doc, error) ==
    IF GivesUp(doc, error)
    THEN {dead(doc, error)}
    ELSE {retry(doc, error, d) : d \in RetryDelays(doc.attempts)}

\* requeueDeadLetter with its default resetAttempts.
requeued(doc) ==
    [doc EXCEPT !.state = "PENDING", !.attempts = 0, !.waitLeft = 0]

-----------------------------------------------------------------------------
(* One tick of the clock, seen from a stored or a copied document.         *)

Less(n) == IF n = 0 THEN 0 ELSE n - 1

Aged(doc) == [doc EXCEPT !.waitLeft = Less(@), !.leaseLeft = Less(@)]
=============================================================================
