--------------------------- MODULE SourceRegistry ---------------------------
(***************************************************************************)
(* Who may crawl a source, and who decides: the registry's documents       *)
(* (sourceRegistry.js), the operators that allow or deny a source          *)
(* (index.js setSourceAccess), discovery that registers it                 *)
(* (sourceDiscovery.js), and the runs that judge it (ingest.runSource),    *)
(* started by the crawl queue, a manual fetch or a route.  Every change    *)
(* reads the whole document, awaits, and puts the whole document; a run    *)
(* moreover judges by the status it read when it began.                    *)
(* What a run does to the job store is BoardCrawl's subject, and the crawl *)
(* queue's documents are CrawlQueue's: here a task is its attempts.        *)
(***************************************************************************)
EXTENDS SourceStatus

CONSTANTS
    Board,       \* the sources
    Generic,     \* those read off a careers site, under robots.txt
    Registrar,   \* processes that register what discovery found
    Admin,       \* operators that decide about access
    Run,         \* concurrent runs of the pipeline
    QueueTries   \* maxAttempts of a crawl task

ASSUME RegistryAssumption == Generic \subseteq Board /\ QueueTries \in Nat \ {0}

ACCESS_POLICY == {"ALLOW", "REVIEW", "DENY"}

\* What robots.txt may say when it is asked, REVIEW when it cannot be read: it is
\* outside the system and may change from one check to the next.
RobotsSay == ACCESS_POLICY

\* A policy of NONE stands for "no document with this id".
RegDoc == [policy  : ACCESS_POLICY \cup {"NONE"},
           approved: BOOLEAN,               \* accessApproval # null
           status  : SOURCE_STATUS,
           fails   : 0 .. DisableAfter]     \* consecutiveFailures, saturating

Unknown == [policy |-> "NONE", approved |-> FALSE, status |-> "ACTIVE", fails |-> 0]

\* What a run goes by of the document it began with.
Seen == [policy : ACCESS_POLICY, approved : BOOLEAN, status : SOURCE_STATUS]
seenOf(doc) == [policy |-> doc.policy, approved |-> doc.approved, status |-> doc.status]

Permanent == {"ROBOTS_DENIED", "NOT_CONFIGURED"}

-----------------------------------------------------------------------------
(* What each operation writes over the document it read. *)

\* registerAts and registerGeneric; check is what robots.txt says.
makeSource(b, check) ==
    LET policy == IF b \in Generic THEN check ELSE "ALLOW" IN
    [Unknown EXCEPT !.policy = policy,
                    !.status = IF policy = "DENY" THEN "DISABLED" ELSE "ACTIVE"]

\* Of a known source only metadata is enriched: no caller passes overwrite, which
\* would put the candidate's policy, approval and status over it.
registered(doc, b, check) == IF doc.policy = "NONE" THEN makeSource(b, check) ELSE doc

decided(doc, policy) ==
    [doc EXCEPT !.policy = policy,
                !.approved = (policy = "ALLOW"),
                !.status = IF policy = "DENY" THEN "DISABLED" ELSE @]

Saturated(n) == IF n = DisableAfter THEN n ELSE n + 1

\* Mutant: an ok run leaves the count of failures alone.
recordedSticky(doc, seen, class, isCredible) ==
    [doc EXCEPT !.fails = IF class = "NONE" THEN @ ELSE Saturated(@),
                !.status = IF ~isCredible THEN "DEGRADED"
                           ELSE IF class = "NONE" THEN healthStatusFor(seen.status, TRUE, TRUE)
                           ELSE deriveStatus(@, Saturated(doc.fails), class)]

\* Mutant: the run puts the document it began with, brought up to date.
recordedOver(doc, seen, class, isCredible) ==
    LET fails == IF class = "NONE" THEN 0 ELSE Saturated(doc.fails) IN
    [policy |-> seen.policy, approved |-> seen.approved, fails |-> fails,
     status |-> IF ~isCredible THEN "DEGRADED"
                ELSE IF class = "NONE" THEN healthStatusFor(seen.status, TRUE, TRUE)
                ELSE deriveStatus(seen.status, fails, class)]

\* recordRun: seen is what the run began with, "NONE" is no error.
recorded(doc, seen, class, isCredible) ==
    LET fails == IF class = "NONE" THEN 0 ELSE Saturated(doc.fails) IN
    [doc EXCEPT !.fails = fails,
                !.status = IF ~isCredible THEN "DEGRADED"
                           ELSE IF class = "NONE" THEN healthStatusFor(seen.status, TRUE, TRUE)
                           ELSE deriveStatus(@, fails, class)]

notConfigured(doc) == [doc EXCEPT !.status = "NOT_CONFIGURED"]

\* Mutant: the scheduler's guard asks for the status alone.
crawlableStatus(doc) == doc.policy # "NONE" /\ doc.status \notin {"DISABLED", "NOT_CONFIGURED"}

\* listDueSources and crawlSlice ask the same of a source.
crawlable(doc) == doc.policy = "ALLOW" /\ doc.status \notin {"DISABLED", "NOT_CONFIGURED"}

\* What checkAccess of a careers site makes of robots.txt and of an approval.
accessGranted(doc, check) ==
    check = "ALLOW" \/ (check = "REVIEW" /\ doc.policy = "ALLOW" /\ doc.approved)

\* The errors a run may report first.
errorsOf(b, doc, check) ==
    IF b \in Generic /\ ~accessGranted(doc, check)
    THEN {IF check = "DENY" THEN "ROBOTS_DENIED" ELSE "NETWORK"}
    ELSE {"NONE", "NETWORK", "NOT_CONFIGURED"}

-----------------------------------------------------------------------------
VARIABLES
    source,       \* the stored documents
    listed,       \* boards a scheduler found due and is about to enqueue
    waiting,      \* 0 without an open crawl task, else one more than its attempts
    registering,  \* what a registrar has read of a board and is about to put
    deciding,     \* the same of an operator, with the policy decided on
    run,          \* the runs in progress
    decision,     \* history: the last decision put, NONE before the first
    streak,       \* history: failed runs recorded since the last ok one
    added,        \* history: tasks enqueued since the board was denied
    excused,      \* history: something has happened that may darken the source
    orderly       \* no two changes of one document overlap

regVars == <<source, listed, waiting, registering, deciding, run,
             decision, streak, added, excused, orderly>>
histories == <<decision, streak, added, excused>>

Change == [board : Board, doc : RegDoc]
Decision == [board : Board, doc : RegDoc, policy : ACCESS_POLICY]

\* A run crawls, then is about to put what it recorded, then, when the adapter
\* had no credentials, reads again and puts once more.
Crawling == [board : Board, seen : Seen, queued : BOOLEAN, at : {"crawling", "unconfigured"}]
Recording == [board : Board, doc : RegDoc, class : ERROR_CLASS \cup {"NONE"}, queued : BOOLEAN,
              at : {"recording", "unconfiguring"}]

Put(x) == x.at \in {"recording", "unconfiguring"}

\* In an orderly behaviour a document is read only when nobody is about to put it.
Unshared(b) ==
    orderly =>
        /\ \A r \in Registrar : \A c \in registering[r] : c.board # b
        /\ \A a \in Admin : \A c \in deciding[a] : c.board # b
        /\ \A r \in Run : \A x \in run[r] : Put(x) => x.board # b

RegInit ==
    /\ source = [b \in Board |-> Unknown]
    /\ listed = {}
    /\ waiting = [b \in Board |-> 0]
    /\ registering = [r \in Registrar |-> {}]
    /\ deciding = [a \in Admin |-> {}]
    /\ run = [r \in Run |-> {}]
    /\ decision = [b \in Board |-> "NONE"]
    /\ streak = [b \in Board |-> 0]
    /\ added = [b \in Board |-> 0]
    /\ excused = {}
    /\ orderly \in BOOLEAN

-----------------------------------------------------------------------------
Write(b, doc) ==
    /\ source' = [source EXCEPT ![b] = doc]
    /\ added' = [added EXCEPT ![b] = IF doc.policy = "DENY" THEN @ ELSE 0]

RegisterRead(r, b) ==
    /\ registering[r] = {}
    /\ Unshared(b)
    /\ \E check \in RobotsSay :
          registering' = [registering EXCEPT ![r] =
                            {[board |-> b, doc |-> registered(source[b], b, check)]}]
    /\ UNCHANGED <<source, listed, waiting, deciding, run, histories, orderly>>

RegisterPut(r) ==
    /\ \E c \in registering[r] :
          /\ Write(c.board, c.doc)
          /\ excused' = IF c.doc.policy = "DENY" THEN excused \cup {c.board} ELSE excused
    /\ registering' = [registering EXCEPT ![r] = {}]
    /\ UNCHANGED <<listed, waiting, deciding, run, decision, streak, orderly>>

\* setSourceAccess checks robots.txt again before it allows a careers site, and
\* refuses on a DENY; robots.txt is outside the system and may always say otherwise.
DecideRead(a, b, policy) ==
    /\ deciding[a] = {}
    /\ source[b].policy # "NONE"
    /\ \E check \in RobotsSay : policy = "ALLOW" => check # "DENY"
    /\ Unshared(b)
    /\ deciding' = [deciding EXCEPT ![a] =
                      {[board |-> b, policy |-> policy, doc |-> decided(source[b], policy)]}]
    /\ UNCHANGED <<source, listed, waiting, registering, run, histories, orderly>>

DecidePut(a) ==
    /\ \E c \in deciding[a] :
          /\ Write(c.board, c.doc)
          /\ decision' = [decision EXCEPT ![c.board] = c.policy]
          /\ excused' = IF c.policy = "DENY" THEN excused \cup {c.board} ELSE excused
    /\ deciding' = [deciding EXCEPT ![a] = {}]
    /\ UNCHANGED <<listed, waiting, registering, run, streak, orderly>>

\* crawlSlice lists the due sources that have no task yet, then enqueues them one
\* after the other; a manual fetch in queue mode asks for the policy alone.
ListDue(b) ==
    /\ crawlable(source[b])
    /\ waiting[b] = 0
    /\ b \notin listed
    /\ listed' = listed \cup {b}
    /\ UNCHANGED <<source, waiting, registering, deciding, run, histories, orderly>>

queueTarget(b) ==
    /\ source[b].policy = "ALLOW"
    /\ waiting[b] = 0
    /\ b \notin listed
    /\ listed' = listed \cup {b}
    /\ UNCHANGED <<source, waiting, registering, deciding, run, histories, orderly>>

Enqueue(b) ==
    /\ b \in listed
    /\ listed' = listed \ {b}
    /\ waiting' = [waiting EXCEPT ![b] = 1]
    /\ added' = [added EXCEPT ![b] = IF source[b].policy = "DENY" /\ @ < 2 THEN @ + 1 ELSE @]
    /\ UNCHANGED <<source, registering, deciding, run, decision, streak, excused, orderly>>

Begin(r, b, queued) ==
    /\ run[r] = {}
    /\ run' = [run EXCEPT ![r] = {[board |-> b, seen |-> seenOf(source[b]),
                                  queued |-> queued, at |-> "crawling"]}]
    /\ UNCHANGED <<source, listed, registering, deciding, histories, orderly>>

QueuedRun(b) == \E r \in Run : \E x \in run[r] : x.board = b /\ x.queued

\* A leased task is run whatever has become of its source in the meantime.
RunQueued(r, b) ==
    /\ waiting[b] > 0
    /\ ~QueuedRun(b)
    /\ waiting' = [waiting EXCEPT ![b] = IF @ > QueueTries THEN @ ELSE @ + 1]
    /\ Begin(r, b, TRUE)

fetchNow(r, b) ==
    /\ source[b].policy = "ALLOW" /\ source[b].status # "DISABLED"
    /\ Begin(r, b, FALSE)
    /\ UNCHANGED waiting

crawlSource(r, b) ==
    /\ source[b].policy # "NONE"
    /\ Begin(r, b, FALSE)
    /\ UNCHANGED waiting

\* The crawl ends with a verdict, and recordRun reads the source again.
Judge(r) ==
    \E x \in run[r] :
        /\ x.at = "crawling"
        /\ Unshared(x.board)
        /\ \E check \in RobotsSay, isCredible \in BOOLEAN :
           \E class \in errorsOf(x.board, x.seen, check) :
              run' = [run EXCEPT ![r] =
                  {[board |-> x.board, queued |-> x.queued, class |-> class, at |-> "recording",
                    doc |-> recorded(source[x.board], x.seen, class, isCredible)]}]
        /\ UNCHANGED <<source, listed, waiting, registering, deciding, histories, orderly>>

\* What an ended run leaves of its task: nothing if it is complete, a continuation
\* if it was ok but partial, a retry while the error and the attempts allow one.
Spent(x) == x.class \in Permanent \/ waiting[x.board] > QueueTries
EndTask(x) ==
    \/ x.queued /\ (x.class = "NONE" \/ Spent(x)) /\ waiting' = [waiting EXCEPT ![x.board] = 0]
    \/ ~(x.queued /\ x.class # "NONE" /\ Spent(x)) /\ UNCHANGED waiting

RecordPut(r) ==
    \E x \in run[r] :
        /\ x.at = "recording"
        /\ Write(x.board, x.doc)
        /\ streak' = [streak EXCEPT ![x.board] =
                        IF x.class = "NONE" THEN 0 ELSE Saturated(@)]
        /\ excused' = IF x.class \in Permanent \/ streak'[x.board] = DisableAfter
                      THEN excused \cup {x.board} ELSE excused
        /\ IF x.class = "NOT_CONFIGURED"
           THEN /\ run' = [run EXCEPT ![r] = {[board |-> x.board, queued |-> x.queued,
                                               seen |-> seenOf(x.doc), at |-> "unconfigured"]}]
                /\ UNCHANGED waiting
           ELSE run' = [run EXCEPT ![r] = {}] /\ EndTask(x)
        /\ UNCHANGED <<listed, registering, deciding, decision, orderly>>

UnconfigureRead(r) ==
    \E x \in run[r] :
        /\ x.at = "unconfigured"
        /\ Unshared(x.board)
        /\ run' = [run EXCEPT ![r] =
              {[board |-> x.board, queued |-> x.queued, class |-> "NOT_CONFIGURED",
                at |-> "unconfiguring", doc |-> notConfigured(source[x.board])]}]
        /\ UNCHANGED <<source, listed, waiting, registering, deciding, histories, orderly>>

UnconfigurePut(r) ==
    \E x \in run[r] :
        /\ x.at = "unconfiguring"
        /\ Write(x.board, x.doc)
        /\ run' = [run EXCEPT ![r] = {}]
        /\ EndTask(x)
        /\ UNCHANGED <<listed, registering, deciding, decision, streak, excused, orderly>>

\* The process dies in a run; the queue will lease the task again if it may.
Abort(r) ==
    /\ run[r] # {}
    /\ run' = [run EXCEPT ![r] = {}]
    /\ UNCHANGED <<source, listed, waiting, registering, deciding, histories, orderly>>

RunEnds(r) == Judge(r) \/ RecordPut(r) \/ UnconfigureRead(r) \/ UnconfigurePut(r)

RegNext ==
    \/ \E r \in Registrar : (\E b \in Board : RegisterRead(r, b)) \/ RegisterPut(r)
    \/ \E a \in Admin :
          (\E b \in Board, policy \in ACCESS_POLICY : DecideRead(a, b, policy)) \/ DecidePut(a)
    \/ \E b \in Board : ListDue(b) \/ queueTarget(b) \/ Enqueue(b)
    \/ \E r \in Run, b \in Board : RunQueued(r, b) \/ fetchNow(r, b) \/ crawlSource(r, b)
    \/ \E r \in Run : RunEnds(r) \/ Abort(r)

RegSpec == RegInit /\ [][RegNext]_regVars

-----------------------------------------------------------------------------
(* Properties *)

\* Every variable has its type; in particular no document is ever torn.
RegTypeOK ==
    /\ source \in [Board -> RegDoc]
    /\ listed \subseteq Board
    /\ waiting \in [Board -> 0 .. QueueTries + 1]
    /\ registering \in [Registrar -> SUBSET Change]
    /\ deciding \in [Admin -> SUBSET Decision]
    /\ run \in [Run -> SUBSET (Crawling \cup Recording)]
    /\ decision \in [Board -> ACCESS_POLICY \cup {"NONE"}]
    /\ streak \in [Board -> 0 .. DisableAfter]
    /\ added \in [Board -> 0 .. 2]
    /\ excused \subseteq Board
    /\ orderly \in BOOLEAN

\* In orderly behaviours, what an operator decided stands until an operator decides
\* otherwise: a run that began before the decision and records after it, and a second
\* registration, change neither policy nor approval (sourceRegistry.js register:
\* "never reset health or cursors"; index.js setSourceAccess).  A read-await-put that
\* straddles the decision loses it: that is what orderly leaves out.
DecisionsStick ==
    orderly => \A b \in Board : decision[b] # "NONE" =>
        /\ source[b].policy = decision[b]
        /\ source[b].approved = (decision[b] = "ALLOW")

\* In orderly behaviours, the failures that disable a source are failures in a row:
\* the count is that of the failed runs recorded since the last ok one, while the
\* runs of a queue, a manual fetch and a route overlap (their recordRuns do not, or
\* one count is lost) and an operator or a registration writes between them.
FailuresAreCounted == orderly => \A b \in Board : source[b].fails = streak[b]

\* In orderly behaviours, a source goes dark (listDueSources never returns it again)
\* only for a reason:
\* it was denied, a run met robots.txt or a missing configuration, or DisableAfter
\* runs in a row failed.
DarkForAReason ==
    orderly => \A b \in Board :
        source[b].status \in {"DISABLED", "NOT_CONFIGURED"} => b \in excused

\* A denied source is left alone ("so the scheduler routes around it",
\* sourceDiscovery.js:235-236): while the decision stands at most one task is added
\* for it, one whose source was read before the decision, although a run that began
\* before it may write the status back to one the scheduler crawls.
DeniedIsLeftAlone == \A b \in Board : added[b] <= 1
=============================================================================
