# career-autopilot in TLA+

This directory holds the formal models kept beside career-autopilot: TLA+ modules translated from its source,
TLC configurations that check them on small instances, and TLAPS proofs for every value of the constants. JD
below stands for `src/server/services/jobDiscovery/`.

The repository is an Express application with a React client, a resume engine, content generators and a Mongo
(or file) store. Most of it is request/response code over single documents, or pure text processing. The job
discovery service is the part that runs unattended: it crawls career sites page by page with several workers,
leases, checkpoints and retries, decides from what it saw *and did not see* whether a vacancy is still open,
and has to survive crashes and half-broken sources. That is where order and failure matter most, so that is
where most of the models are; three records of the college and account routes that several requests rewrite at
once come after it.

## 1. Inventory

| part | code | state it keeps | operations | here |
|---|---|---|---|---|
| crawl queue | `crawlQueue.js`, lease in `store.js` | one document per (source, due-window): state, attempts, availableAt, lease, checkpoint, lastError | enqueue, lease, checkpoint, defer, complete, fail, requeueDeadLetter | `CrawlTask`, `CrawlQueue`, `LeaseQueue` |
| discovery queue | `discoveryQueue.js`, `sourceDiscovery.js` | one document per lead: state, attempts, nextAttemptAt, lease | enqueue, lease, defer, resolve, fail; probes that enqueue | `DiscoveryQueue`, `LeaseQueue` |
| source registry | `sourceRegistry.js`, `index.js` | a source's access policy, approval, status, failures, window, cursor, validators | register, update, recordRun, setSourceAccess | `SourceRegistry`, `SourceStatus`, `SourceDoc` |
| health guard | `sourceHealth.js` | none; reads the window of past runs | assessRun, mayReconcileMissing, healthStatusFor | `SourceStatus`, `SourceDoc` |
| freshness | `freshness.js`, `schema.js` | a job's status, instances with miss counts, flag, closedAt | observeSeen, observeMissing, observeSourceFailure, applyVerification, sweepStaleness | `JobRecord`, `JobLifecycle` |
| dedupe | `dedupe.js`, `normalize/index.js` | clusters of postings in a job | findDuplicate, mergeJobs | control in `JobRecord` |
| ingest | `ingest.js` | none of its own | runSource, ingestOne, reconcileMissing, markSourceFailureOnJobs | `JobLifecycle`, `BoardCrawl` |
| board adapters | `adapters/*.js` | none | fetchJobs (pages, cursors, 304), verify | paging in `BoardCrawl` |
| scheduler | `scheduler.js` | none | discoverySlice, crawlSlice, VerificationWorker.run, sweep; tick | slices in the modules above and `VerificationBudget` |
| verification policy | `verificationPolicy.js` | a job's nextVerifyAt | tiers, due test, budget | `VerificationBudget` |
| transport | `crawler/rateControl.js`, `crawler/httpClient.js` | semaphores, circuit breakers | fetch with retries and redirects | `RateControl` |
| store | `store.js` | collections, generation counter, debounced flush | get/put, lease, list, search | each call atomic |
| facade, manual ingest | `index.js`, `manualIngest.js` | none | operator fetches, access decisions | `SourceRegistry`; as overlapping runs in `JobLifecycle` |
| search | `searchIndex.js`, `ranking.js`, ... | result cache | search | not modelled |
| companies, coverage, evaluation, normalization | `companyRegistry.js`, ... | company documents | merges, reports, text | not modelled |
| team projects | `db.js`, `teamProjectRoutes.js`, `teamProgressRoutes.js` | submission, its history, badge, module ticks | submit, check, tick, remove | `TeamProject` |
| placements | `db.js`, `collegeRoutes.js` | drives and outcome rows | create, record outcomes, delete | `PlacementDrive` |
| account deletion | `db.js`, `opsRoutes.js` | deletion date, the account's collections | request, sign in, sweep, purge | `AccountDeletion` |
| rest of the application | `src/db.js`, `src/server.js`, `src/web`, resume and project engines | user data | routes | not modelled (section 8) |

How they interact. A scheduler tick runs `discoverySlice`, `crawlSlice`, then `VerificationWorker.run`.
`discoverySlice` leases leads and probes each; what it finds is registered as a source, or enqueued as further
leads. `crawlSlice` enqueues the due sources, leases a batch of tasks and for each calls `runSource`, which
asks the adapter for one page after the other (each a `fetch` through the transport), ingests every row into a
job document (`findDuplicate`, `mergeJobs`, `observeSeen`), checkpoints the task after each page, at the end
lets the health guard judge the run, counts the rows it did not see as missing if it may, and records the run
in the source's document. `crawlSlice` then completes, defers or fails the task. The verification pass lists
candidates, asks the policy which are due, asks the adapter whether the best instance is still up, and applies
the answer. Clients (operator routes, manual fetches, the worker script, a cron trigger) call the same
functions from other processes. They share nothing but the store, whose single reads, single writes and leases
are atomic and which checks no versions: **every update but the lease is a read, an `await`, and a put of the
whole document.** The college routes do the same with Mongo documents.

What is hard about it:

* *stale copies*: a worker that outlived its lease, a run that judges by the status it read when it began, or
  a verification answer that took long, puts an old document over a newer one;
* *crashes and leases*: nothing but an expired lease brings a dead worker's task back, and cursors are written
  in two places at different moments;
* *evidence by absence*: a listing that was cut short, resumed, broken, empty or edited while it was read must
  not close vacancies, yet a real removal must get through;
* *budgets and boundaries*: attempts, backoffs, page limits, exactly full last pages, medians of short
  windows, slots that are freed while others wait;
* *something must happen in the end*: leads, tasks, checks and requests compete, and none may be passed over
  for ever.

`PROJECT.json` lists these hazards one by one at their lines, with the property that covers each or the reason
why none does. What makes each component correct is stated as the properties of its module (section 4).

## 2. Modules

| module | EXTENDS | what it is |
|---|---|---|
| `CrawlTask`, `CrawlQueue` | Integers, FiniteSets | the crawl task's document; clients and workers over stored documents and copies |
| `DiscoveryQueue` | Integers, FiniteSets | the same for leads, whose probes enqueue more leads |
| `LeaseQueue` | | the abstract promise of both queues: no leases, documents or clock |
| `SourceStatus` | Integers | how the status of a source follows from errors and health |
| `SourceRegistry` | `SourceStatus` | registrars, operators and runs over one document per source |
| `JobRecord` | Integers, Sequences | the job's document and the pure functions of dedupe and freshness |
| `JobLifecycle` | `JobRecord` | one document under overlapping ingest runs, verification passes and sweeps |
| `SourceDoc` | `SourceStatus`, Sequences, FiniteSets | the source's window, cursor and validators; judging and recording a run |
| `BoardCrawl` | `JobRecord`, `SourceDoc` | the crawl of one paginated board, run after run |
| `VerificationBudget` | Integers, FiniteSets, Sequences | which job a verification pass checks, and when it comes up again |
| `RateControl` | Naturals, Sequences, FiniteSets | semaphores and circuit breakers under the continuations of one thread |
| `SlotPool` | Naturals, Sequences, FiniteSets | the abstract promise of the semaphores: slots go in turn, at once |
| `TeamProject` | Naturals, Sequences | a team's project and the requests that rewrite it |
| `AccountDeletion` | Naturals, Sequences | accounts with a grace window, sign-ins and purging sweeps |
| `PlacementDrive` | Naturals, Sequences, FiniteSets | drives and outcome rows without a unique key |
| `CrawlQueueProofs`, `DiscoveryProofs`, `JobRecordProofs`, `JobLifecycleProofs`, `BoardCrawlProofs`, `VerificationProofs`, `RateControlProofs`, `RecordsProofs` | the module(s), TLAPS | theorems and proofs; `DiscoveryProofs` is about registry and leads, `RecordsProofs` about teams, placements and accounts |
| `MCJobLifecycle`, `MCBoardCrawl`, `MCVerification`, `MCRateControl` | the module, TLC | values for TLC |
| `MCDiscovery`, `MCQueues`, `MCScheduler`, `MCRecords` | several | runs over several modules |

The composition is by shared operators and documents: `JobRecord` is used both by `JobLifecycle` (one
document, many writers) and by `BoardCrawl` (many documents, one writer); `SourceStatus` by the registry and
by `BoardCrawl`, which puts the ingest pipeline, the adapter, the health guard, the source's document and the
task together. The last four MC modules put modules that share *no* variable side by side: a variable `focus`,
chosen at the start, says which of them moves in this behaviour, so one run covers several modules and the
states add up instead of multiplying. Sets of slots that play the same role in two modules are given the same
model values there, so that one symmetry set serves both.

A definition whose comment begins with "Mutant:" is not part of a model: it is the definition after it with a
plausible bug, used to show that a property can fail.

Some modules have a boolean that never changes, set in the initial state, that restricts a behaviour to what a
property needs: `calm` leads (no worker outlives its lease, no write falls between an enqueue's read and its
put), an `orderly` registry (no two changes of one document overlap), a `calm` team (no two saves overlap, no
submission falls inside a check), a `quiet` purge (deletes succeed, a purged account is not in use), `tidy`
placements (no two requests have the same pair in hand). Properties that need it say `calm => ...`; all others
hold without. Each such condition is one the code does not enforce: a property that has it does not catch the
overlaps it leaves out, and what they do is said in section 4.

### CrawlQueue

`task[t]` is the stored document of task `t`, a pair of source and due-window, which is what
`idempotencyKeyFor` hashes. `held[w][t]` is the copy worker `w` got when it leased `t`, `running[w]` the task
whose crawl is under way, `reached[w]` the cursor that crawl has checkpointed. `intent[c]` is the document a
client is about to put after its read. `granted` only observes: the ticks a worker may still count on its own
lease.

Instants are kept as *ticks left*: `leaseLeft = 0` is `leaseExpiresAt <= now`, `waitLeft = 0` is a null or
past `availableAt`. The code compares these instants with now and with nothing else, so nothing is lost and
the state stays finite; `Tick` ages the stored documents and the copies alike. `lease` is one atomic store
call per document, as `findOneAndUpdate` is. `checkpointRun` and `Settle` put a document built from the
worker's *copy*, which is what `crawlSlice` does: it drops the document `checkpoint()` returns. `retryDelayMs`
is a set, because of its jitter. `Timely` says whether live workers can be trusted to act within their leases.

### DiscoveryQueue and SourceRegistry

Leads are modelled like tasks (`lead`, `copy`, `probing`, `reading` for an enqueue between its read and its
put); a lease costs no attempt and is not renewed, a verdict is resolved, failed with a backoff, exhausted or
dead, and may enqueue the lead's own finds. For `LeaseQueue` an exhausted or dead lead is done, a resolved
one, like a DEAD crawl task, only shelved. `owed` and `probes` observe the backoff a failure earned and the
probes that ended.

The registry's document is its policy, approval, status and consecutive failures. Every change is a pair of
actions, read and put: `registering`, `deciding`, and a run, which keeps what it *saw* of the document when it
began and judges by it at the end (`recorded(doc, seen, ...)`). `decision`, `streak`, `added`, `excused`
observe what an operator last decided, failures in a row, tasks added while denied, and why a source may be
dark. One queue task per source is kept; the robots check and the re-read of the document after it are one
step (`DecideRead`). The `overwrite` branch of `register` (`sourceRegistry.js:141-145`) is left out: no caller
asks for it.

### JobLifecycle

One canonical job document, the postings that share it, and processes that read it, wait, and put it back.
`run[c]` is an ingest run (`todo`: rows still to ingest; `read`: the copy in hand), `check[v]` a verification
pass or a sweep, `listed` the rows that are really up. An authoritative source lists all its rows, any other
source some of them. `findDuplicate` is an arbitrary relation `Alike`, because the similarity stages depend on
text. `dry[s]` observes how many complete listings of `s` in a row came without the job. `Serial` says whether
one scheduler runs its phases one after the other, or whether passes overlap (a manual fetch, two worker
processes). The `SOURCE_AUTHORITY` of a posting is `rank`; `weighed` is the verification worker's special case
for an aggregator's dead link. Time is one step, `Age`: the document has not been seen for `STALE_AFTER_DAYS`.

### SourceDoc and BoardCrawl

One authoritative board, an ordered sequence of rows that the site edits at any time (`post` at the top or the
bottom, `withdraw` anywhere, the rest moves up). `run` is the run under way through its phases `fetching`,
`judging`, `recording`, `settling`: one page per `fetchPage`, `assessRun` with `reconcileMissing` in `judge`,
`recordRun` in `record`, the end of the task's turn in `settle`. `src.cursor` and `task.checkpoint` are the
two places a run may resume from; `etag` is the page whose validators the source's document holds. Failures: a
page with an error (`pageError`), an exception anywhere (`throwRun`), a row that does not parse (`bad`), a row
with no title (`Nameless`, always rejected), a deadline between two pages (`stop`), a crash in the middle of a
reconciliation (`part` is what it had already counted). `whole`, `ended`, `calm` and `faults` only observe.
`baselineJobCount` is the real median with rounding, and the health guard's thresholds are constants, so the
cases of a small board are the cases of a large one. The paging protocol is that of `workday.js`
(`TotalGiven`) and of a board that gives no total (an exactly full last page then has an empty page after it);
conditional requests are those of `lever.js` (`Conditional`). Other adapters use the same loop.

### VerificationBudget and RateControl

`docs[j]` is what the policy reads of a job (status, verified or not, time since the last check, time `left`
to `nextVerifyAt`); `pass` is the rest of the pass under way. A tick is a crawl phase, in which jobs are seen
again or lose a sighting, and a verify phase. The part of a score that age, source and content make up is a
constant `base`; statuses the policy treats alike are merged; the clock advances one unit per pass.

`RateControl` models one thread: `ready` is the queue of continuations that are due, and the next answer,
timer or call is taken only when it is empty, so the two moments of a semaphore's `release` and the woken
`acquire` are separate, as they are in the code. Spacing and cooldown are a pause of any length, a DNS look-up
precedes every leg, retries and redirects share the bound `MaxLegs`, and hops that touch no shared state are
left out. `SlotPool` forgets the continuations: a request takes a slot (`Enter`) or queues for one (`Join`),
and gives it back to the pool (`Leave`) or to the first in line (`HandOver`), each in one step. `Holders(s)`
maps to it: the requests that hold a slot of `s` or were woken for one.

### TeamProject, AccountDeletion, PlacementDrive

As kept in MongoDB. `updateTeamProject` is `FindDoc` and `SaveDoc`: it merges the request's patch into the
document it found and saves all of `data`. A check of a submission looks at the link it read for a while
before it asks for its update. Titles and commit fields are left out. `upsertUser` is a read and a save of the
fields it changed; a purge empties one collection per step, the user document last, and may be cut anywhere.
`window` and `early` observe what was promised, not what is stored: a request opens a window, which runs down
by itself, and a sign-in that began after the request closes it when it completes. An outcome is found, merged
and saved, or created when none was found; a row keeps its place when it is deleted, so that its place is its
identity.

## 3. Runs

| run | module, cfg | checks | distinct states |
|---|---|---|---|
| `discovery` | `MCDiscovery`, `Discovery.cfg` | OneCrawlAtATime, ExpiredLeaseIsDue, NoStrandedLease, KeepsPromise; LapsedLeadIsDue; DecisionsStick, FailuresAreCounted, DarkForAReason, DeniedIsLeftAlone; InFlightBounded, SlotsInTurn | 808,000 |
| `queues_live` | `MCQueues`, `QueuesLive.cfg` | BackoffIsKept, AttemptsAreProbes, LeadsKeepPromise, EveryLeadSettles, EveryTaskSettles, EveryFetchReturns | 26,000 |
| `job_live` | `MCJobLifecycle`, `JobLifecycleLive.cfg` | GoneIsClosed, ListedIsShown, InstancesKept, NoLiveClosure, MissesEarned | 15,000 |
| `board_crawl` | `MCBoardCrawl`, `BoardCrawl.cfg` | LiveNeverStale, AbsenceNeedsTheEnd, NoFalseMiss | 288,000 |
| `scheduler_live` | `MCScheduler`, `SchedulerLive.cfg` | SuspectsFirst; WithdrawnIsFlagged, EveryRowIsIndexed, DegradedHeals, EveryDueJobIsChecked, VerifiedAgain | 131,000 |
| `records` | `MCRecords`, `Records.cfg` | HistoryTellsSubmission, TicksAreTheOwners, BadgeIsCurrent; OnlyLapsedPurged, PurgeIsComplete; FunnelKeepsGround; ShownHasLiveInstance, ClosedIffRemoved, StaleIsFlagged | 1,949,000 |
| `job_race` | `JobLifecycleRace.cfg` | NoLiveClosure: *violated* | |
| `board_resume` | `BoardCrawlResume.cfg` | AbsenceNeedsWholeListing: *violated* | |
| `board_unmodified` | `BoardCrawlUnmodified.cfg` | UnmodifiedIsIndexed: *violated* | |
| `verify_dropped` | `MCVerification`, `VerificationDropped.cfg` | NeverDropped: *violated* | |
| `circuit_reopens` | `MCRateControl`, `RateControlOpen.cfg` | HalfOpensLater: *violated* | |
| `lead_recheck` | `MCQueues`, `QueuesRecheck.cfg` | ResolvedIsRechecked: *violated* | |

To run one: `tlc -workers 2 -config Discovery.cfg MCDiscovery.tla`; to check proofs: `tlapm
CrawlQueueProofs.tla`.

## 4. What the runs show

**Crawl queue.** If workers act within their leases and one process enqueues, no two workers crawl a task at a
time and the queue of documents implements `LeaseQueue`: a task is open until a worker on it, and no one else,
settles it (`KeepsPromise`: a document maps to open, shelved or done, "working on" to holding a copy). No put
of a stale copy leaves a document that the lease query would not find again (`ExpiredLeaseIsDue`) or that only
looks leased (`NoStrandedLease`); the run shows these two in timely behaviours, the proofs in all. In the end
every queued task is DONE or DEAD (`EveryTaskSettles`).

**Leads.** Whatever stale copies enqueues and late verdicts put, a lease that lapsed can be taken over
(`LapsedLeadIsDue`). In calm behaviours nobody probes a lead while its backoff runs, attempts are exactly the
probes that came to a verdict, an exhausted or dead lead is not reopened by who finds it so
(`LeadsKeepPromise`, the same abstract queue), and every lead comes to a verdict.

**Registry.** In orderly behaviours, where runs overlap with everything but no source is read between
another's read and put of it, what an operator decided stands until an operator decides otherwise, consecutive
failures are the failures since the last ok run, and a source goes dark only after a denial, a permanent error
or `DisableAfter` failures in a row, although a run judges by a status that may be old. In every behaviour at
most one crawl task is added for a source while it is denied.

**Document.** In any interleaving of stale puts a document does not contradict itself: shown implies an
instance believed active, `closedAt` is set exactly on REMOVED, STALE is always flagged for verification. With
one scheduler moreover no instance is lost, no document is closed while an instance believed active is up, an
instance is only retired by absence after `MISS_THRESHOLD` complete listings in a row, a vacancy withdrawn
everywhere is closed for good, and one that stays on a board keeps coming back to a shown status.

**Board.** Absence is only counted by a run that read the last row and was not cut short, and never against a
listed row by a run from the first row on a board that met no fault. With two faults fewer between two clean
listings than the threshold, a listed row never goes stale. Every listed row is indexed in the end, however
many runs a crawl is cut into; every withdrawn row is flagged, even when the board shrank so much that the
guard did not believe it at first; a degraded source heals.

**Budget, transport.** A job that is due and has a url gets its check, as long as the jobs that stay due for
ever (no url, or a board that never answers) are fewer than `Limit`; a job that was verified once is verified
again; no pass comes to a job that is not flagged before it has come to all that are (`SuspectsFirst`),
although the query that cuts the window and the policy that cuts the budget sort by different keys. Requests
in flight never exceed the slots of the process or of a host, a freed slot goes to the request that has waited
longest, and a new request overtakes nobody (`SlotsInTurn`), and every fetch returns.

**Records.** What a team shows as submitted is the last entry of its history, a module that shows as done was
marked done by its owner, a verified badge is about the link that is shown (calm); no sweep picks an account
unless its window ran out and no sign-in begun since the request was completed, and what is picked is purged
wholly (quiet); a placement funnel counts a student once, at the deepest stage recorded (tidy).

**Disagreements between the code and what it says**, each a run that TLC violates and a finding in
`PROJECT.json`:

1. `job_race`: `scheduler.js:118` says only proof from the highest-authority instance closes a job. The answer
   is applied to the copy read before the check, so an instance merged meanwhile is lost, and its job REMOVED.
2. `board_resume`: `ingest.js:135` says absence is evidence only in a complete listing. A run resumed at page
   N is authoritative by its last page alone, and counts the rows of the first N pages missing.
3. `board_unmodified`: the validators of a first page stay stored when the run fails on the second; another
   failure clears the cursor. From then on the crawl gets a 304 at once, and pages two and on are never read.
4. `verify_dropped`: `verificationPolicy.js:34` says "verified rarely, never dropped". Every crawl that sees a
   job that was never verified puts its first check off anew.
5. `circuit_reopens`: a test says the circuit half-opens later. A request that the open circuit refuses is
   counted as a failure of the host and opens it anew.
6. `lead_recheck`: `discoveryQueue.js:207` says a resolved lead is rechecked after three weeks "rather than
   closed forever". No lease query asks for RESOLVED leads and no enqueue reopens one, so it is closed for
   ever.

**Met on the way.** These have no run of their own; each is why a condition or a constant is as it is.

* *Crawl queue.* Every lease adds one to `attempts` and `defer` does not take it back (`crawlQueue.js:199-200,
  255`), so healthy continuations of a long board spend its retry budget. With two enqueuing clients, or a
  worker that outlives its lease, exclusion fails: `enqueue` over a DEAD task reads, awaits and puts a fresh
  document, and drops the dead letter's error.
* *Leads.* Outside calm behaviours an enqueue that read a lead before a verdict and puts it after undoes the
  verdict, its attempt and its backoff, and brings a dead lead back, contrary to `discoveryQueue.js:133-138`;
  a lead whose probe kills its worker is leased for ever.
* *Registry.* Overlapping `register`, `update` and `recordRun` lose updates; a DISABLED is undone by a run in
  flight; the queued task of a denied source is still crawled once; a DISABLED or NOT_CONFIGURED source does
  not heal by an ok run, nor by approving it. A failing board that had rows is DEGRADED by the not-credible
  rule, and is not DISABLED until the window is empty; a broken parser becomes the norm after half of
  `HEALTH_WINDOW`.
* *Document.* With `Serial = FALSE`, two runs that read the same document each merge their own sighting, and
  one row is lost. Of two rows of one source in a cluster only the first is ever counted or retired
  (`Array.find`). With an aggregator beside the board, `GoneIsClosed` fails: the aggregator's instance is
  never counted, because its listing is never complete, and never checked, because the board's ranks higher.
* *Budget.* A job without a url is never rescheduled (`scheduler.js:153`), and `Limit` of them starve the
  rest; a flagged job that is only partly gone keeps its flag and stays URGENT for ever.
* *Transport.* With `hostConcurrency` 2, the default, `minHostDelayMs` is not a spacing of requests; HALF_OPEN
  admits any number of probes although `rateControl.js:57` says one; a late success closes an open circuit;
  queued requests still leave after the circuit opened; requests queued for a slow host hold slots of the
  whole process.
* *Teams.* A check of a team's site that spans a new submission leaves a verdict about the old link; of two
  overlapping saves the earlier is lost, a submission with its history or a teammate's tick.
* *Accounts.* Between the sweep's find (`db.js:5245`) and its deletes (5249-5266) nobody asks again: a sign-in
  or a new request that falls in between, or a sign-in begun inside the window that is completed then, is lost
  and the account purged all the same, while the sign-in goes on as if nothing had happened. A sign-in begun
  under one request and completed after a second cancels both. A failed `deleteMany` of a purge is logged and
  the user document goes all the same, and a session that is still valid recreates data.
* *Placements.* Concurrent upserts of an outcome create two rows of a pair, and deleting a drive beside one
  leaves orphans.

## 5. Bounds, and why they are enough

*Queues.* Two workers are enough for one to overtake the other; a third only repeats the part. `MaxAttempts`,
`MAX_ATTEMPTS` = 2 have a first, a last and an exhausted attempt. `LeaseTicks = 2` tells a lease that is half
over from one just granted; `ProbeLease` is 1 for safety, where leads have no such half, and 2 for liveness.
One cursor value besides none tells progress from no progress. `MaxWindow = 2` with `BatchLimit = 2` (safety)
gives batches of two tasks, the second waiting under its lease while the first runs; liveness has one task,
two leads. Backoffs of 1 and 2 tell a first from a second. `MaxCrashes`, `MaxProberCrashes` bound the crashes
of a behaviour.

*Registry.* One source, one operator, one registrar and two runs: the least at which each kind of change can
fall between a read and a put of each other kind. `DisableAfter = 2`, `DegradeAfter = 1` tell one failure from
a series; `QueueTries` bounds the retries of a task.

*Document.* Two postings on two sources are the least with several instances, ranks and owners; `MissThreshold
= 2` (3 in the code) is the least at which one absence is not enough. One crawler and one verifier overlap in
`records` and `job_race`; every stale put there is of a copy the other process has overtaken.

*Board.* One row per page and up to three rows make every row a page boundary; `PageLimit` 2 (safety) cuts a
full board, `PageLimit` 1 (liveness) makes every crawl of a board of two a resumed one. `MissThreshold` is the
code's 3. `HEALTH_WINDOW` 2 and 3 give even and odd medians; `MinBaseline` 2 and 1 and
`CollapseNum/CollapseDen` 3/5 and 2/5 make a board of two rows that lists one, or none, a collapse.
`MaxFaults` bounds the faults *between two clean complete listings*, not in a whole behaviour.
`LiveNeverStale` needs it two below the threshold, as it is here (1 and 3), and not one below: a run that
resumes behind a row counts a miss against it at the price of no fault of its own, and with 2 faults and
threshold 3 TLC finds a listed row stale. As long as it is 1 the consecutive failures that DISABLE a source
are not reached in the liveness run, so `DegradedHeals` is about sources that were not given up. `MaxFetched`
is the rows a run can meet.

*Budget.* Three jobs, one of them without a url, two checks a pass: one is always left out. `INTERVAL` keeps
the order and the spread of the tiers. `MaxOverdue`, `MaxFlags`, `MaxCuts` bound how far overdue a job counts,
how often jobs are flagged and passes cut off. *Transport.* Safety has four requests, one slot per host and
three in all on two hosts, so that two requests queue for one host, which tells the oldest from the newest,
while another is woken, and the semaphore of the process fills too; it has no retries (`MaxLegs = 0`) and
circuits close at once (`OPEN_FOR = 0`), as neither touches a semaphore in another way than a first exchange
does. `queues_live` has three requests with a retry (`MaxLegs = 1`) and open circuits.

*Records.* Two requests per record, so that each step of one falls between any two of the other. `Kept = 2`
submissions fill and overflow the history. `Collections = 2` leaves a purge cut in the middle, `GRACE = 1`
tells a running window from one that is over; `MaxRows = 3` allows a pair recorded, deleted and recorded, or
twice recorded.

Symmetry is used in `board_crawl`, `discovery` and `records`, which check safety only. `CHECK_DEADLOCK FALSE`
is said of the boards, where a refused run (`ROBOTS_DENIED`, `NOT_CONFIGURED`) really stops the source until
an operator acts, and of `records`, where accounts and drives, whose ids are never used again, may be used up;
that the processes of a job never all stop is checked in `job_live`.

## 6. Fairness, and why the code justifies it

*CrawlQueue.* `WF(Tick)`: time passes. `WF(putIntent)`: a client that has read puts. `WF(WorkerStep)`:
`crawlSlice` drains its batch. `SF` on leasing, starting and completing a given task: `runForever` and the
cron trigger call `crawlSlice` for ever, the lease takes due tasks by priority and due time, and a board has
finitely many pages, so a task that is started again and again meets its last page. It is *not* assumed that
any checkpoint, deferral, failure or crash ever happens.

*DiscoveryQueue* (`LeadFairness`). The same, and a probe comes to a verdict: `processTask` "never throws". The
verdict is strongly fair because enqueues of the same lead may keep slipping in before it.

*JobLifecycle.* `SF` on each source's runs, reads, puts and reconciliations: due sources are crawled again and
again, and not every run fails. `SF` on picking the document up and on an answer of the check:
`VerificationBudget` shows why a flagged job is picked up again and again, and not every answer is a timeout.
No fairness on sweeps, failures and crashes: the code never calls `sweep` from a tick.

*BoardCrawl.* `WF(enqueue)` and `WF(Crawl)`: the scheduler goes on and a run that does not fail goes on. None
on faults and edits.

*VerificationBudget* (`BudgetFairness`). `WF(PassStep)`: ticks go on. `SF` on a conclusive answer for each job
that is not `Obscure`. Nothing is assumed of crawls.

*RateControl* (`RateFairness`). `WF(continue)`: the event loop runs what is due. `SF(RequestStep(r))`: a
pause, a look-up and an exchange have timers. `WF(RateTick)`. `AskedSpec`, used for `HalfOpensLater`, adds
that requests keep coming.

`MCQueues` pairs these conditions: since only one module moves in a behaviour, fairness to a disjunction of
one action of each is fairness to each, and one condition stands for up to three (`OneForEach` says that the
sets fit). What must hold in the end in calm behaviours only is stated `[]<>(calm => ...)`.

## 7. Proofs

The proofs assume the named assumptions on the constants and what a theorem's own ASSUME says. Sets of
workers, clients, sources, postings, accounts, members may be infinite, a board any length.

| module | theorems | assumed beside the constants' types |
|---|---|---|
| `CrawlQueueProofs` | TypeCorrect, LapsedLeasesAreFound, LeasesAreInHand; Exclusion, QueueKeepsPromise | the last two: `Timely`, `SoleClient` |
| `DiscoveryProofs` | RegTypeCorrect, ChangesFitTheirDocuments, OperatorDecisionsStick, FailuresCountedInARow, SourcesGoDarkForAReason, DeniedSourcesAreLeftAlone; LeadsAreCurrent, LapsedLeadsAreDue, BackoffsAreKept, AttemptsCountProbes, DiscoveryKeepsPromise | none |
| `JobLifecycleProofs` | TypeCorrect, ShownIsBacked, ClosureIsWhole, StaleAwaitsCheck; RowsStayClustered, ClosureIsProven, MissesAreEarned | the last three: `Serial`; the first of them that rows of one canonical id are alike; the second that rows of one source rank alike and are linked alike |
| `BoardCrawlProofs` | TypeCorrect, AbsenceCounted, DocumentsCoherent, LiveRowsNeverStale, NoListedRowMissed | LiveRowsNeverStale: `MaxFaults + 1 < MissThreshold` |
| `VerificationProofs` | BudgetTypeCorrect, BudgetIsWellSpent, SuspectsGoFirst, NoCheckGoesUnused, ChecksAreNotPutOff | finitely many jobs; no interval is longer than DORMANT's |
| `RateControlProofs` | SlotsAreCounted, InFlightIsBounded, WakeupsAreNotLost, SlotsGoInTurn | finitely many requests |
| `RecordsProofs` | HistoryIsTheSubmission, TicksAreByOwners, BadgesAreCurrent; FoundIsCurrent, FunnelsKeepGround; AcctTypeCorrect, OnlyLapsedArePurged, PurgesAreComplete | none |

The arguments:

* **CrawlQueue.** `NoStrandedLease` is not inductive: a put replaces a document by a copy, so one has to know
  what copies say. `IInv` adds that every copy in hand is LEASED in the name of the worker that holds it with
  nothing left to wait for (`CopiesAreLeases`), that a worker runs only what it holds (`RunningIsHeld`), that
  a client is only about to put a PENDING document (`IntentsArePending`), and that a stored LEASED document
  names a worker and waits for nothing (`LeasedIsOwned`). It holds for *any* timing and any number of clients.
  Exclusion and the refinement need `Timely` and `SoleClient` (at most one enqueuing process): `TInv` adds
  that a worker that can still count on its lease is the owner the document names, with the same time left
  (`LeasesAgree`), and that the document a client is about to overwrite is still absent or dead
  (`IntentsAreFresh`). From `TInv` each action is shown to be one of `LeaseQueue` or a stutter.
* **Leads.** `LeadInv`: in all behaviours stored documents and copies are sound (LEASED means due when the
  lease lapses, with an attempt left). In calm ones no copy is ever stale, a backoff owed is the one stored
  and the probes counted are the attempts stored; the refinement follows action by action. That `2^n` is a
  natural number, which the backoff needs, is taken from the cardinality of power sets, as induction over
  numbers is out of reach.
* **Registry.** `RegInv` has, in all behaviours, that pending documents are typed and about known sources, and
  that a denied source is left alone; in orderly ones that at most one change of a source is under way
  (`OneChange`), that it agrees with the stored document in every field it does not change (`ChangesFit`), and
  that a dark source is so for a recorded reason (`Grounded`).
* **JobLifecycle**, any interleaving. The three safety properties together are `Coherent(job)`;
  `JobRecordProofs` shows of each operator of `JobRecord` that it takes a coherent document to a coherent one.
  `IInv` says that the stored document *and every copy in hand* are coherent, and that runs that count
  absences or failures hold a document that is present and not closed: no interleaving of stale copies can
  produce a contradictory document, because each copy is coherent by itself.
* **JobLifecycle**, one scheduler. `SInv` adds that whoever holds a copy is alone (`Sole`) and the copy is the
  stored document (`Current`), that a run reads rows of its own source (`RowsAreOwn`), and that the first
  instance of a source has no more misses than its source has had listings in a row without the job
  (`MissesCounted`; of the *first*, since `Array.find` counts no other). `StepKinds` then reduces the three
  action properties to the three puts that touch instances. `InstancesKept`: rows keep their place under each
  of them, or the document is replaced by a new one when dedupe rejected the stored one, which alike rows
  exclude. `NoLiveClosure`: only a check that got `gone` closes, only if no instance besides the first of that
  source was active; the check asked about the most authoritative row, which is that first one because rows of
  a source rank alike (`normalize/index.js` takes the authority of the source) and are linked alike. Without
  the last hypothesis the check may ask about a source's second row and retire its first. `MissesEarned`
  follows from `MissesCounted`.
* **BoardCrawl.** `TypeCorrect` carries the sequences of the board, the window and the errors, and that a task
  is leased exactly while a run is under way. `AbsenceCounted`: the invariant ties `complete` and `partial` of
  a run that waits to be judged to `ended`, and the counters of a run that is fetching to its pages (`RunOK`).
  `CountInv`, for the other two, weighs misses against faults: a listed row has at most one miss more than
  there were faults since the last clean listing, no more than the faults if it lies behind the point a run
  would resume from, and a run that began at the first row without faults has seen every listed row before its
  position. The extra miss is real, so the theorem asks for `MaxFaults + 1 < MissThreshold`; `MaxFaults <
  MissThreshold` alone is refuted by TLC (2 and 3).
* **RateControl.** For each semaphore the requests that hold a slot of it (`Taken`) are as many as it counts,
  and with those that were woken for one (`Claimed`) never exceed the limit and reach it while anybody waits;
  the queue holds exactly who waits. At most three continuations are due at once, in a few fixed shapes, and
  these say whose turn it is. `SlotsGoInTurn`: from the same invariant each action is a step of `SlotPool` or
  a stutter. The moment that counts is `release`, which wakes the first of a queue: by `Claimed` that request
  holds the slot from then on, so the turns it still waits for before it counts itself are stutters, and the
  shapes leave no turn in which a new request could find that slot free.
* **Budget.** `BudgetInv` says that what a pass has left is due, distinct and within the budget, and that a
  removed job has no next check; a check moves only the job it comes to, so the rest stays due.
  `SuspectsGoFirst` follows a flagged job that a pass did not take to the sort that left it out: the query
  would rather have left out the job that is not flagged, the policy too, since URGENT is the heaviest tier
  and a job's tier is URGENT exactly when it is flagged. That the pass is all of what was chosen, in order, is
  counted: its order is strict, so it repeats nothing, and an injection between finite sets of one size is
  onto. `NoCheckGoesUnused`: what was left out of the first n of a set was left out because n were taken, be
  it by the window, which is no smaller than the budget, or by the budget. `ChecksAreNotPutOff` needs that a
  removed job has nothing left to wait for: otherwise the end of a pass, which sets it to zero, would count as
  a delay.
* **Teams.** `TeamInv`: every stored or read copy is sound (the link shown is the last of the history, done
  modules were ticked) and so is every patch, so any merge of any copy is sound. `BadgeInv`, calm: saves come
  one at a time over the project as it is, submissions and checks exclude each other, and what a check holds
  is about the current link.
* **Placements.** `DriveInv`: a place holds at most one row; tidy: the rows of a pair lie apart (`RowsApart`),
  what was reached is what the row says (`RowsReached`), and what a request found of its pair is all there is
  of it or was deleted since (`FoundHolds`).
* **Accounts.** `AcctInv`: a schedule that stands is the window last promised (`ScheduleIsPromise`), which a
  sign-in could break by putting a document it had read before the schedule: hence a sign-in that read none,
  and was not begun before the last request, means that none stands (`ReadsKnowSchedule`). When quiet, what
  was picked stays lapsed (`PickedStayLapsed`), and a purge at collection `n` has emptied those before it
  (`Emptied`).

Checked by TLC only: everything under fairness (`GoneIsClosed`, `ListedIsShown`, `WithdrawnIsFlagged`,
`EveryRowIsIndexed`, `DegradedHeals`, `EveryDueJobIsChecked`, `VerifiedAgain`, `EveryLeadSettles`,
`EveryTaskSettles`, `EveryFetchReturns`), as liveness and ENABLED are beyond the prover. The other way round,
type invariants, `NoLostWakeup` (which `SlotsInTurn` is the stronger form of), `BudgetWellSpent`,
`NoCheckIsSpared` and `NeverPutOff` are proved and not checked by a run; TLC found each of them true on the
instances of the runs before it was proved.

## 8. Not modelled, and why

* Texts, dates, provenance, priorities, intervals, metrics and logging: no modelled decision depends on them
  beyond what the constants stand for. The similarity stages of `dedupe.js` are a relation, the normalizers
  are not there.
* `reconcileMissing` reads at most the default 500 documents of `listJobs`; the models have no such limit.
* `FileStore`'s debounced flush and the search cache's generation check: single calls are atomic, and durable,
  in the models.
* A whole `tick` with its deadline: the slices are modelled one by one.
* Of the policy: cases for documents without `nextVerifyAt` (`scheduler.js:135-137`), which are older than the
  policy. Of accounts: `isActive`, which only directories read. Only the Mongo mode of the college and account
  records is modelled; the in-memory one updates in one step.
* The rest of the application: routes over single Mongo calls, generation and rendering, the web client. By
  lines it is most of the repository (text engines, templates, generated data, user interface), which is why
  the map covers a small share of the lines: what has state that several actors share is mapped, what computes
  a page or a text from its input is not.

## 9. Plan

What is left, the most consequential first:

1. `Tick`: `discoverySlice`, `crawlSlice`, verification and the deadline as one scheduler beside a manual
   fetch, composing `CrawlQueue` with the registry.
2. `StoreFlush`: a crash of the `FileStore` between two files (`store.js:634`); a read-your-writes store as
   its abstract specification.
3. `SearchCache`: the generation check against late writers (`searchIndex.js:103-106, 278`).
4. Payments, the template store, college tenancy.

Proofs to come: of the leads and the registry, the bounds that hold without `calm` and `orderly`.
