------------------------- MODULE JobLifecycleProofs -------------------------
(***************************************************************************)
(* Proofs about JobLifecycle, for any sources, postings, ranks and         *)
(* numbers of overlapping runs and passes.  The point of the argument is   *)
(* that a whole-document put cannot tear a document: every copy anyone     *)
(* holds was once the stored document, every function that rewrites a copy *)
(* turns a coherent document into a coherent one (JobRecordProofs), so     *)
(* whichever copy is put last, and however stale, the store holds a        *)
(* coherent document.  The second part is about one scheduler: there a     *)
(* copy in hand is the stored document, and what the steps do to its rows, *)
(* its misses and its closure can be told from the document alone.         *)
(***************************************************************************)
EXTENDS JobLifecycle, JobRecordProofs

\* A run holds only coherent copies; one that is about to count a miss or mark a
\* failure holds a document its source carried.
RunOK(r) ==
    /\ r \in Run
    /\ \A copy \in r.read : Coherent(copy)
    /\ r.phase \in {"missing", "failing"} =>
          \A copy \in r.read : Candidate(copy)
    /\ r.phase # "idle" => r.source \in Source
    /\ r.phase = "listing" /\ r.read # {} => r.row \in Posting

CheckOK(k) ==
    /\ k \in Check
    /\ \A copy \in k.read : Coherent(copy) /\ Candidate(copy)

IInv ==
    /\ TypeOK
    /\ Coherent(job)
    /\ \A c \in Crawler : RunOK(run[c])
    /\ \A v \in Verifier : CheckOK(check[v])

LEMMA AgedCoherent ==
    ASSUME NEW j, Coherent(j)
    PROVE  /\ Coherent(Aged(j)) /\ Aged(j).status = j.status /\ Aged(j).insts = j.insts
BY DEF Aged, Coherent, Job

-----------------------------------------------------------------------------
(* The invariant. *)

LEMMA IdleOK == RunOK(idleRun) /\ CheckOK(idleCheck)
BY DEF RunOK, CheckOK, idleRun, idleCheck, Run, Check, Phase

LEMMA InitIInv == Init => IInv
<1> SUFFICES ASSUME Init PROVE IInv
  OBVIOUS
<1>1. Coherent(job) /\ job \in Job
  BY AbsentCoherent DEF Init, Coherent
<1>2. 0 \in 0 .. MissThreshold
  BY JobRecordAssumption
<1>3. idleRun \in Run /\ idleCheck \in Check
  BY IdleOK DEF RunOK, CheckOK
<1> QED
  BY <1>1, <1>2, <1>3, IdleOK DEF Init, IInv, TypeOK

\* A step of one run keeps the invariant when it leaves that run in order and
\* the stored document coherent.
LEMMA RunUpdate ==
    ASSUME IInv, NEW c \in Crawler, NEW r, RunOK(r),
           run' = [run EXCEPT ![c] = r],
           Coherent(job'), dry' \in [Source -> 0 .. MissThreshold],
           UNCHANGED <<listed, check>>
    PROVE  IInv'
<1>1. r \in Run /\ job' \in Job
  BY DEF RunOK, Coherent
<1>2. TypeOK'
  BY <1>1 DEF IInv, TypeOK
<1>3. \A d \in Crawler : run'[d] = IF d = c THEN r ELSE run[d]
  BY DEF IInv, TypeOK
<1>4. \A d \in Crawler : RunOK(run'[d])
  BY <1>3 DEF IInv
<1> QED
  BY <1>2, <1>4 DEF IInv

LEMMA CheckUpdate ==
    ASSUME IInv, NEW v \in Verifier, NEW k, CheckOK(k),
           check' = [check EXCEPT ![v] = k],
           Coherent(job'), dry' \in [Source -> 0 .. MissThreshold],
           UNCHANGED <<listed, run>>
    PROVE  IInv'
<1>1. k \in Check /\ job' \in Job
  BY DEF CheckOK, Coherent
<1>2. TypeOK'
  BY <1>1 DEF IInv, TypeOK
<1>3. \A d \in Verifier : check'[d] = IF d = v THEN k ELSE check[d]
  BY DEF IInv, TypeOK
<1>4. \A d \in Verifier : CheckOK(check'[d])
  BY <1>3 DEF IInv
<1> QED
  BY <1>2, <1>4 DEF IInv

\* Every step of an ingest run.
LEMMA RunStepIInv ==
    ASSUME IInv, NEW c \in Crawler, RunStep(c)
    PROVE  IInv'
<1>1. /\ Coherent(job) /\ job \in Job /\ RunOK(run[c]) /\ run[c] \in Run
      /\ dry \in [Source -> 0 .. MissThreshold] /\ 0 \in 0 .. MissThreshold
  BY JobRecordAssumption DEF IInv, TypeOK, RunOK, Coherent
<1>2. RunOK(idleRun)
  BY IdleOK
<1>3. ASSUME NEW s \in Source, startRun(c, s) PROVE IInv'
  <2>1. PICK rows \in SUBSET {p \in listed : sourceOf[p] = s} :
          run' = [run EXCEPT ![c] = [idleRun EXCEPT !.phase = "listing",
                                                    !.source = s, !.todo = rows]]
    BY <1>3 DEF startRun
  <2>2. rows \subseteq Posting
    BY DEF IInv, TypeOK
  <2>3. RunOK([idleRun EXCEPT !.phase = "listing", !.source = s, !.todo = rows])
    BY <2>2 DEF RunOK, idleRun, Run, Phase
  <2>4. UNCHANGED <<job, listed, check, dry>>
    BY <1>3 DEF startRun
  <2> QED
    BY <1>1, <2>1, <2>3, <2>4, RunUpdate
<1>4. ASSUME NEW p \in Posting, readJob(c, p) PROVE IInv'
  <2> DEFINE r == [run[c] EXCEPT !.row = p, !.read = {job}]
  <2>1. RunOK(r)
    BY <1>1, <1>4 DEF readJob, RunOK, Run
  <2>2. run' = [run EXCEPT ![c] = r] /\ UNCHANGED <<job, listed, check, dry>>
    BY <1>4 DEF readJob
  <2> HIDE DEF r
  <2> QED
    BY <1>1, <2>1, <2>2, RunUpdate
<1>5. ASSUME putSighting(c) PROVE IInv'
  <2> DEFINE r == [run[c] EXCEPT !.todo = @ \ {run[c].row}, !.seen = TRUE,
                                 !.row = None, !.read = {}]
  <2>1. PICK copy \in run[c].read : job' = ingested(copy, run[c].row)
    BY <1>5 DEF putSighting
  <2>2. run[c].row \in Posting /\ Coherent(copy)
    BY <1>1, <1>5 DEF putSighting, RunOK
  <2>3. Coherent(job')
    BY <2>1, <2>2, SightingCoherent, CreatedCoherent DEF ingested
  <2>4. RunOK(r)
    BY <1>1, <1>5 DEF putSighting, RunOK, Run
  <2>5. run' = [run EXCEPT ![c] = r] /\ UNCHANGED <<listed, check>>
    BY <1>5 DEF putSighting
  <2>6. dry' \in [Source -> 0 .. MissThreshold]
    BY <1>1, <1>5 DEF putSighting
  <2> HIDE DEF r
  <2> QED
    BY <2>3, <2>4, <2>5, <2>6, RunUpdate
<1>6. ASSUME reconcileMissing(c) PROVE IInv'
  <2> DEFINE r == [run[c] EXCEPT !.phase = "missing", !.read = {job}]
  <2>1. RunOK(r)
    BY <1>1, <1>6 DEF reconcileMissing, RunOK, Run, Phase, Held, Candidate
  <2>2. run' = [run EXCEPT ![c] = r] /\ UNCHANGED <<job, listed, check, dry>>
    BY <1>6 DEF reconcileMissing
  <2> HIDE DEF r
  <2> QED
    BY <1>1, <2>1, <2>2, RunUpdate
<1>7. ASSUME putMissing(c) PROVE IInv'
  <2>1. PICK copy \in run[c].read : job' = observeMissing(copy, run[c].source)
    BY <1>7 DEF putMissing
  <2>2. Coherent(copy) /\ Candidate(copy) /\ run[c].source \in Source
    BY <1>1, <1>7 DEF putMissing, RunOK
  <2>3. Coherent(job')
    BY <2>1, <2>2, MissingCoherent
  <2>4. dry' \in [Source -> 0 .. MissThreshold]
    <3>1. dry[run[c].source] # MissThreshold =>
            dry[run[c].source] + 1 \in 0 .. MissThreshold
      BY <1>1, <2>2, JobRecordAssumption
    <3> QED
      BY <1>1, <1>7, <2>2, <3>1 DEF putMissing
  <2> QED
    BY <1>2, <1>7, <2>3, <2>4, RunUpdate DEF putMissing
<1>8. ASSUME endRun(c) \/ crash(c) PROVE IInv'
  BY <1>1, <1>2, <1>8, RunUpdate DEF endRun, crash
<1>9. ASSUME throwRun(c) PROVE IInv'
  <2> DEFINE r == [run[c] EXCEPT !.phase = "failing", !.todo = {},
                                 !.row = None, !.read = {job}]
  <2>1. RunOK(r)
    BY <1>1, <1>9 DEF throwRun, RunOK, Run, Phase, Held, Candidate
  <2>2. run' = [run EXCEPT ![c] = r] /\ UNCHANGED <<job, listed, check, dry>>
    BY <1>9 DEF throwRun
  <2> HIDE DEF r
  <2> QED
    BY <1>1, <2>1, <2>2, RunUpdate
<1>10. ASSUME putFailure(c) PROVE IInv'
  <2>1. PICK copy \in run[c].read : job' = observeSourceFailure(copy)
    BY <1>10 DEF putFailure
  <2>2. Coherent(job')
    BY <1>1, <2>1, FailureCoherent DEF RunOK
  <2> QED
    BY <1>1, <1>2, <1>10, <2>2, RunUpdate DEF putFailure
<1> QED
  BY <1>3, <1>4, <1>5, <1>6, <1>7, <1>8, <1>9, <1>10 DEF RunStep, RunOn

\* Every step of a verification pass or a sweep.
LEMMA CheckStepIInv ==
    ASSUME IInv, NEW v \in Verifier, CheckStep(v)
    PROVE  IInv'
<1>1. /\ Coherent(job) /\ job \in Job /\ CheckOK(check[v])
      /\ dry \in [Source -> 0 .. MissThreshold] /\ 0 \in 0 .. MissThreshold
  BY JobRecordAssumption DEF IInv, TypeOK, Coherent
<1>2. CheckOK(idleCheck)
  BY IdleOK
<1>3. ASSUME readCandidate(v) \/ sweepRead(v) PROVE IInv'
  <2>1. PICK kind \in {"verify", "sweep"} :
          check' = [check EXCEPT ![v] = [kind |-> kind, read |-> {job}]]
    BY <1>3 DEF readCandidate, sweepRead
  <2>2. Candidate(job) /\ UNCHANGED <<job, listed, run, dry>>
    BY <1>3 DEF readCandidate, sweepRead
  <2>3. CheckOK([kind |-> kind, read |-> {job}])
    BY <1>1, <2>2 DEF CheckOK, Check
  <2> QED
    BY <1>1, <2>1, <2>2, <2>3, CheckUpdate
<1>4. ASSUME NEW p \in Posting, NEW result \in Verdict, putVerified(v, p, result)
      PROVE IInv'
  <2>1. PICK copy \in check[v].read : \E i \in DOMAIN copy.insts :
          /\ copy.insts[i].posting = p
          /\ job' = applyVerification(copy, sourceOf[p], weighed(copy, p, result))
    BY <1>4 DEF putVerified
  <2>2. Coherent(copy) /\ Candidate(copy) /\ Carries(copy, sourceOf[p])
    BY <1>1, <2>1 DEF CheckOK, Carries
  <2>3. Coherent(job')
    BY <2>1, <2>2, VerifiedCoherent
  <2>4. dry' \in [Source -> 0 .. MissThreshold]
    BY <1>1, <1>4 DEF putVerified
  <2> QED
    BY <1>2, <1>4, <2>3, <2>4, CheckUpdate DEF putVerified
<1>5. ASSUME dropCheck(v) PROVE IInv'
  BY <1>1, <1>2, <1>5, CheckUpdate DEF dropCheck
<1>6. ASSUME sweepPut(v) PROVE IInv'
  <2>1. PICK copy \in check[v].read : job' = sweepStaleness(copy)
    BY <1>6 DEF sweepPut
  <2>2. Coherent(job')
    BY <1>1, <2>1, SweptCoherent DEF CheckOK
  <2> QED
    BY <1>1, <1>2, <1>6, <2>2, CheckUpdate DEF sweepPut
<1> QED
  BY <1>3, <1>4, <1>5, <1>6 DEF CheckStep

LEMMA AgeIInv ==
    ASSUME IInv, Age
    PROVE  IInv'
<1>1. Coherent(job')
  BY AgedCoherent DEF Age, IInv
<1>2. ASSUME NEW c \in Crawler PROVE RunOK(run'[c])
  <2>1. run'[c] = [run[c] EXCEPT !.read = {Aged(copy) : copy \in @}] /\ RunOK(run[c])
    BY DEF Age, IInv
  <2>2. \A copy \in run[c].read : Coherent(Aged(copy)) /\ Aged(copy).status = copy.status
    BY <2>1, AgedCoherent DEF RunOK
  <2>3. {Aged(copy) : copy \in run[c].read} \subseteq Job
    BY <2>2 DEF Coherent
  <2>4. run'[c] \in Run
    BY <2>1, <2>3 DEF RunOK, Run
  <2>5. /\ run'[c].phase = run[c].phase /\ run'[c].source = run[c].source
        /\ run'[c].row = run[c].row
        /\ run'[c].read = {Aged(copy) : copy \in run[c].read}
    BY <2>1 DEF RunOK, Run
  <2> QED
    BY <2>1, <2>2, <2>4, <2>5 DEF RunOK, Candidate
<1>3. ASSUME NEW v \in Verifier PROVE CheckOK(check'[v])
  <2>1. check'[v] = [check[v] EXCEPT !.read = {Aged(copy) : copy \in @}] /\ CheckOK(check[v])
    BY DEF Age, IInv
  <2>2. \A copy \in check[v].read : Coherent(Aged(copy)) /\ Aged(copy).status = copy.status
    BY <2>1, AgedCoherent DEF CheckOK
  <2>3. {Aged(copy) : copy \in check[v].read} \subseteq Job
    BY <2>2 DEF Coherent
  <2>4. check'[v] \in Check
    BY <2>1, <2>3 DEF CheckOK, Check
  <2>5. check'[v].read = {Aged(copy) : copy \in check[v].read}
    BY <2>1 DEF CheckOK, Check
  <2> QED
    BY <2>1, <2>2, <2>4, <2>5 DEF CheckOK, Candidate
<1>4. TypeOK'
  <2>1. run' \in [Crawler -> Run]
    BY <1>2 DEF Age, RunOK
  <2>2. check' \in [Verifier -> Check]
    BY <1>3 DEF Age, CheckOK
  <2> QED
    BY <1>1, <2>1, <2>2 DEF Age, IInv, TypeOK, Coherent
<1> QED
  BY <1>1, <1>2, <1>3, <1>4 DEF IInv

LEMMA NextIInv == IInv /\ [Next]_vars => IInv'
<1> SUFFICES ASSUME IInv, [Next]_vars PROVE IInv'
  OBVIOUS
<1>1. ASSUME NEW p \in Posting, postRow(p) \/ withdrawRow(p) PROVE IInv'
  <2>1. listed' \subseteq Posting
    BY <1>1 DEF postRow, withdrawRow, IInv, TypeOK
  <2>2. UNCHANGED <<job, run, check, dry>>
    BY <1>1 DEF postRow, withdrawRow
  <2> QED
    BY <2>1, <2>2 DEF IInv, TypeOK
<1>2. CASE UNCHANGED vars
  BY <1>2 DEF vars, IInv, TypeOK
<1> QED
  BY <1>1, <1>2, RunStepIInv, CheckStepIInv, AgeIInv DEF Next

\* The inductive invariant.
LEMMA Invariance == Spec => []IInv
BY InitIInv, NextIInv, PTL DEF Spec

\* Every stored document, and every copy in hand, has its type.
THEOREM TypeCorrect == Spec => []TypeOK
<1>1. IInv => TypeOK
  BY DEF IInv
<1> QED
  BY Invariance, <1>1, PTL

\* However many runs and passes overwrite each other's puts with stale copies, a
\* document that a search may return has an instance believed active.
THEOREM ShownIsBacked == Spec => []ShownHasLiveInstance
<1>1. IInv => ShownHasLiveInstance
  BY DEF IInv, Coherent, ShownHasLiveInstance
<1> QED
  BY Invariance, <1>1, PTL

\* closedAt and the status REMOVED never come apart, and no closed document
\* keeps an instance believed active.
THEOREM ClosureIsWhole == Spec => []ClosedIffRemoved
<1>1. IInv => ClosedIffRemoved
  BY DEF IInv, Coherent, ClosedIffRemoved
<1> QED
  BY Invariance, <1>1, PTL

\* A STALE document always carries the flag the verification pass looks for.
THEOREM StaleAwaitsCheck == Spec => []StaleIsFlagged
<1>1. IInv => StaleIsFlagged
  BY DEF IInv, Coherent, StaleIsFlagged
<1> QED
  BY Invariance, <1>1, PTL
-----------------------------------------------------------------------------
(***************************************************************************)
(* One scheduler.  When the phases of one process follow one another       *)
(* (Serial), whoever holds a copy is alone, and the copy is the stored     *)
(* document: no put goes over what somebody else put.                      *)
(***************************************************************************)
Sole ==
    /\ \A c, d \in Crawler : run[c] # idleRun /\ run[d] # idleRun => c = d
    /\ \A v, w \in Verifier : check[v] # idleCheck /\ check[w] # idleCheck => v = w
    /\ \A c \in Crawler, v \in Verifier : run[c] = idleRun \/ check[v] = idleCheck

Current ==
    /\ \A c \in Crawler : \A copy \in run[c].read : copy = job
    /\ \A v \in Verifier : \A copy \in check[v].read : copy = job

\* A run reads the rows of its own source, and counts misses of a document its source carries.
Own(r) ==
    /\ \A p \in r.todo : sourceOf[p] = r.source
    /\ (r.phase = "listing" /\ r.read # {}) => sourceOf[r.row] = r.source
    /\ r.phase = "missing" => \A copy \in r.read : Carries(copy, r.source)

RowsAreOwn == \A c \in Crawler : Own(run[c])

\* The first instance of its source, the one Array.find returns.
Leads(insts, i) ==
    \A j \in DOMAIN insts :
        sourceOf[insts[j].posting] = sourceOf[insts[i].posting] => i <= j

\* It has no more misses than its source has had listings without the job.
MissesCounted ==
    \A i \in DOMAIN job.insts :
        Leads(job.insts, i) => job.insts[i].missCount <= dry[sourceOf[job.insts[i].posting]]

SInv == IInv /\ Sole /\ Current /\ RowsAreOwn /\ MissesCounted

-----------------------------------------------------------------------------
(* The instances of a document. *)

LEMMA InstanceFacts ==
    ASSUME NEW insts \in Seq(Instance)
    PROVE  \A i \in DOMAIN insts :
              /\ insts[i] \in Instance
              /\ insts[i].missCount \in Nat /\ insts[i].missCount <= MissThreshold
              /\ insts[i].posting \in Posting /\ sourceOf[insts[i].posting] \in Source
<1> SUFFICES ASSUME NEW i \in DOMAIN insts
             PROVE  /\ insts[i] \in Instance
                    /\ insts[i].missCount \in Nat /\ insts[i].missCount <= MissThreshold
                    /\ insts[i].posting \in Posting /\ sourceOf[insts[i].posting] \in Source
  OBVIOUS
<1>1. insts[i] \in Instance
  OBVIOUS
<1>2. insts[i].missCount \in 0 .. MissThreshold /\ insts[i].posting \in Posting
  BY <1>1 DEF Instance
<1> QED
  BY <1>1, <1>2, JobRecordAssumption

LEMMA FirstFacts ==
    ASSUME NEW insts \in Seq(Instance), NEW s,
           \E i \in DOMAIN insts : sourceOf[insts[i].posting] = s
    PROVE  /\ First(insts, s) \in DOMAIN insts
           /\ sourceOf[insts[First(insts, s)].posting] = s
           /\ \A j \in DOMAIN insts : sourceOf[insts[j].posting] = s => First(insts, s) <= j
<1> DEFINE T == {i \in DOMAIN insts : sourceOf[insts[i].posting] = s}
<1>1. T \subseteq Nat /\ T # {}
  <2>1. DOMAIN insts = 1 .. Len(insts) /\ Len(insts) \in Nat
    OBVIOUS
  <2> QED
    BY <2>1
<1>2. PICK m \in T : \A k \in T : m <= k
  <2> HIDE DEF T
  <2> QED
    BY <1>1, LeastNatural
<1> QED
  BY <1>2 DEF First

LEMMA LeadsIsFirst ==
    ASSUME NEW insts \in Seq(Instance), NEW i \in DOMAIN insts
    PROVE  Leads(insts, i) <=> First(insts, sourceOf[insts[i].posting]) = i
<1> DEFINE s == sourceOf[insts[i].posting]
           f == First(insts, s)
<1>1. /\ f \in DOMAIN insts /\ sourceOf[insts[f].posting] = s
      /\ \A j \in DOMAIN insts : sourceOf[insts[j].posting] = s => f <= j
  BY FirstFacts
<1> HIDE DEF f
<1>2. f \in Nat /\ i \in Nat
  BY <1>1
<1>3. ASSUME Leads(insts, i) PROVE f = i
  <2>1. i <= f /\ f <= i
    BY <1>1, <1>3 DEF Leads
  <2> QED
    BY <1>2, <2>1
<1>4. ASSUME f = i PROVE Leads(insts, i)
  BY <1>1, <1>4 DEF Leads
<1> QED
  BY <1>3, <1>4 DEF f

LEMMA InstanceChanges ==
    ASSUME NEW inst \in Instance
    PROVE  /\ revived(inst).posting = inst.posting /\ revived(inst).missCount = 0
           /\ retired(inst).posting = inst.posting /\ retired(inst).missCount = inst.missCount
           /\ missed(inst).posting = inst.posting /\ missed(inst).missCount <= inst.missCount + 1
           /\ inst.active /\ ~missed(inst).active => inst.missCount + 1 >= MissThreshold
           /\ revived(inst).active
<1>1. inst.missCount \in Nat /\ MissThreshold \in Nat /\ inst.missCount <= MissThreshold
  BY JobRecordAssumption DEF Instance
<1>2. CASE inst.missCount + 1 >= MissThreshold
  BY <1>1, <1>2 DEF revived, retired, missed, Instance
<1>3. CASE ~(inst.missCount + 1 >= MissThreshold)
  BY <1>1, <1>3 DEF revived, retired, missed, Instance
<1> QED
  BY <1>2, <1>3

\* The rows before, in their places.
Keeps(old, new) ==
    /\ DOMAIN old \subseteq DOMAIN new
    /\ \A i \in DOMAIN old : new[i].posting = old[i].posting

\* What a sighting does to the instances it finds.
LEMMA SightingInsts ==
    ASSUME NEW j, Coherent(j), NEW p \in Posting, findDuplicate(j, p)
    PROVE  /\ ingested(j, p).status = "ACTIVE"
           /\ ingested(j, p).insts \in Seq(Instance)
           /\ Keeps(j.insts, ingested(j, p).insts)
           /\ \A i \in DOMAIN ingested(j, p).insts :
                 /\ i \notin DOMAIN j.insts => ingested(j, p).insts[i].posting = p
                 /\ Leads(ingested(j, p).insts, i) =>
                       \/ ingested(j, p).insts[i].missCount = 0
                       \/ /\ i \in DOMAIN j.insts
                          /\ sourceOf[j.insts[i].posting] # sourceOf[p]
                          /\ ingested(j, p).insts[i].missCount <= j.insts[i].missCount
<1> DEFINE s == sourceOf[p]
           mi == mergedInsts(j.insts, p)
           si == [i \in DOMAIN mi |-> IF i = First(mi, s) THEN revived(mi[i]) ELSE mi[i]]
<1>1. j \in Job /\ j.insts \in Seq(Instance)
  BY DEF Coherent, Job
<1>2. ingested(j, p) = observeSeen(mergeJobs(j, p), s)
  BY DEF ingested
<1>3. ingested(j, p).insts = si /\ Coherent(ingested(j, p))
  BY <1>2, SightingCoherent
<1>4. ingested(j, p).status = "ACTIVE"
  <2>1. mergeJobs(j, p) \in [DOMAIN mergeJobs(j, p) -> {mergeJobs(j, p)[f] : f \in DOMAIN mergeJobs(j, p)}]
        /\ "status" \in DOMAIN mergeJobs(j, p)
    BY <1>1 DEF mergeJobs, Job
  <2> QED
    BY <1>2, <2>1 DEF observeSeen
<1>5. mi \in Seq(Instance) /\ si \in Seq(Instance)
  BY <1>1, <1>3, MergedInsts DEF Coherent, Job
<1>6. /\ DOMAIN j.insts \subseteq DOMAIN mi
      /\ \A i \in DOMAIN j.insts : /\ mi[i].posting = j.insts[i].posting
                                   /\ mi[i].missCount <= j.insts[i].missCount
      /\ \A i \in DOMAIN mi : i \notin DOMAIN j.insts => mi[i].posting = p /\ mi[i].missCount = 0
  <2>1. \A i \in DOMAIN j.insts : j.insts[i] \in Instance /\ j.insts[i].missCount \in Nat
    BY <1>1, InstanceFacts
  <2>2. CASE \E i \in DOMAIN j.insts : j.insts[i].posting = p
    <3>1. mi = [i \in DOMAIN j.insts |->
                  IF j.insts[i].posting = p THEN revived(j.insts[i]) ELSE j.insts[i]]
      BY <2>2 DEF mergedInsts
    <3> HIDE DEF mi
    <3>2. \A i \in DOMAIN j.insts : /\ revived(j.insts[i]).posting = j.insts[i].posting
                                    /\ revived(j.insts[i]).missCount <= j.insts[i].missCount
      BY <2>1, InstanceChanges
    <3>3. DOMAIN mi = DOMAIN j.insts
      BY <3>1
    <3>4. \A i \in DOMAIN j.insts : /\ mi[i].posting = j.insts[i].posting
                                    /\ mi[i].missCount <= j.insts[i].missCount
      BY <2>1, <3>1, <3>2
    <3> QED
      BY <3>3, <3>4
  <2>3. CASE ~\E i \in DOMAIN j.insts : j.insts[i].posting = p
    <3>1. mi = Append(j.insts, seenInstance(p)) /\ seenInstance(p) \in Instance
      BY <2>3, SeenInstance DEF mergedInsts
    <3> HIDE DEF mi
    <3>2. /\ DOMAIN mi = 1 .. Len(j.insts) + 1 /\ DOMAIN j.insts = 1 .. Len(j.insts)
          /\ Len(j.insts) \in Nat
          /\ \A i \in 1 .. Len(j.insts) : mi[i] = j.insts[i]
          /\ mi[Len(j.insts) + 1] = seenInstance(p)
      BY <1>1, <3>1, AppendProperties
    <3>3. seenInstance(p).posting = p /\ seenInstance(p).missCount = 0
      BY DEF seenInstance
    <3>4. \A i \in DOMAIN mi : i \notin DOMAIN j.insts => i = Len(j.insts) + 1
      BY <3>2
    <3> QED
      BY <2>1, <3>2, <3>3, <3>4
  <2> QED
    BY <2>2, <2>3
<1>7. \A i \in DOMAIN mi : mi[i] \in Instance
  BY <1>5
<1> HIDE DEF mi
<1>8. /\ DOMAIN si = DOMAIN mi
      /\ \A i \in DOMAIN mi : /\ si[i].posting = mi[i].posting
                              /\ si[i].missCount <= mi[i].missCount /\ si[i].missCount \in Nat
                              /\ i = First(mi, s) => si[i].missCount = 0
  <2>1. \A i \in DOMAIN mi : /\ mi[i].missCount \in Nat
                             /\ revived(mi[i]).posting = mi[i].posting
                             /\ revived(mi[i]).missCount = 0
    BY <1>7, InstanceChanges DEF Instance
  <2> QED
    BY <2>1
<1> HIDE DEF si
<1>9. ASSUME NEW i \in DOMAIN si, Leads(si, i)
      PROVE  \/ si[i].missCount = 0
             \/ /\ i \in DOMAIN j.insts /\ sourceOf[j.insts[i].posting] # s
                /\ si[i].missCount <= j.insts[i].missCount
  <2>1. CASE sourceOf[mi[i].posting] = s
    <3>1. Leads(mi, i)
      BY <1>8, <1>9 DEF Leads
    <3>2. i = First(mi, s)
      BY <1>5, <1>8, <2>1, <3>1, LeadsIsFirst
    <3> QED
      BY <1>8, <3>2
  <2>2. CASE sourceOf[mi[i].posting] # s
    <3>1. i \in DOMAIN j.insts
      BY <1>6, <1>8, <2>2
    <3>2. sourceOf[j.insts[i].posting] # s
      BY <1>6, <2>2, <3>1
    <3>3. /\ si[i].missCount <= mi[i].missCount /\ mi[i].missCount <= j.insts[i].missCount
          /\ si[i].missCount \in Nat /\ mi[i].missCount \in Nat /\ j.insts[i].missCount \in Nat
      <4>1. i \in DOMAIN mi
        BY <1>8
      <4>2. mi[i].missCount \in Nat /\ j.insts[i].missCount \in Nat
        BY <1>1, <1>5, <3>1, <4>1, InstanceFacts
      <4> QED
        BY <1>6, <1>8, <3>1, <4>1, <4>2
    <3> QED
      BY <3>1, <3>2, <3>3
  <2> QED
    BY <2>1, <2>2
<1>10. Keeps(j.insts, si) /\ \A i \in DOMAIN si : i \notin DOMAIN j.insts => si[i].posting = p
  BY <1>6, <1>8 DEF Keeps
<1> QED
  BY <1>3, <1>4, <1>5, <1>9, <1>10

\* What the other puts do to the instances of a copy: rows stay where they are, only
\* the first of source s is touched, and only as the operation says.
LEMMA MissingInsts ==
    ASSUME NEW j, Coherent(j), Candidate(j), NEW s
    PROVE  LET o == observeMissing(j, s) IN
           /\ o.insts = [i \in DOMAIN j.insts |->
                           IF i = First(j.insts, s) THEN missed(j.insts[i]) ELSE j.insts[i]]
           /\ o.status # "REMOVED"
<1> DEFINE mi == [i \in DOMAIN j.insts |->
                    IF i = First(j.insts, s) THEN missed(j.insts[i]) ELSE j.insts[i]]
<1>1. j \in Job /\ j.status # "REMOVED"
  BY DEF Coherent, Candidate
<1>2. observeMissing(j, s) =
        IF AnyActive(mi)
        THEN [j EXCEPT !.insts = mi, !.status = IF @ = "ACTIVE" THEN "LIKELY_ACTIVE" ELSE @]
        ELSE [j EXCEPT !.insts = mi, !.status = "STALE", !.flagged = TRUE]
  BY DEF observeMissing
<1> HIDE DEF mi
<1>3. observeMissing(j, s).insts = mi /\ observeMissing(j, s).status # "REMOVED"
  BY <1>1, <1>2 DEF Job
<1> QED
  BY <1>3 DEF mi

LEMMA FailureInsts ==
    ASSUME NEW j, Coherent(j)
    PROVE  /\ observeSourceFailure(j).insts = j.insts
           /\ j.status # "REMOVED" => observeSourceFailure(j).status # "REMOVED"
BY DEF observeSourceFailure, Coherent, Job

LEMMA SweptInsts ==
    ASSUME NEW j, Coherent(j)
    PROVE  /\ sweepStaleness(j).insts = j.insts
           /\ j.status # "REMOVED" => sweepStaleness(j).status # "REMOVED"
BY DEF sweepStaleness, Coherent, Job

\* A check revives the first instance of the source, retires it, or leaves it; only the
\* second, with no other instance active, closes the document.
LEMMA VerifiedInsts ==
    ASSUME NEW j, Coherent(j), Candidate(j), NEW s, NEW r
    PROVE  LET o == applyVerification(j, s, r) IN
           /\ DOMAIN o.insts = DOMAIN j.insts
           /\ \A i \in DOMAIN j.insts :
                 /\ o.insts[i].posting = j.insts[i].posting
                 /\ o.insts[i].missCount <= j.insts[i].missCount
                 /\ r.ok /\ i = First(j.insts, s) => o.insts[i].missCount = 0
           /\ r.ok => o.status \in {"NEW", "ACTIVE"}
           /\ o.status = "REMOVED" =>
                 /\ ~r.ok
                 /\ r.closed \/ r.http = "404"
                 /\ \A i \in DOMAIN j.insts : j.insts[i].active => i = First(j.insts, s)
<1> DEFINE vi == [i \in DOMAIN j.insts |->
                    IF i = First(j.insts, s) THEN revived(j.insts[i]) ELSE j.insts[i]]
           gi == [i \in DOMAIN j.insts |->
                    IF i = First(j.insts, s) THEN retired(j.insts[i]) ELSE j.insts[i]]
<1>1. j \in Job /\ j.insts \in Seq(Instance) /\ j.status # "REMOVED"
  BY DEF Coherent, Job, Candidate
<1>2. \A i \in DOMAIN j.insts :
         /\ j.insts[i] \in Instance /\ j.insts[i].missCount \in Nat
         /\ revived(j.insts[i]).posting = j.insts[i].posting /\ revived(j.insts[i]).missCount = 0
         /\ retired(j.insts[i]).posting = j.insts[i].posting
         /\ retired(j.insts[i]).missCount = j.insts[i].missCount
  BY <1>1, InstanceFacts, InstanceChanges
<1>3. CASE r.ok
  <2>1. applyVerification(j, s, r) =
          [j EXCEPT !.insts = vi, !.status = IF @ = "NEW" THEN @ ELSE "ACTIVE",
                    !.flagged = FALSE, !.closed = FALSE]
    BY <1>3 DEF applyVerification, verifiedAlive
  <2>2. DOMAIN vi = DOMAIN j.insts /\ \A i \in DOMAIN j.insts :
          /\ vi[i].posting = j.insts[i].posting /\ vi[i].missCount <= j.insts[i].missCount
          /\ i = First(j.insts, s) => vi[i].missCount = 0
    BY <1>2
  <2> HIDE DEF vi
  <2>3. /\ applyVerification(j, s, r).insts = vi
        /\ applyVerification(j, s, r).status \in {"NEW", "ACTIVE"}
    BY <1>1, <2>1 DEF Job
  <2> QED
    BY <1>3, <2>2, <2>3
<1>4. CASE ~r.ok /\ (r.closed \/ r.http = "404")
  <2>1. applyVerification(j, s, r) =
          IF AnyActive(gi)
          THEN [j EXCEPT !.insts = gi, !.status = "LIKELY_ACTIVE"]
          ELSE [j EXCEPT !.insts = gi, !.status = "REMOVED", !.closed = TRUE, !.flagged = FALSE]
    BY <1>4 DEF applyVerification, verifiedGone
  <2>2. DOMAIN gi = DOMAIN j.insts /\ \A i \in DOMAIN j.insts :
          gi[i].posting = j.insts[i].posting /\ gi[i].missCount <= j.insts[i].missCount
    BY <1>2
  <2>3. ~AnyActive(gi) => \A i \in DOMAIN j.insts : j.insts[i].active => i = First(j.insts, s)
    BY DEF AnyActive
  <2> HIDE DEF gi
  <2>4. /\ applyVerification(j, s, r).insts = gi
        /\ applyVerification(j, s, r).status = "REMOVED" => ~AnyActive(gi)
    BY <1>1, <2>1 DEF Job
  <2> QED
    BY <1>4, <2>2, <2>3, <2>4
<1>5. CASE ~r.ok /\ ~(r.closed \/ r.http = "404")
  <2>1. applyVerification(j, s, r) = observeSourceFailure(j)
    BY <1>5 DEF applyVerification
  <2>2. /\ observeSourceFailure(j).insts = j.insts
        /\ observeSourceFailure(j).status # "REMOVED"
    BY <1>1, FailureInsts
  <2> QED
    BY <1>2, <1>5, <2>1, <2>2
<1> QED
  BY <1>3, <1>4, <1>5

-----------------------------------------------------------------------------
(* The invariant of one scheduler. *)

OthersIdle(c) ==
    /\ \A d \in Crawler : d # c => run[d] = idleRun
    /\ \A v \in Verifier : check[v] = idleCheck

OtherChecksIdle(v) ==
    /\ \A w \in Verifier : w # v => check[w] = idleCheck
    /\ \A c \in Crawler : run[c] = idleRun

LEMMA RunAlone ==
    ASSUME Serial, SInv, NEW c \in Crawler, RunStep(c)
    PROVE  OthersIdle(c)
<1>1. CASE \E s \in Source : startRun(c, s)
  BY <1>1 DEF startRun, MayStart, OthersIdle
<1>2. CASE ~\E s \in Source : startRun(c, s)
  <2>1. crash(c) \/ run[c].phase # "idle"
    BY <1>2 DEF RunStep, RunOn, readJob, putSighting, reconcileMissing, putMissing, endRun,
                putFailure, throwRun
  <2>2. run[c] # idleRun
    BY <2>1 DEF crash, idleRun
  <2> QED
    BY <2>2 DEF SInv, Sole, OthersIdle
<1> QED
  BY <1>1, <1>2

LEMMA CheckAlone ==
    ASSUME Serial, SInv, NEW v \in Verifier, CheckStep(v)
    PROVE  OtherChecksIdle(v)
<1>1. CASE readCandidate(v) \/ sweepRead(v)
  BY <1>1 DEF readCandidate, sweepRead, MayStart, OtherChecksIdle
<1>2. CASE ~(readCandidate(v) \/ sweepRead(v))
  <2>1. check[v] # idleCheck
    BY <1>2 DEF CheckStep, putVerified, dropCheck, sweepPut, idleCheck
  <2> QED
    BY <2>1 DEF SInv, Sole, OtherChecksIdle
<1> QED
  BY <1>1, <1>2

LEMMA RunTurn ==
    ASSUME SInv, NEW c \in Crawler, OthersIdle(c), NEW r,
           run' = [run EXCEPT ![c] = r], check' = check,
           Own(r), \A copy \in r.read : copy = job'
    PROVE  Sole' /\ Current' /\ RowsAreOwn'
<1>1. run \in [Crawler -> Run]
  BY DEF SInv, IInv, TypeOK
<1>2. run'[c] = r /\ \A d \in Crawler : d # c => run'[d] = idleRun
  BY <1>1 DEF OthersIdle
<1>3. \A v \in Verifier : check'[v] = idleCheck
  BY DEF OthersIdle
<1>4. Sole'
  BY <1>2, <1>3 DEF Sole
<1>5. idleRun.read = {} /\ idleCheck.read = {}
  BY DEF idleRun, idleCheck
<1>6. Current'
  BY <1>2, <1>3, <1>5 DEF Current
<1>7. Own(idleRun)
  BY DEF Own, idleRun
<1>8. RowsAreOwn'
  <2> SUFFICES ASSUME NEW d \in Crawler PROVE Own(run'[d])
    BY DEF RowsAreOwn
  <2> QED
    BY <1>2, <1>7
<1> QED
  BY <1>4, <1>6, <1>8

LEMMA CheckTurn ==
    ASSUME SInv, NEW v \in Verifier, OtherChecksIdle(v), NEW k,
           check' = [check EXCEPT ![v] = k], run' = run,
           \A copy \in k.read : copy = job'
    PROVE  Sole' /\ Current' /\ RowsAreOwn'
<1>1. check \in [Verifier -> Check]
  BY DEF SInv, IInv, TypeOK
<1>2. check'[v] = k /\ \A w \in Verifier : w # v => check'[w] = idleCheck
  BY <1>1 DEF OtherChecksIdle
<1>3. \A c \in Crawler : run'[c] = idleRun
  BY DEF OtherChecksIdle
<1>4. Sole'
  BY <1>2, <1>3 DEF Sole
<1>5. idleRun.read = {} /\ idleCheck.read = {}
  BY DEF idleRun, idleCheck
<1>6. Current'
  BY <1>2, <1>3, <1>5 DEF Current
<1>7. RowsAreOwn'
  BY DEF SInv, RowsAreOwn
<1> QED
  BY <1>4, <1>6, <1>7

\* A document whose rows stay in place and lose misses, or keep them, stays within the
\* count when no listing was counted.
LEMMA CountStays ==
    ASSUME SInv, Keeps(job.insts, job'.insts), DOMAIN job'.insts = DOMAIN job.insts,
           \A i \in DOMAIN job.insts :
              /\ job'.insts[i].missCount \in Nat
              /\ job'.insts[i].missCount <= job.insts[i].missCount,
           dry' = dry
    PROVE  MissesCounted'
<1> SUFFICES ASSUME NEW i \in DOMAIN job'.insts, Leads(job'.insts, i)
             PROVE  job'.insts[i].missCount <= dry'[sourceOf[job'.insts[i].posting]]
  BY DEF MissesCounted
<1>1. \A j \in DOMAIN job.insts : job'.insts[j].posting = job.insts[j].posting
  BY DEF Keeps
<1>2. Leads(job.insts, i)
  BY <1>1 DEF Leads
<1>3. job.insts[i].missCount <= dry[sourceOf[job.insts[i].posting]]
  BY <1>2 DEF SInv, MissesCounted
<1>4. job.insts[i] \in Instance
  BY DEF SInv, IInv, TypeOK, Job
<1>5. job.insts[i].missCount \in Nat /\ job.insts[i].posting \in Posting
  BY <1>4 DEF Instance
<1>6. dry[sourceOf[job.insts[i].posting]] \in Nat
  <2>1. sourceOf[job.insts[i].posting] \in Source
    BY <1>5, JobRecordAssumption
  <2> QED
    BY <2>1, JobRecordAssumption DEF SInv, IInv, TypeOK
<1> QED
  BY <1>1, <1>3, <1>5, <1>6

\* A sighting starts the count of its source afresh.
LEMMA SightingSInv ==
    ASSUME Serial, SInv, NEW c \in Crawler, putSighting(c)
    PROVE  MissesCounted'
<1> DEFINE p == run[c].row
           s == run[c].source
<1>1. RunOK(run[c]) /\ run[c].phase = "listing" /\ dry \in [Source -> 0 .. MissThreshold]
  BY DEF SInv, IInv, TypeOK, putSighting
<1>2. PICK copy \in run[c].read : job' = ingested(copy, p)
  BY DEF putSighting
<1>3. copy = job /\ Coherent(job) /\ job.insts \in Seq(Instance)
  BY DEF SInv, Current, IInv, Coherent, Job
<1>4. p \in Posting /\ s \in Source /\ sourceOf[p] = s
  BY <1>1, <1>2 DEF RunOK, SInv, RowsAreOwn, Own
<1>5. dry' = [dry EXCEPT ![s] = 0]
  BY DEF putSighting
<1> HIDE DEF p, s
<1> SUFFICES ASSUME NEW i \in DOMAIN job'.insts, Leads(job'.insts, i)
             PROVE  job'.insts[i].missCount <= dry'[sourceOf[job'.insts[i].posting]]
  BY DEF MissesCounted
<1>6. job'.insts[i] \in Instance
  <2>1. IInv'
    BY RunStepIInv DEF SInv, RunStep, RunOn
  <2> QED
    BY <2>1 DEF IInv, TypeOK, Job
<1>7. /\ job'.insts[i].posting \in Posting /\ job'.insts[i].missCount \in Nat
      /\ sourceOf[job'.insts[i].posting] \in Source
  BY <1>6, JobRecordAssumption DEF Instance
<1>8. dry'[sourceOf[job'.insts[i].posting]] \in Nat
  BY <1>1, <1>5, <1>7
<1>9. CASE job'.insts[i].missCount = 0
  BY <1>8, <1>9
<1>10. CASE job'.insts[i].missCount # 0
  <2>1. findDuplicate(job, p)
    <3>1. ~findDuplicate(job, p) => job'.insts = <<seenInstance(p)>>
      BY <1>2, <1>3 DEF ingested, created, Absent
    <3>2. seenInstance(p).missCount = 0
      BY DEF seenInstance
    <3> QED
      BY <1>10, <3>1, <3>2
  <2>2. /\ Keeps(job.insts, job'.insts) /\ i \in DOMAIN job.insts
        /\ sourceOf[job.insts[i].posting] # sourceOf[p]
        /\ job'.insts[i].missCount <= job.insts[i].missCount
    BY <1>2, <1>3, <1>4, <1>10, <2>1, SightingInsts
  <2>3. job'.insts[i].posting = job.insts[i].posting
    BY <2>2 DEF Keeps
  <2>4. Leads(job.insts, i)
    BY <2>2 DEF Leads, Keeps
  <2>5. job.insts[i].missCount <= dry[sourceOf[job.insts[i].posting]]
    BY <2>2, <2>4 DEF SInv, MissesCounted
  <2>6. dry'[sourceOf[job'.insts[i].posting]] = dry[sourceOf[job.insts[i].posting]]
    <3>1. sourceOf[job.insts[i].posting] \in Source
      BY <1>7, <2>3
    <3> QED
      BY <1>1, <1>4, <1>5, <2>2, <2>3, <3>1
  <2>7. job.insts[i].missCount \in Nat
    BY <1>3, <2>2, InstanceFacts
  <2> QED
    BY <1>7, <1>8, <2>2, <2>5, <2>6, <2>7
<1> QED
  BY <1>9, <1>10

\* A complete listing without the job adds one miss and one to the count.
LEMMA MissingSInv ==
    ASSUME Serial, SInv, NEW c \in Crawler, putMissing(c)
    PROVE  MissesCounted'
<1> DEFINE s == run[c].source
<1>1. RunOK(run[c]) /\ run[c].phase = "missing" /\ dry \in [Source -> 0 .. MissThreshold]
  BY DEF SInv, IInv, TypeOK, putMissing
<1>2. PICK copy \in run[c].read : job' = observeMissing(copy, s)
  BY DEF putMissing
<1>3. copy = job /\ Coherent(job) /\ job.insts \in Seq(Instance) /\ Candidate(job)
  BY <1>1 DEF SInv, Current, IInv, Coherent, Job, RunOK
<1>4. s \in Source
  BY <1>1 DEF RunOK
<1>5. dry' = [dry EXCEPT ![s] = IF @ = MissThreshold THEN @ ELSE @ + 1]
  BY DEF putMissing
<1> HIDE DEF s
<1>6. job'.insts = [i \in DOMAIN job.insts |->
                      IF i = First(job.insts, s) THEN missed(job.insts[i]) ELSE job.insts[i]]
  BY <1>2, <1>3, MissingInsts
<1> SUFFICES ASSUME NEW i \in DOMAIN job.insts, Leads(job'.insts, i)
             PROVE  job'.insts[i].missCount <= dry'[sourceOf[job'.insts[i].posting]]
  BY <1>6 DEF MissesCounted
<1>7. \A j \in DOMAIN job.insts : job.insts[j] \in Instance /\ missed(job.insts[j]).posting = job.insts[j].posting
  BY <1>3, InstanceChanges
<1>8. \A j \in DOMAIN job.insts : job'.insts[j].posting = job.insts[j].posting
  BY <1>6, <1>7
<1> DEFINE t == sourceOf[job.insts[i].posting]
<1>9. t \in Source /\ job.insts[i].missCount \in 0 .. MissThreshold
  BY <1>7, JobRecordAssumption DEF Instance
<1>10. Leads(job.insts, i)
  BY <1>6, <1>8 DEF Leads
<1>11. job.insts[i].missCount <= dry[t]
  BY <1>10 DEF SInv, MissesCounted
<1> HIDE DEF t
<1>12. dry[t] \in 0 .. MissThreshold /\ MissThreshold \in Nat
  BY <1>1, <1>9, JobRecordAssumption
<1>13. CASE i = First(job.insts, s)
  <2>1. t = s
    <3>1. t = sourceOf[job.insts[i].posting]
      BY DEF t
    <3>2. \E j \in DOMAIN job.insts : sourceOf[job.insts[j].posting] = s
      BY <1>1, <1>2, <1>3 DEF SInv, RowsAreOwn, Own, Carries, s
    <3> QED
      BY <1>3, <1>13, <3>1, <3>2, FirstFacts
  <2>2. job'.insts[i] = missed(job.insts[i])
    BY <1>6, <1>13
  <2>3. dry'[t] = IF dry[t] = MissThreshold THEN dry[t] ELSE dry[t] + 1
    BY <1>1, <1>4, <1>5, <2>1
  <2>4. missed(job.insts[i]).missCount =
          IF job.insts[i].missCount + 1 >= MissThreshold THEN MissThreshold
          ELSE job.insts[i].missCount + 1
    BY <1>7 DEF missed, Instance
  <2>5. missed(job.insts[i]).missCount <= dry'[t]
    BY <1>9, <1>11, <1>12, <2>3, <2>4
  <2> QED
    BY <1>8, <2>2, <2>5 DEF t
<1>14. CASE i # First(job.insts, s)
  <2>1. job'.insts[i] = job.insts[i]
    BY <1>6, <1>14
  <2>2. dry[t] <= dry'[t] /\ dry'[t] \in Nat
    BY <1>1, <1>4, <1>5, <1>9, <1>12
  <2>3. job'.insts[i].missCount <= dry'[t]
    BY <1>9, <1>11, <1>12, <2>1, <2>2
  <2> QED
    BY <1>8, <2>3 DEF t
<1> QED
  BY <1>13, <1>14

LEMMA RunStepSInv ==
    ASSUME Serial, SInv, NEW c \in Crawler, RunStep(c)
    PROVE  SInv'
<1>1. IInv' /\ OthersIdle(c)
  BY RunStepIInv, RunAlone DEF SInv
<1>2. run[c] \in Run /\ Own(run[c])
  BY DEF SInv, IInv, TypeOK, RowsAreOwn
<1>3. Own(idleRun) /\ idleRun.read = {}
  BY DEF Own, idleRun
<1>4. ASSUME job' = job, dry' = dry PROVE MissesCounted'
  BY <1>4 DEF SInv, MissesCounted
<1>5. SUFFICES Sole' /\ Current' /\ RowsAreOwn' /\ MissesCounted'
  BY <1>1 DEF SInv
<1>6. ASSUME NEW s \in Source, startRun(c, s) PROVE Sole' /\ Current' /\ RowsAreOwn' /\ MissesCounted'
  <2>1. PICK rows \in SUBSET {p \in listed : sourceOf[p] = s} :
          run' = [run EXCEPT ![c] = [idleRun EXCEPT !.phase = "listing",
                                                    !.source = s, !.todo = rows]]
    BY <1>6 DEF startRun
  <2> DEFINE r == [idleRun EXCEPT !.phase = "listing", !.source = s, !.todo = rows]
  <2>2. Own(r) /\ r.read = {}
    BY DEF Own, idleRun
  <2>3. job' = job /\ dry' = dry /\ check' = check
    BY <1>6 DEF startRun
  <2> HIDE DEF r
  <2>4. Sole' /\ Current' /\ RowsAreOwn'
    BY <1>1, <2>1, <2>2, <2>3, RunTurn DEF r
  <2> QED
    BY <1>4, <2>3, <2>4
<1>7. ASSUME NEW p \in Posting, readJob(c, p) PROVE Sole' /\ Current' /\ RowsAreOwn' /\ MissesCounted'
  <2> DEFINE r == [run[c] EXCEPT !.row = p, !.read = {job}]
  <2>1. Own(r) /\ r.read = {job}
    BY <1>2, <1>7 DEF readJob, Own, Run
  <2>2. run' = [run EXCEPT ![c] = r] /\ job' = job /\ dry' = dry /\ check' = check
    BY <1>7 DEF readJob
  <2> HIDE DEF r
  <2>3. Sole' /\ Current' /\ RowsAreOwn'
    BY <1>1, <2>1, <2>2, RunTurn
  <2> QED
    BY <1>4, <2>2, <2>3
<1>8. ASSUME putSighting(c) PROVE Sole' /\ Current' /\ RowsAreOwn' /\ MissesCounted'
  <2> DEFINE r == [run[c] EXCEPT !.todo = @ \ {run[c].row}, !.seen = TRUE,
                                 !.row = None, !.read = {}]
  <2>1. Own(r) /\ r.read = {}
    BY <1>2, <1>8 DEF putSighting, Own, Run
  <2>2. run' = [run EXCEPT ![c] = r] /\ check' = check
    BY <1>8 DEF putSighting
  <2> HIDE DEF r
  <2>3. Sole' /\ Current' /\ RowsAreOwn'
    BY <1>1, <2>1, <2>2, RunTurn
  <2> QED
    BY <1>8, <2>3, SightingSInv
<1>9. ASSUME reconcileMissing(c) PROVE Sole' /\ Current' /\ RowsAreOwn' /\ MissesCounted'
  <2> DEFINE r == [run[c] EXCEPT !.phase = "missing", !.read = {job}]
  <2>1. Own(r) /\ r.read = {job}
    BY <1>2, <1>9 DEF reconcileMissing, Own, Run, Held
  <2>2. run' = [run EXCEPT ![c] = r] /\ job' = job /\ dry' = dry /\ check' = check
    BY <1>9 DEF reconcileMissing
  <2> HIDE DEF r
  <2>3. Sole' /\ Current' /\ RowsAreOwn'
    BY <1>1, <2>1, <2>2, RunTurn
  <2> QED
    BY <1>4, <2>2, <2>3
<1>10. ASSUME putMissing(c) PROVE Sole' /\ Current' /\ RowsAreOwn' /\ MissesCounted'
  <2>1. run' = [run EXCEPT ![c] = idleRun] /\ check' = check
    BY <1>10 DEF putMissing
  <2>2. Sole' /\ Current' /\ RowsAreOwn'
    BY <1>1, <1>3, <2>1, RunTurn
  <2> QED
    BY <1>10, <2>2, MissingSInv
<1>11. ASSUME endRun(c) \/ crash(c) PROVE Sole' /\ Current' /\ RowsAreOwn' /\ MissesCounted'
  <2>1. run' = [run EXCEPT ![c] = idleRun] /\ job' = job /\ dry' = dry /\ check' = check
    BY <1>11 DEF endRun, crash
  <2>2. Sole' /\ Current' /\ RowsAreOwn'
    BY <1>1, <1>3, <2>1, RunTurn
  <2> QED
    BY <1>4, <2>1, <2>2
<1>12. ASSUME throwRun(c) PROVE Sole' /\ Current' /\ RowsAreOwn' /\ MissesCounted'
  <2> DEFINE r == [run[c] EXCEPT !.phase = "failing", !.todo = {}, !.row = None, !.read = {job}]
  <2>1. Own(r) /\ r.read = {job}
    BY <1>2, <1>12 DEF throwRun, Own, Run
  <2>2. run' = [run EXCEPT ![c] = r] /\ job' = job /\ dry' = dry /\ check' = check
    BY <1>12 DEF throwRun
  <2> HIDE DEF r
  <2>3. Sole' /\ Current' /\ RowsAreOwn'
    BY <1>1, <2>1, <2>2, RunTurn
  <2> QED
    BY <1>4, <2>2, <2>3
<1>13. ASSUME putFailure(c) PROVE Sole' /\ Current' /\ RowsAreOwn' /\ MissesCounted'
  <2>1. run' = [run EXCEPT ![c] = idleRun] /\ dry' = dry /\ check' = check
    BY <1>13 DEF putFailure
  <2>2. Sole' /\ Current' /\ RowsAreOwn'
    BY <1>1, <1>3, <2>1, RunTurn
  <2>3. PICK copy \in run[c].read : job' = observeSourceFailure(copy)
    BY <1>13 DEF putFailure
  <2>4. copy = job /\ Coherent(job)
    BY DEF SInv, Current, IInv
  <2>5. job'.insts = job.insts
    BY <2>3, <2>4, FailureInsts
  <2> QED
    BY <2>1, <2>2, <2>5 DEF SInv, MissesCounted
<1> QED
  BY <1>6, <1>7, <1>8, <1>9, <1>10, <1>11, <1>12, <1>13 DEF RunStep, RunOn

\* What an answer of a check does, told of the document as it is.
LEMMA VerifiedNow ==
    ASSUME SInv, NEW v \in Verifier, NEW p \in Posting, NEW result \in Verdict,
           putVerified(v, p, result)
    PROVE  /\ Coherent(job) /\ Candidate(job)
           /\ \E i \in DOMAIN job.insts : MostAuthoritative(job, i) /\ job.insts[i].posting = p
           /\ job' = applyVerification(job, sourceOf[p], weighed(job, p, result))
<1>1. PICK copy \in check[v].read : \E i \in DOMAIN copy.insts :
          /\ MostAuthoritative(copy, i)
          /\ copy.insts[i].posting = p
          /\ job' = applyVerification(copy, sourceOf[p], weighed(copy, p, result))
  BY DEF putVerified
<1>2. copy = job /\ Coherent(copy) /\ Candidate(copy)
  BY DEF SInv, Current, IInv, CheckOK
<1> QED
  BY <1>1, <1>2

LEMMA VerifiedSInv ==
    ASSUME SInv, NEW v \in Verifier, NEW p \in Posting, NEW result \in Verdict,
           putVerified(v, p, result)
    PROVE  MissesCounted'
<1> DEFINE s == sourceOf[p]
           w == weighed(job, p, result)
<1>1. /\ Coherent(job) /\ Candidate(job) /\ job' = applyVerification(job, s, w)
      /\ job.insts \in Seq(Instance)
  BY VerifiedNow DEF Coherent, Job
<1>2. s \in Source /\ dry \in [Source -> 0 .. MissThreshold]
  BY JobRecordAssumption DEF SInv, IInv, TypeOK
<1>3. IInv'
  BY CheckStepIInv DEF SInv, CheckStep
<1>4. w.ok <=> result = alive
  BY DEF weighed, Verdict, alive, gone, unclear
<1>5. dry' = IF result = alive THEN [dry EXCEPT ![s] = 0] ELSE dry
  BY DEF putVerified
<1> HIDE DEF s, w
<1>6. /\ DOMAIN job'.insts = DOMAIN job.insts
      /\ \A i \in DOMAIN job.insts :
            /\ job'.insts[i].posting = job.insts[i].posting
            /\ job'.insts[i].missCount <= job.insts[i].missCount
            /\ (w.ok /\ i = First(job.insts, s)) => job'.insts[i].missCount = 0
  BY <1>1, VerifiedInsts
<1>7. \A i \in DOMAIN job.insts : job'.insts[i] \in Instance
  BY <1>3, <1>6 DEF IInv, TypeOK, Job
<1>8. \A i \in DOMAIN job.insts : job'.insts[i].missCount \in Nat
  BY <1>7 DEF Instance
<1>9. CASE result # alive
  BY <1>5, <1>6, <1>8, <1>9, CountStays DEF Keeps
<1>10. CASE result = alive
  <2> SUFFICES ASSUME NEW i \in DOMAIN job.insts, Leads(job'.insts, i)
               PROVE  job'.insts[i].missCount <= dry'[sourceOf[job'.insts[i].posting]]
    BY <1>6 DEF MissesCounted
  <2> DEFINE t == sourceOf[job.insts[i].posting]
  <2>1. /\ t \in Source /\ job.insts[i] \in Instance
        /\ job.insts[i].missCount \in Nat /\ job'.insts[i].missCount \in Nat
    BY <1>1, <1>8, InstanceFacts
  <2>2. Leads(job.insts, i)
    BY <1>6 DEF Leads
  <2>3. job.insts[i].missCount <= dry[t]
    BY <2>2 DEF SInv, MissesCounted
  <2>4. CASE t = s
    <3>1. i = First(job.insts, s)
      BY <1>1, <2>2, <2>4, LeadsIsFirst
    <3>2. job'.insts[i].missCount = 0
      BY <1>4, <1>6, <1>10, <3>1
    <3>3. dry'[t] = 0
      BY <1>2, <1>5, <1>10, <2>4
    <3> QED
      BY <1>6, <3>2, <3>3
  <2>5. CASE t # s
    <3>1. dry'[t] = dry[t] /\ dry[t] \in Nat
      BY <1>2, <1>5, <1>10, <2>1, <2>5
    <3>2. job'.insts[i].missCount <= job.insts[i].missCount
      BY <1>6
    <3>3. job'.insts[i].missCount <= dry'[t]
      <4> HIDE DEF t
      <4> QED
        BY <2>1, <2>3, <3>1, <3>2
    <3> QED
      BY <1>6, <3>3
  <2> QED
    BY <2>4, <2>5
<1> QED
  BY <1>9, <1>10

LEMMA CheckStepSInv ==
    ASSUME Serial, SInv, NEW v \in Verifier, CheckStep(v)
    PROVE  SInv'
<1>1. IInv' /\ OtherChecksIdle(v)
  BY CheckStepIInv, CheckAlone DEF SInv
<1>2. idleCheck.read = {}
  BY DEF idleCheck
<1>3. SUFFICES Sole' /\ Current' /\ RowsAreOwn' /\ MissesCounted'
  BY <1>1 DEF SInv
<1>4. ASSUME readCandidate(v) \/ sweepRead(v)
      PROVE  Sole' /\ Current' /\ RowsAreOwn' /\ MissesCounted'
  <2>1. PICK kind \in {"verify", "sweep"} :
          check' = [check EXCEPT ![v] = [kind |-> kind, read |-> {job}]]
    BY <1>4 DEF readCandidate, sweepRead
  <2>2. UNCHANGED <<job, run, dry>>
    BY <1>4 DEF readCandidate, sweepRead
  <2>3. \A copy \in [kind |-> kind, read |-> {job}].read : copy = job'
    BY <2>2
  <2>4. Sole' /\ Current' /\ RowsAreOwn'
    BY <1>1, <2>1, <2>2, <2>3, CheckTurn
  <2> QED
    BY <2>2, <2>4 DEF SInv, MissesCounted
<1>5. ASSUME NEW p \in Posting, NEW result \in Verdict, putVerified(v, p, result)
      PROVE  Sole' /\ Current' /\ RowsAreOwn' /\ MissesCounted'
  <2>1. Sole' /\ Current' /\ RowsAreOwn'
    BY <1>1, <1>2, <1>5, CheckTurn DEF putVerified
  <2> QED
    BY <1>5, <2>1, VerifiedSInv
<1>6. ASSUME dropCheck(v) PROVE Sole' /\ Current' /\ RowsAreOwn' /\ MissesCounted'
  <2>1. Sole' /\ Current' /\ RowsAreOwn'
    BY <1>1, <1>2, <1>6, CheckTurn DEF dropCheck
  <2> QED
    BY <1>6, <2>1 DEF dropCheck, SInv, MissesCounted
<1>7. ASSUME sweepPut(v) PROVE Sole' /\ Current' /\ RowsAreOwn' /\ MissesCounted'
  <2>1. Sole' /\ Current' /\ RowsAreOwn'
    BY <1>1, <1>2, <1>7, CheckTurn DEF sweepPut
  <2>2. PICK copy \in check[v].read : job' = sweepStaleness(copy)
    BY <1>7 DEF sweepPut
  <2>3. copy = job /\ Coherent(job)
    BY DEF SInv, Current, IInv
  <2>4. job'.insts = job.insts /\ dry' = dry
    BY <1>7, <2>2, <2>3, SweptInsts DEF sweepPut
  <2> QED
    BY <2>1, <2>4 DEF SInv, MissesCounted
<1> QED
  BY <1>4, <1>5, <1>6, <1>7 DEF CheckStep

LEMMA AgeSInv ==
    ASSUME SInv, Age
    PROVE  SInv'
<1>1. IInv'
  BY AgeIInv DEF SInv
<1>2. /\ run \in [Crawler -> Run] /\ check \in [Verifier -> Check]
      /\ \A c \in Crawler : run'[c] = [run[c] EXCEPT !.read = {Aged(copy) : copy \in @}]
      /\ \A v \in Verifier : check'[v] = [check[v] EXCEPT !.read = {Aged(copy) : copy \in @}]
      /\ job' = Aged(job) /\ dry' = dry
  BY DEF Age, SInv, IInv, TypeOK
<1>3. \A c \in Crawler : run[c] = idleRun => run'[c] = idleRun
  <2>1. idleRun.read = {}
    BY DEF idleRun
  <2>2. {Aged(copy) : copy \in idleRun.read} = {}
    BY <2>1
  <2>3. [idleRun EXCEPT !.read = {}] = idleRun
    <3>1. idleRun \in Run
      BY IdleOK DEF RunOK
    <3>2. \A r \in Run : r.read = {} => [r EXCEPT !.read = {}] = r
      BY DEF Run
    <3> QED
      BY <2>1, <3>1, <3>2
  <2> QED
    BY <1>2, <2>2, <2>3
<1>4. \A c \in Crawler :
         /\ run'[c].todo = run[c].todo /\ run'[c].source = run[c].source
         /\ run'[c].phase = run[c].phase /\ run'[c].row = run[c].row
         /\ run'[c].read = {Aged(copy) : copy \in run[c].read}
  <2> SUFFICES ASSUME NEW c \in Crawler
               PROVE  /\ run'[c].todo = run[c].todo /\ run'[c].source = run[c].source
                      /\ run'[c].phase = run[c].phase /\ run'[c].row = run[c].row
                      /\ run'[c].read = {Aged(copy) : copy \in run[c].read}
    OBVIOUS
  <2> DEFINE aged == {Aged(copy) : copy \in run[c].read}
  <2>1. run'[c] = [run[c] EXCEPT !.read = aged] /\ run[c] \in Run
    BY <1>2
  <2> HIDE DEF aged
  <2>2. /\ run'[c].todo = run[c].todo /\ run'[c].source = run[c].source
        /\ run'[c].phase = run[c].phase /\ run'[c].row = run[c].row
        /\ run'[c].read = aged
    BY <2>1 DEF Run
  <2> QED
    BY <2>2 DEF aged
<1>5. \A v \in Verifier : check[v] = idleCheck => check'[v] = idleCheck
  <2>1. idleCheck.read = {}
    BY DEF idleCheck
  <2>2. {Aged(copy) : copy \in idleCheck.read} = {}
    BY <2>1
  <2>3. [idleCheck EXCEPT !.read = {}] = idleCheck
    BY DEF idleCheck
  <2> QED
    BY <1>2, <2>2, <2>3
<1>6. \A v \in Verifier :
         check'[v].read = {Aged(copy) : copy \in check[v].read}
  <2> SUFFICES ASSUME NEW v \in Verifier
               PROVE  check'[v].read = {Aged(copy) : copy \in check[v].read}
    OBVIOUS
  <2> DEFINE aged == {Aged(copy) : copy \in check[v].read}
  <2>1. check'[v] = [check[v] EXCEPT !.read = aged] /\ check[v] \in Check
    BY <1>2
  <2> HIDE DEF aged
  <2>2. check'[v].read = aged
    BY <2>1 DEF Check
  <2> QED
    BY <2>2 DEF aged
<1>7. Sole'
  BY <1>3, <1>5 DEF SInv, Sole
<1>8. Current'
  BY <1>2, <1>4, <1>6 DEF SInv, Current
<1>9. job'.insts = job.insts
  BY <1>2, AgedCoherent DEF SInv, IInv
<1>10. MissesCounted'
  BY <1>2, <1>9 DEF SInv, MissesCounted
<1>11. RowsAreOwn'
  <2> SUFFICES ASSUME NEW c \in Crawler PROVE Own(run'[c])
    BY DEF RowsAreOwn
  <2>1. Own(run[c]) /\ RunOK(run[c])
    BY DEF SInv, IInv, RowsAreOwn
  <2>2. \A copy \in run[c].read : Aged(copy).insts = copy.insts
    BY <2>1, AgedCoherent DEF RunOK
  <2>3. \A copy \in run[c].read : Carries(copy, run[c].source) => Carries(Aged(copy), run[c].source)
    BY <2>2 DEF Carries
  <2> QED
    BY <1>4, <2>1, <2>3 DEF Own
<1> QED
  BY <1>1, <1>7, <1>8, <1>10, <1>11 DEF SInv

LEMMA InitSInv == Init => SInv
<1> SUFFICES ASSUME Init PROVE SInv
  OBVIOUS
<1>1. /\ \A c \in Crawler : run[c] = idleRun
      /\ \A v \in Verifier : check[v] = idleCheck
  BY DEF Init
<1>2. idleRun.read = {} /\ idleCheck.read = {} /\ Own(idleRun)
  BY DEF idleRun, idleCheck, Own
<1>3. Sole /\ Current /\ RowsAreOwn
  BY <1>1, <1>2 DEF Sole, Current, RowsAreOwn
<1>4. MissesCounted
  BY DEF Init, Absent, MissesCounted
<1> QED
  BY <1>3, <1>4, InitIInv DEF SInv

LEMMA NextSInv == Serial /\ SInv /\ [Next]_vars => SInv'
<1> SUFFICES ASSUME Serial, SInv, [Next]_vars PROVE SInv'
  OBVIOUS
<1>1. ASSUME UNCHANGED <<job, run, check, dry>> PROVE SInv'
  <2>1. IInv'
    BY NextIInv DEF SInv
  <2> QED
    BY <1>1, <2>1 DEF SInv, Sole, Current, RowsAreOwn, MissesCounted
<1>2. CASE UNCHANGED vars
  BY <1>1, <1>2 DEF vars
<1>3. CASE \E p \in Posting : postRow(p) \/ withdrawRow(p)
  BY <1>1, <1>3 DEF postRow, withdrawRow
<1> QED
  BY <1>2, <1>3, RunStepSInv, CheckStepSInv, AgeSInv DEF Next

\* The inductive invariant of one scheduler.
LEMMA SerialInvariance == ASSUME Serial PROVE Spec => []SInv
<1>1. SInv /\ [Next]_vars => SInv'
  BY NextSInv
<1> QED
  BY <1>1, InitSInv, PTL DEF Spec

-----------------------------------------------------------------------------
(* What a step of one scheduler may do to the document. *)

\* Three kinds of put rewrite instances; every other step leaves them, and closes nothing.
LEMMA StepKinds ==
    ASSUME SInv, [Next]_vars
    PROVE  \/ /\ job'.insts = job.insts
              /\ job'.status = "REMOVED" => job.status = "REMOVED"
           \/ \E c \in Crawler : putSighting(c)
           \/ \E c \in Crawler : putMissing(c)
           \/ \E v \in Verifier, p \in Posting, result \in Verdict : putVerified(v, p, result)
<1>1. ASSUME job' = job PROVE job'.insts = job.insts /\ (job'.status = "REMOVED" => job.status = "REMOVED")
  BY <1>1
<1>2. Coherent(job)
  BY DEF SInv, IInv
<1>3. CASE UNCHANGED vars
  BY <1>1, <1>3 DEF vars
<1>4. CASE \E p \in Posting : postRow(p) \/ withdrawRow(p)
  BY <1>1, <1>4 DEF postRow, withdrawRow
<1>5. CASE Age
  BY <1>2, <1>5, AgedCoherent DEF Age
<1>6. ASSUME NEW c \in Crawler, RunStep(c), ~putSighting(c), ~putMissing(c)
      PROVE  job'.insts = job.insts /\ (job'.status = "REMOVED" => job.status = "REMOVED")
  <2>1. CASE putFailure(c)
    <3>1. PICK copy \in run[c].read : job' = observeSourceFailure(copy)
      BY <2>1 DEF putFailure
    <3>2. copy = job
      BY DEF SInv, Current
    <3> QED
      BY <1>2, <3>1, <3>2, FailureInsts
  <2>2. CASE ~putFailure(c)
    <3>1. job' = job
      BY <1>6, <2>2 DEF RunStep, RunOn, startRun, readJob, reconcileMissing, endRun, throwRun, crash
    <3> QED
      BY <3>1
  <2> QED
    BY <2>1, <2>2
<1>7. ASSUME NEW v \in Verifier, CheckStep(v),
             ~\E p \in Posting, result \in Verdict : putVerified(v, p, result)
      PROVE  job'.insts = job.insts /\ (job'.status = "REMOVED" => job.status = "REMOVED")
  <2>1. CASE sweepPut(v)
    <3>1. PICK copy \in check[v].read : job' = sweepStaleness(copy)
      BY <2>1 DEF sweepPut
    <3>2. copy = job
      BY DEF SInv, Current
    <3> QED
      BY <1>2, <3>1, <3>2, SweptInsts
  <2>2. CASE ~sweepPut(v)
    <3>1. job' = job
      BY <1>7, <2>2 DEF CheckStep, readCandidate, dropCheck, sweepRead
    <3> QED
      BY <3>1
  <2> QED
    BY <2>1, <2>2
<1> QED
  BY <1>3, <1>4, <1>5, <1>6, <1>7 DEF Next

LEMMA SightingNow ==
    ASSUME SInv, NEW c \in Crawler, putSighting(c)
    PROVE  /\ Coherent(job) /\ run[c].row \in Posting /\ job' = ingested(job, run[c].row)
<1>1. PICK copy \in run[c].read : job' = ingested(copy, run[c].row)
  BY DEF putSighting
<1>2. copy = job /\ Coherent(job) /\ run[c].row \in Posting
  BY DEF SInv, Current, IInv, RunOK, putSighting
<1> QED
  BY <1>1, <1>2

LEMMA MissingNow ==
    ASSUME SInv, NEW c \in Crawler, putMissing(c)
    PROVE  /\ Coherent(job) /\ Candidate(job) /\ Carries(job, run[c].source)
           /\ run[c].source \in Source
           /\ job' = observeMissing(job, run[c].source)
<1>1. PICK copy \in run[c].read : job' = observeMissing(copy, run[c].source)
  BY DEF putMissing
<1>2. copy = job /\ Coherent(job) /\ Candidate(copy) /\ Carries(copy, run[c].source)
  BY DEF SInv, Current, IInv, RunOK, putMissing, RowsAreOwn, Own
<1>3. run[c].source \in Source
  BY DEF SInv, IInv, RunOK, putMissing
<1> QED
  BY <1>1, <1>2, <1>3

LEMMA CreatedInsts == \A p : created(p).status = "NEW" /\ created(p).insts = <<seenInstance(p)>>
BY DEF created, Absent

\* "Source instances are clustered, never collapsed" (dedupe.js): when the rows of the
\* canonical id are alike, one scheduler never loses a row of the document.
THEOREM RowsStayClustered ==
    ASSUME Serial, \A p, q \in Posting : <<p, q>> \in Alike
    PROVE  Spec => InstancesKept
<1> DEFINE Kept == \A i \in DOMAIN job.insts :
                      \E j \in DOMAIN job'.insts : job'.insts[j].posting = job.insts[i].posting
<1>1. ASSUME SInv, [Next]_vars PROVE Kept
  <2>1. Coherent(job) /\ job.insts \in Seq(Instance)
    BY <1>1 DEF SInv, IInv, Coherent, Job
  <2>2. ASSUME Keeps(job.insts, job'.insts) PROVE Kept
    BY <2>2 DEF Keeps
  <2>3. CASE job'.insts = job.insts
    BY <2>3
  <2>4. CASE \E c \in Crawler : putSighting(c)
    <3>1. PICK c \in Crawler : putSighting(c)
      BY <2>4
    <3>2. run[c].row \in Posting /\ job' = ingested(job, run[c].row)
      BY <1>1, <3>1, SightingNow
    <3>3. CASE findDuplicate(job, run[c].row)
      BY <2>1, <2>2, <3>2, <3>3, SightingInsts
    <3>4. CASE ~findDuplicate(job, run[c].row)
      <4>1. \A i \in DOMAIN job.insts : job.insts[i].posting \in Posting
        BY <2>1, InstanceFacts
      <4>2. DOMAIN job.insts = {}
        BY <3>2, <3>4, <4>1 DEF findDuplicate
      <4> QED
        BY <4>2
    <3> QED
      BY <3>3, <3>4
  <2>5. CASE \E c \in Crawler : putMissing(c)
    <3>1. PICK c \in Crawler : putMissing(c)
      BY <2>5
    <3>2. Candidate(job) /\ job' = observeMissing(job, run[c].source)
      BY <1>1, <3>1, MissingNow
    <3>3. job'.insts = [i \in DOMAIN job.insts |->
                          IF i = First(job.insts, run[c].source) THEN missed(job.insts[i])
                                                                 ELSE job.insts[i]]
      BY <2>1, <3>2, MissingInsts
    <3>4. \A i \in DOMAIN job.insts : missed(job.insts[i]).posting = job.insts[i].posting
      BY <2>1, InstanceChanges
    <3>5. Keeps(job.insts, job'.insts)
      BY <3>3, <3>4 DEF Keeps
    <3> QED
      BY <2>2, <3>5
  <2>6. CASE \E v \in Verifier, p \in Posting, result \in Verdict : putVerified(v, p, result)
    <3>1. PICK v \in Verifier, p \in Posting, result \in Verdict : putVerified(v, p, result)
      BY <2>6
    <3>2. Candidate(job) /\ job' = applyVerification(job, sourceOf[p], weighed(job, p, result))
      BY <1>1, <3>1, VerifiedNow
    <3>3. Keeps(job.insts, job'.insts)
      BY <2>1, <3>2, VerifiedInsts DEF Keeps
    <3> QED
      BY <2>2, <3>3
  <2> QED
    BY <1>1, <2>3, <2>4, <2>5, <2>6, StepKinds
<1>2. SInv /\ [Next]_vars => [Kept]_vars
  BY <1>1
<1> QED
  BY <1>2, SerialInvariance, PTL DEF Spec, InstancesKept

\* Only a check that found the most authoritative row gone closes a document, and then
\* that row was the last one believed active: with one scheduler, and sources whose rows
\* rank and are linked alike, no document is closed while such a row is up.
THEOREM ClosureIsProven ==
    ASSUME Serial,
           \A p, q \in Posting :
              sourceOf[p] = sourceOf[q] => rank[p] = rank[q] /\ (p \in Linked <=> q \in Linked)
    PROVE  Spec => NoLiveClosure
<1> DEFINE Proven == (job.status # "REMOVED" /\ job'.status = "REMOVED") =>
                        \A i \in DOMAIN job.insts :
                           job.insts[i].active => job.insts[i].posting \notin listed
<1>1. ASSUME SInv, [Next]_vars PROVE Proven
  <2> SUFFICES ASSUME job.status # "REMOVED", job'.status = "REMOVED",
                      NEW i \in DOMAIN job.insts, job.insts[i].active
               PROVE  job.insts[i].posting \notin listed
    OBVIOUS
  <2>1. Coherent(job) /\ job.insts \in Seq(Instance)
    BY <1>1 DEF SInv, IInv, Coherent, Job
  <2>2. ~\E c \in Crawler : putSighting(c)
    <3> SUFFICES ASSUME NEW c \in Crawler, putSighting(c) PROVE FALSE
      OBVIOUS
    <3>1. run[c].row \in Posting /\ job' = ingested(job, run[c].row)
      BY <1>1, SightingNow
    <3>2. job'.status \in {"ACTIVE", "NEW"}
      <4>1. CASE findDuplicate(job, run[c].row)
        BY <2>1, <3>1, <4>1, SightingInsts
      <4>2. CASE ~findDuplicate(job, run[c].row)
        BY <3>1, <4>2, CreatedInsts DEF ingested
      <4> QED
        BY <4>1, <4>2
    <3> QED
      BY <3>2
  <2>3. ~\E c \in Crawler : putMissing(c)
    <3> SUFFICES ASSUME NEW c \in Crawler, putMissing(c) PROVE FALSE
      OBVIOUS
    <3>1. Candidate(job) /\ job' = observeMissing(job, run[c].source)
      BY <1>1, MissingNow
    <3>2. job'.status # "REMOVED"
      BY <2>1, <3>1, MissingInsts
    <3> QED
      BY <3>2
  <2>4. PICK v \in Verifier, p \in Posting, result \in Verdict : putVerified(v, p, result)
    BY <1>1, <2>2, <2>3, StepKinds
  <2> DEFINE s == sourceOf[p]
             w == weighed(job, p, result)
  <2>5. Candidate(job) /\ job' = applyVerification(job, s, w)
    BY <1>1, <2>4, VerifiedNow
  <2>6. PICK k \in DOMAIN job.insts : MostAuthoritative(job, k) /\ job.insts[k].posting = p
    BY <1>1, <2>4, VerifiedNow
  <2>7. (w.closed \/ w.http = "404") /\ ~w.ok => result = gone
    BY DEF weighed, Verdict, alive, gone, unclear
  <2> HIDE DEF w, s
  <2>8. ~w.ok /\ (w.closed \/ w.http = "404") /\ i = First(job.insts, s)
    BY <2>1, <2>5, VerifiedInsts
  <2>9. p \notin listed
    BY <2>4, <2>7, <2>8 DEF putVerified
  <2>10. /\ i <= k /\ sourceOf[job.insts[i].posting] = s /\ i \in Nat /\ k \in Nat
    BY <2>1, <2>6, <2>8, FirstFacts DEF s
  <2>11. /\ job.insts[i].posting \in Posting /\ job.insts[i].posting \in Linked
         /\ rank[job.insts[i].posting] = rank[job.insts[k].posting]
         /\ rank[job.insts[k].posting] \in Nat
    <3>1. job.insts[i].posting \in Posting
      BY <2>1, InstanceFacts
    <3>2. rank[p] \in Nat /\ p \in Linked
      BY <2>6, JobRecordAssumption DEF MostAuthoritative
    <3> QED
      BY <2>6, <2>10, <3>1, <3>2 DEF s
  <2>12. k <= i
    BY <2>6, <2>11 DEF MostAuthoritative
  <2>13. i = k
    BY <2>10, <2>12
  <2> QED
    BY <2>6, <2>9, <2>13
<1>2. SInv /\ [Next]_vars => [Proven]_vars
  BY <1>1
<1> QED
  BY <1>2, SerialInvariance, PTL DEF Spec, NoLiveClosure

\* With one scheduler, absence alone takes an instance out of service only after
\* MISS_THRESHOLD complete listings of its source in a row without the job.
THEOREM MissesAreEarned ==
    ASSUME Serial
    PROVE  Spec => MissesEarned
<1> DEFINE Earned == \A i \in DOMAIN job.insts :
                        LET s == sourceOf[job.insts[i].posting] IN
                        (/\ job.insts[i].active
                         /\ job'.status \in {"LIKELY_ACTIVE", "STALE"}
                         /\ i \in DOMAIN job'.insts
                         /\ job'.insts[i].posting = job.insts[i].posting
                         /\ ~job'.insts[i].active
                         /\ dry[s] # dry'[s]) => dry'[s] = MissThreshold
<1>1. ASSUME SInv, [Next]_vars PROVE Earned
  <2> SUFFICES ASSUME NEW i \in DOMAIN job.insts, job.insts[i].active,
                      job'.status \in {"LIKELY_ACTIVE", "STALE"},
                      ~job'.insts[i].active,
                      dry[sourceOf[job.insts[i].posting]] # dry'[sourceOf[job.insts[i].posting]]
               PROVE  dry'[sourceOf[job.insts[i].posting]] = MissThreshold
    OBVIOUS
  <2> DEFINE t == sourceOf[job.insts[i].posting]
  <2>1. /\ Coherent(job) /\ job.insts \in Seq(Instance) /\ job.insts[i] \in Instance
        /\ dry \in [Source -> 0 .. MissThreshold]
    BY <1>1 DEF SInv, IInv, TypeOK, Coherent, Job
  <2>2. t \in Source /\ job.insts[i].missCount \in Nat /\ MissThreshold \in Nat
    BY <2>1, JobRecordAssumption DEF Instance
  <2>3. CASE job'.insts = job.insts
    BY <2>3
  <2>4. CASE \E c \in Crawler : putSighting(c)
    <3>1. PICK c \in Crawler : putSighting(c)
      BY <2>4
    <3>2. run[c].row \in Posting /\ job' = ingested(job, run[c].row)
      BY <1>1, <3>1, SightingNow
    <3>3. CASE findDuplicate(job, run[c].row)
      BY <2>1, <3>2, <3>3, SightingInsts
    <3>4. CASE ~findDuplicate(job, run[c].row)
      BY <3>2, <3>4, CreatedInsts DEF ingested
    <3> QED
      BY <3>3, <3>4
  <2>5. CASE \E c \in Crawler : putMissing(c)
    <3>1. PICK c \in Crawler : putMissing(c)
      BY <2>5
    <3> DEFINE s == run[c].source
    <3>2. Candidate(job) /\ job' = observeMissing(job, s) /\ Carries(job, s) /\ s \in Source
      BY <1>1, <3>1, MissingNow
    <3>3. dry' = [dry EXCEPT ![s] = IF @ = MissThreshold THEN @ ELSE @ + 1]
      BY <3>1 DEF putMissing
    <3> HIDE DEF s
    <3>4. job'.insts = [j \in DOMAIN job.insts |->
                          IF j = First(job.insts, s) THEN missed(job.insts[j]) ELSE job.insts[j]]
      BY <2>1, <3>2, MissingInsts
    <3>5. i = First(job.insts, s) /\ ~missed(job.insts[i]).active
      BY <3>4
    <3>6. job.insts[i].missCount + 1 >= MissThreshold
      BY <2>1, <3>5, InstanceChanges
    <3>7. t = s /\ \A j \in DOMAIN job.insts : sourceOf[job.insts[j].posting] = s => i <= j
      BY <2>1, <3>2, <3>5, FirstFacts DEF Carries
    <3>8. job.insts[i].missCount <= dry[t]
      <4>1. Leads(job.insts, i)
        BY <3>7 DEF Leads
      <4> QED
        BY <1>1, <4>1 DEF SInv, MissesCounted
    <3>9. dry'[t] = IF dry[t] = MissThreshold THEN dry[t] ELSE dry[t] + 1
      BY <2>1, <2>2, <3>3, <3>7
    <3> HIDE DEF t
    <3>10. dry[t] \in 0 .. MissThreshold
      BY <2>1, <2>2
    <3>11. dry'[t] = MissThreshold
      BY <2>2, <3>6, <3>8, <3>9, <3>10
    <3> QED
      BY <3>11 DEF t
  <2>6. CASE \E v \in Verifier, p \in Posting, result \in Verdict : putVerified(v, p, result)
    <3>1. PICK v \in Verifier, p \in Posting, result \in Verdict : putVerified(v, p, result)
      BY <2>6
    <3>2. Candidate(job) /\ job' = applyVerification(job, sourceOf[p], weighed(job, p, result))
      BY <1>1, <3>1, VerifiedNow
    <3>3. dry' = dry \/ result = alive
      BY <3>1 DEF putVerified
    <3>4. result = alive => weighed(job, p, result).ok
      BY DEF weighed, alive
    <3>5. result = alive => job'.status \in {"NEW", "ACTIVE"}
      <4> DEFINE w == weighed(job, p, result)
      <4>1. w.ok => applyVerification(job, sourceOf[p], w).status \in {"NEW", "ACTIVE"}
        <5> HIDE DEF w
        <5> QED
          BY <2>1, <3>2, VerifiedInsts
      <4> QED
        BY <3>2, <3>4, <4>1
    <3> QED
      BY <3>3, <3>5
  <2> QED
    BY <1>1, <2>3, <2>4, <2>5, <2>6, StepKinds
<1>2. SInv /\ [Next]_vars => [Earned]_vars
  BY <1>1
<1> QED
  BY <1>2, SerialInvariance, PTL DEF Spec, MissesEarned
=============================================================================
