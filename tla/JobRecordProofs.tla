-------------------------- MODULE JobRecordProofs --------------------------
(***************************************************************************)
(* Lemmas about the functions that rewrite one job document (JobRecord):   *)
(* each of them turns a coherent document into a coherent one, whatever    *)
(* order they are applied in.  The proofs about the modules that store     *)
(* such documents (JobLifecycle, BoardCrawl) rest on them.                 *)
(***************************************************************************)
EXTENDS JobRecord, FiniteSetTheorems, WellFoundedInduction, SequenceTheorems, TLAPS

\* What every document, stored or in hand, satisfies.
Coherent(j) ==
    /\ j \in Job
    /\ j.status \in Shown => AnyActive(j.insts)
    /\ j.closed <=> j.status = "REMOVED"
    /\ j.status = "REMOVED" => ~AnyActive(j.insts)
    /\ j.status = "STALE" => j.flagged

-----------------------------------------------------------------------------
(* Sequences of instances. *)

\* A set of naturals has a least element (the intervals 1 .. k are well-founded
\* under strict inclusion): Array.find has a first match to return.
LEMMA LeastNatural ==
    ASSUME NEW T, T \subseteq Nat, T # {}
    PROVE  \E m \in T : \A k \in T : m <= k
<1> DEFINE U == {1 .. k : k \in T}
<1>1. U \subseteq FiniteSubsetsOf(Nat)
  <2>1. \A k \in Nat : IsFiniteSet(1 .. k)
    BY FS_Interval
  <2> QED
    BY <2>1 DEF FiniteSubsetsOf
<1>2. IsWellFoundedOn(StrictSubsetOrdering(Nat), FiniteSubsetsOf(Nat))
  BY FS_StrictSubsetOrderingWellFounded
<1>3. U # {}
  OBVIOUS
<1>4. \E x \in U : \A y \in U : ~(<<y, x>> \in StrictSubsetOrdering(Nat))
  <2> HIDE DEF U
  <2> QED
    BY <1>1, <1>2, <1>3, WFMin, Zenon
<1>5. PICK m \in T : \A k \in T : ~(<<1 .. k, 1 .. m>> \in StrictSubsetOrdering(Nat))
  BY <1>4, Zenon
<1>6. ASSUME NEW k \in T, ~(m <= k) PROVE FALSE
  <2>1. k \in Nat /\ m \in Nat /\ k < m
    BY <1>6
  <2>2. (1 .. k) \subseteq (1 .. m)
    BY <2>1
  <2>3. (1 .. k) # (1 .. m)
    BY <2>1
  <2>4. <<1 .. k, 1 .. m>> \in StrictSubsetOrdering(Nat)
    BY <2>1, <2>2, <2>3 DEF StrictSubsetOrdering
  <2> QED
    BY <2>4, <1>5
<1> QED
  BY <1>6

\* A rewrite of every element of a sequence of instances is one again.
LEMMA MappedInsts ==
    ASSUME NEW insts \in Seq(Instance), NEW f,
           f = [i \in DOMAIN insts |-> f[i]],
           \A i \in DOMAIN insts : f[i] \in Instance
    PROVE  f \in Seq(Instance) /\ DOMAIN f = DOMAIN insts
<1>1. PICK n \in Nat : insts \in [1 .. n -> Instance]
  BY SeqDef
<1>2. f \in [1 .. n -> Instance]
  BY <1>1
<1> QED
  BY <1>1, <1>2, SeqDef

\* The first instance of a source the document carries is one of its instances.
LEMMA FirstExists ==
    ASSUME NEW insts \in Seq(Instance), NEW s,
           \E i \in DOMAIN insts : sourceOf[insts[i].posting] = s
    PROVE  First(insts, s) \in DOMAIN insts
<1> DEFINE T == {i \in DOMAIN insts : sourceOf[insts[i].posting] = s}
<1>1. T \subseteq Nat /\ T # {}
  <2>1. DOMAIN insts = 1 .. Len(insts) /\ Len(insts) \in Nat
    OBVIOUS
  <2> QED
    BY <2>1
<1>2. PICK m \in T : \A k \in T : m <= k
  <2> HIDE DEF T
  <2> QED
    BY <1>1, LeastNatural
<1> QED
  BY <1>2 DEF First

-----------------------------------------------------------------------------
(* Single instances. *)

LEMMA InstanceOps ==
    ASSUME NEW inst \in Instance
    PROVE  /\ revived(inst) \in Instance /\ revived(inst).active
           /\ retired(inst) \in Instance
           /\ missed(inst) \in Instance
<1>1. 0 \in 0 .. MissThreshold /\ MissThreshold \in 0 .. MissThreshold
  BY JobRecordAssumption
<1>2. revived(inst) \in Instance /\ revived(inst).active
  BY <1>1 DEF revived, Instance
<1>3. retired(inst) \in Instance
  BY DEF retired, Instance
<1>4. missed(inst) \in Instance
  <2>1. CASE inst.missCount + 1 >= MissThreshold
    BY <2>1, <1>1 DEF missed, Instance
  <2>2. CASE ~(inst.missCount + 1 >= MissThreshold)
    <3>1. inst.missCount + 1 \in 0 .. MissThreshold
      BY <2>2, JobRecordAssumption DEF Instance
    <3> QED
      BY <2>2, <3>1 DEF missed, Instance
  <2> QED
    BY <2>1, <2>2
<1> QED
  BY <1>2, <1>3, <1>4

LEMMA SeenInstance ==
    ASSUME NEW p \in Posting
    PROVE  seenInstance(p) \in Instance /\ seenInstance(p).active
<1>1. 0 \in 0 .. MissThreshold
  BY JobRecordAssumption
<1> QED
  BY <1>1 DEF seenInstance, Instance

-----------------------------------------------------------------------------
(* The functions that rewrite a document. *)

LEMMA AbsentCoherent == Coherent(Absent)
<1>1. Absent.insts \in Seq(Instance)
  BY DEF Absent
<1> QED
  BY <1>1 DEF Coherent, Absent, Job, Shown

LEMMA CreatedCoherent ==
    ASSUME NEW p \in Posting
    PROVE  Coherent(created(p))
<1>1. seenInstance(p) \in Instance /\ seenInstance(p).active
  BY SeenInstance
<1>2. <<seenInstance(p)>> \in Seq(Instance)
  BY <1>1
<1>3. AnyActive(<<seenInstance(p)>>)
  BY <1>1 DEF AnyActive
<1>4. /\ created(p).insts = <<seenInstance(p)>>
      /\ created(p).status = "NEW" /\ created(p).closed = FALSE
      /\ created(p) \in Job
  BY <1>2 DEF created, Absent, Job, JOB_STATUS
<1> QED
  BY <1>3, <1>4 DEF Coherent

\* Rewriting the first instance of a source, in each of the three ways.
LEMMA AtFirst ==
    ASSUME NEW insts \in Seq(Instance), NEW s
    PROVE  /\ [i \in DOMAIN insts |-> IF i = First(insts, s) THEN revived(insts[i])
                                                             ELSE insts[i]] \in Seq(Instance)
           /\ [i \in DOMAIN insts |-> IF i = First(insts, s) THEN missed(insts[i])
                                                             ELSE insts[i]] \in Seq(Instance)
           /\ [i \in DOMAIN insts |-> IF i = First(insts, s) THEN retired(insts[i])
                                                             ELSE insts[i]] \in Seq(Instance)
<1>1. \A i \in DOMAIN insts : insts[i] \in Instance
  OBVIOUS
<1>2. \A i \in DOMAIN insts : /\ revived(insts[i]) \in Instance
                              /\ missed(insts[i]) \in Instance
                              /\ retired(insts[i]) \in Instance
  BY <1>1, InstanceOps
<1> DEFINE r == [i \in DOMAIN insts |-> IF i = First(insts, s) THEN revived(insts[i]) ELSE insts[i]]
           m == [i \in DOMAIN insts |-> IF i = First(insts, s) THEN missed(insts[i]) ELSE insts[i]]
           t == [i \in DOMAIN insts |-> IF i = First(insts, s) THEN retired(insts[i]) ELSE insts[i]]
<1>3. /\ r = [i \in DOMAIN insts |-> r[i]] /\ \A i \in DOMAIN insts : r[i] \in Instance
      /\ m = [i \in DOMAIN insts |-> m[i]] /\ \A i \in DOMAIN insts : m[i] \in Instance
      /\ t = [i \in DOMAIN insts |-> t[i]] /\ \A i \in DOMAIN insts : t[i] \in Instance
  BY <1>1, <1>2
<1> HIDE DEF r, m, t
<1>4. r \in Seq(Instance) /\ m \in Seq(Instance) /\ t \in Seq(Instance)
  BY <1>3, MappedInsts
<1> QED
  BY <1>4 DEF r, m, t

LEMMA MergedInsts ==
    ASSUME NEW insts \in Seq(Instance), NEW p \in Posting
    PROVE  mergedInsts(insts, p) \in Seq(Instance) /\ AnyActive(mergedInsts(insts, p))
<1>1. CASE \E i \in DOMAIN insts : insts[i].posting = p
  <2> DEFINE f == [i \in DOMAIN insts |->
                     IF insts[i].posting = p THEN revived(insts[i]) ELSE insts[i]]
  <2>1. \A i \in DOMAIN insts :
          insts[i] \in Instance /\ revived(insts[i]) \in Instance /\ revived(insts[i]).active
    BY InstanceOps
  <2>2. f = [i \in DOMAIN insts |-> f[i]] /\ \A i \in DOMAIN insts : f[i] \in Instance
    BY <2>1
  <2>3. f \in Seq(Instance) /\ DOMAIN f = DOMAIN insts
    <3> HIDE DEF f
    <3> QED
      BY <2>2, MappedInsts
  <2>4. \E i \in DOMAIN f : f[i].active
    BY <1>1, <2>1, <2>3
  <2>5. mergedInsts(insts, p) = f
    BY <1>1 DEF mergedInsts
  <2> QED
    BY <2>3, <2>4, <2>5 DEF AnyActive
<1>2. CASE ~\E i \in DOMAIN insts : insts[i].posting = p
  <2> DEFINE a == Append(insts, seenInstance(p))
  <2>1. seenInstance(p) \in Instance /\ seenInstance(p).active
    BY SeenInstance
  <2>2. a \in Seq(Instance) /\ Len(insts) + 1 \in DOMAIN a /\ a[Len(insts) + 1] = seenInstance(p)
    BY <2>1
  <2>3. mergedInsts(insts, p) = a
    BY <1>2 DEF mergedInsts
  <2> QED
    BY <2>1, <2>2, <2>3 DEF AnyActive
<1> QED
  BY <1>1, <1>2

\* Reviving the first instance of a source leaves the active ones active.
LEMMA RevivedStaysActive ==
    ASSUME NEW insts \in Seq(Instance), NEW s, AnyActive(insts)
    PROVE  AnyActive([i \in DOMAIN insts |->
                        IF i = First(insts, s) THEN revived(insts[i]) ELSE insts[i]])
<1>1. PICK i \in DOMAIN insts : insts[i].active
  BY DEF AnyActive
<1>2. revived(insts[i]).active
  BY InstanceOps
<1> QED
  BY <1>1, <1>2 DEF AnyActive

LEMMA SightingCoherent ==
    ASSUME NEW j, Coherent(j), NEW p \in Posting
    PROVE  /\ Coherent(observeSeen(mergeJobs(j, p), sourceOf[p]))
           /\ LET mi == mergedInsts(j.insts, p) IN
              observeSeen(mergeJobs(j, p), sourceOf[p]).insts =
                [i \in DOMAIN mi |->
                   IF i = First(mi, sourceOf[p]) THEN revived(mi[i]) ELSE mi[i]]
<1> DEFINE s == sourceOf[p]
           mj == mergeJobs(j, p)
           si == [i \in DOMAIN mj.insts |->
                    IF i = First(mj.insts, s) THEN revived(mj.insts[i]) ELSE mj.insts[i]]
           sj == observeSeen(mj, s)
<1>1. j \in Job /\ j.insts \in Seq(Instance)
  BY DEF Coherent, Job
<1>2. mergedInsts(j.insts, p) \in Seq(Instance) /\ AnyActive(mergedInsts(j.insts, p))
  BY <1>1, MergedInsts
<1>3. /\ mj \in Job /\ mj.insts = mergedInsts(j.insts, p) /\ mj.closed = FALSE
  BY <1>1, <1>2 DEF mergeJobs, Job, JOB_STATUS
<1> HIDE DEF mj, s
<1>4. si \in Seq(Instance) /\ AnyActive(si)
  BY <1>2, <1>3, AtFirst, RevivedStaysActive
<1>5. /\ sj \in Job /\ sj.insts = si
      /\ sj.status = "ACTIVE" /\ sj.closed = FALSE
  <2> HIDE DEF si
  <2>1. observeSeen(mj, s) =
          [mj EXCEPT !.insts = si, !.status = "ACTIVE",
                     !.closed = IF mj.status \in {"REMOVED", "STALE"} THEN FALSE ELSE @,
                     !.old = FALSE]
    BY DEF observeSeen, si
  <2> QED
    BY <2>1, <1>3, <1>4 DEF Job, JOB_STATUS
<1>6. Coherent(sj)
  <2> HIDE DEF sj, si
  <2> QED
    BY <1>4, <1>5 DEF Coherent
<1>7. sj.insts = LET mi == mergedInsts(j.insts, p) IN
                 [i \in DOMAIN mi |-> IF i = First(mi, s) THEN revived(mi[i]) ELSE mi[i]]
  BY <1>3, <1>5
<1> QED
  BY <1>6, <1>7 DEF sj, mj, s

LEMMA MissingCoherent ==
    ASSUME NEW j, Coherent(j), Candidate(j), NEW s
    PROVE  Coherent(observeMissing(j, s))
<1> DEFINE mi == [i \in DOMAIN j.insts |->
                    IF i = First(j.insts, s) THEN missed(j.insts[i]) ELSE j.insts[i]]
<1>1. j \in Job /\ j.insts \in Seq(Instance) /\ j.closed = FALSE
  BY DEF Coherent, Job, Candidate
<1>2. mi \in Seq(Instance)
  BY <1>1, AtFirst
<1>3. observeMissing(j, s) =
        IF AnyActive(mi)
        THEN [j EXCEPT !.insts = mi, !.status = IF @ = "ACTIVE" THEN "LIKELY_ACTIVE" ELSE @]
        ELSE [j EXCEPT !.insts = mi, !.status = "STALE", !.flagged = TRUE]
  BY DEF observeMissing
<1> HIDE DEF mi
<1> QED
  BY <1>1, <1>2, <1>3 DEF Coherent, Candidate, Job, JOB_STATUS, Shown

LEMMA FailureCoherent ==
    ASSUME NEW j, Coherent(j)
    PROVE  Coherent(observeSourceFailure(j))
BY DEF observeSourceFailure, Coherent, Job, JOB_STATUS, Shown

LEMMA VerifiedCoherent ==
    ASSUME NEW j, Coherent(j), Candidate(j), NEW s, Carries(j, s), NEW r
    PROVE  Coherent(applyVerification(j, s, r))
<1>1. j \in Job /\ j.insts \in Seq(Instance) /\ j.closed = FALSE
  BY DEF Coherent, Job, Candidate
<1>2. CASE r.ok
  <2> DEFINE vi == [i \in DOMAIN j.insts |->
                      IF i = First(j.insts, s) THEN revived(j.insts[i]) ELSE j.insts[i]]
  <2>1. vi \in Seq(Instance)
    BY <1>1, AtFirst
  <2>2. AnyActive(vi)
    <3>1. First(j.insts, s) \in DOMAIN j.insts
      BY <1>1, FirstExists DEF Carries
    <3>2. revived(j.insts[First(j.insts, s)]).active
      BY <1>1, <3>1, InstanceOps
    <3> QED
      BY <3>1, <3>2 DEF AnyActive
  <2>3. applyVerification(j, s, r) =
          [j EXCEPT !.insts = vi, !.status = IF @ = "NEW" THEN @ ELSE "ACTIVE",
                    !.flagged = FALSE, !.closed = FALSE]
    BY <1>2 DEF applyVerification, verifiedAlive
  <2> HIDE DEF vi
  <2> QED
    BY <1>1, <2>1, <2>2, <2>3 DEF Coherent, Job, JOB_STATUS, Shown
<1>3. CASE ~r.ok /\ (r.closed \/ r.http = "404")
  <2> DEFINE gi == [i \in DOMAIN j.insts |->
                      IF i = First(j.insts, s) THEN retired(j.insts[i]) ELSE j.insts[i]]
  <2>1. gi \in Seq(Instance)
    BY <1>1, AtFirst
  <2>2. applyVerification(j, s, r) =
          IF AnyActive(gi)
          THEN [j EXCEPT !.insts = gi, !.status = "LIKELY_ACTIVE"]
          ELSE [j EXCEPT !.insts = gi, !.status = "REMOVED", !.closed = TRUE, !.flagged = FALSE]
    BY <1>3 DEF applyVerification, verifiedGone
  <2> HIDE DEF gi
  <2> QED
    BY <1>1, <2>1, <2>2 DEF Coherent, Job, JOB_STATUS, Shown
<1>4. CASE ~r.ok /\ ~(r.closed \/ r.http = "404")
  BY <1>4, FailureCoherent DEF applyVerification
<1> QED
  BY <1>2, <1>3, <1>4

LEMMA SweptCoherent ==
    ASSUME NEW j, Coherent(j)
    PROVE  Coherent(sweepStaleness(j))
<1>1. CASE j.status \notin {"REMOVED", "STALE"} /\ j.old
  BY <1>1 DEF sweepStaleness, Coherent, Job, JOB_STATUS, Shown
<1>2. CASE ~(j.status \notin {"REMOVED", "STALE"} /\ j.old)
  BY <1>2 DEF sweepStaleness
<1> QED
  BY <1>1, <1>2
=============================================================================
