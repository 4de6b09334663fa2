------------------------- MODULE VerificationProofs -------------------------
(***************************************************************************)
(* Proofs about VerificationBudget, for any number of jobs, any budget and *)
(* window of candidates, and any intervals of which DORMANT's is the       *)
(* longest.  What a pass takes is found by two sorts with a cut after      *)
(* each; the argument about flagged jobs follows a job that was left out   *)
(* to the sort that left it out.                                           *)
(***************************************************************************)
EXTENDS VerificationBudget, FiniteSetTheorems, SequenceTheorems, TLAPS

USE BudgetAssumption

\* What a pass has still to check is due and in it once, between passes there is none,
\* and a removed job has no next check.
BudgetInv ==
    /\ BudgetTypeOK
    /\ BudgetWellSpent
    /\ phase = "crawl" => pass = <<>>
    /\ \A j \in JobId : docs[j].status = "REMOVED" => docs[j].left = 0

-----------------------------------------------------------------------------
(* The policy *)

LEMMA Numbers ==
    /\ MaxOverdue \in Nat /\ MaxSince \in Nat /\ Limit \in Nat
    /\ MaxSince = MaxOverdue + INTERVAL[DORMANT]
    /\ \A t \in VERIFY_TIER : INTERVAL[t] \in Nat \ {0} /\ INTERVAL[t] =< INTERVAL[DORMANT]
    /\ INTERVAL[DORMANT] \in Nat \ {0}
  <1>1. DORMANT \in VERIFY_TIER
    BY DEF DORMANT, URGENT, VERIFY_TIER
  <1> QED BY <1>1 DEF MaxSince

LEMMA TierFacts ==
    ASSUME NEW j \in JobId, NEW doc
    PROVE  /\ verificationTier(j, doc) \in VERIFY_TIER
           /\ verificationTier(j, doc) = URGENT <=> doc.status = "FLAGGED"
  <1> DEFINE score == base[j] + (IF doc.status = "LIKELY_ACTIVE" THEN 1 ELSE 0)
  <1>1. score \in Nat
    OBVIOUS
  <1> HIDE DEF score
  <1>2. score >= 5 \/ score = 4 \/ score \in {2, 3} \/ score = 1 \/ score = 0
    BY <1>1
  <1> DEFINE byScore == CASE score >= 5       -> HOT
                          [] score = 4        -> WARM
                          [] score \in {2, 3} -> STEADY
                          [] score = 1        -> COLD
                          [] score = 0        -> DORMANT
  <1>3. byScore \in DORMANT .. HOT
    BY <1>1, <1>2 DEF DORMANT, COLD, STEADY, WARM, HOT
  <1>4. verificationTier(j, doc) =
           CASE doc.status = "REMOVED" -> DORMANT
             [] doc.status = "FLAGGED" -> URGENT
             [] OTHER -> byScore
    BY DEF verificationTier, score
  <1> HIDE DEF byScore
  <1> QED BY <1>3, <1>4 DEF DORMANT, HOT, URGENT, VERIFY_TIER

LEMMA FlooredFacts ==
    ASSUME NEW n \in Int, n =< INTERVAL[DORMANT]
    PROVE  /\ Floored(n) \in -MaxOverdue .. INTERVAL[DORMANT]
           /\ Floored(n) >= n /\ (Floored(n) = n \/ Floored(n) = -MaxOverdue)
  BY Numbers DEF Floored

\* A schedule changes when the next check is, and nothing else of a job.
LEMMA ScheduleFacts ==
    ASSUME NEW j \in JobId, NEW doc \in JobDoc, NEW ago \in Nat
    PROVE  LET scheduled == applyVerificationSchedule(j, doc, ago)
           IN /\ scheduled \in JobDoc
              /\ scheduled.status = doc.status /\ scheduled.since = doc.since
              /\ doc.status = "REMOVED" => scheduled.left = 0
              /\ \/ doc.status = "REMOVED" \/ scheduled.left = -MaxOverdue
                 \/ scheduled.left + ago =< INTERVAL[DORMANT]
  <1> DEFINE n == INTERVAL[verificationTier(j, doc)] - ago
             next == IF doc.status = "REMOVED" THEN 0 ELSE Floored(n)
  <1>1. n \in Int /\ n =< INTERVAL[DORMANT] /\ n + ago =< INTERVAL[DORMANT]
    BY TierFacts, Numbers
  <1>2. /\ Floored(n) \in -MaxOverdue .. INTERVAL[DORMANT]
        /\ Floored(n) = n \/ Floored(n) = -MaxOverdue
    BY <1>1, FlooredFacts
  <1> HIDE DEF n
  <1>3. /\ next \in -MaxOverdue .. INTERVAL[DORMANT]
        /\ doc.status = "REMOVED" => next = 0
        /\ doc.status = "REMOVED" \/ next = -MaxOverdue \/ next + ago =< INTERVAL[DORMANT]
    BY <1>1, <1>2, Numbers
  <1>4. applyVerificationSchedule(j, doc, ago) = [doc EXCEPT !.left = next]
    BY DEF applyVerificationSchedule, n
  <1> HIDE DEF next
  <1> QED BY <1>3, <1>4 DEF JobDoc

LEMMA LaterFacts ==
    ASSUME NEW doc \in JobDoc
    PROVE  /\ Later(doc) \in JobDoc
           /\ Later(doc).status = doc.status
           /\ IF doc.status = "REMOVED" THEN Later(doc).left = 0 ELSE Later(doc).left =< doc.left
  <1> DEFINE since == IF doc.verified /\ doc.since < MaxSince THEN doc.since + 1 ELSE doc.since
             left == IF doc.status = "REMOVED" THEN 0 ELSE Floored(doc.left - 1)
  <1>1. doc.since \in 0 .. MaxSince /\ doc.left \in -MaxOverdue .. INTERVAL[DORMANT]
    BY DEF JobDoc
  <1>2. since \in 0 .. MaxSince
    BY <1>1, Numbers
  <1>3. doc.left - 1 \in Int /\ doc.left - 1 =< INTERVAL[DORMANT]
    BY <1>1, Numbers
  <1>4. /\ Floored(doc.left - 1) \in -MaxOverdue .. INTERVAL[DORMANT]
        /\ Floored(doc.left - 1) = doc.left - 1 \/ Floored(doc.left - 1) = -MaxOverdue
    BY <1>3, FlooredFacts
  <1>5. /\ left \in -MaxOverdue .. INTERVAL[DORMANT]
        /\ IF doc.status = "REMOVED" THEN left = 0 ELSE left =< doc.left
    BY <1>1, <1>4, Numbers
  <1>6. Later(doc) = [doc EXCEPT !.since = since, !.left = left]
    BY DEF Later
  <1> HIDE DEF since, left
  <1> QED BY <1>2, <1>5, <1>6 DEF JobDoc

LEMMA OutcomeType ==
    ASSUME NEW doc \in JobDoc, NEW outcome \in answered(doc) \cup unanswered(doc)
    PROVE  outcome \in JobDoc
  <1>1. 0 \in 0 .. MaxSince
    BY Numbers
  <1>2. CASE outcome \in answered(doc)
    BY <1>1, <1>2 DEF answered, JobDoc
  <1>3. CASE outcome = [doc EXCEPT !.status = IF @ = "FLAGGED" THEN @ ELSE "LIKELY_ACTIVE",
                                   !.verified = TRUE, !.since = 0]
    BY <1>1, <1>3 DEF JobDoc
  <1>4. CASE \E status \in Doubted(doc.status) : outcome = [doc EXCEPT !.status = status]
    <2>1. Doubted(doc.status) \subseteq {"ACTIVE", "LIKELY_ACTIVE", "FLAGGED", "REMOVED"}
      BY DEF Doubted, JobDoc
    <2> QED BY <1>4, <2>1 DEF JobDoc
  <1> QED BY <1>2, <1>3, <1>4 DEF unanswered

-----------------------------------------------------------------------------
(* A pass *)

LEMMA TakenFacts ==
    ASSUME NEW fetched \in SUBSET JobId, NEW taken, allocateBudget(taken, fetched)
    PROVE  /\ taken \subseteq fetched /\ IsFiniteSet(taken)
           /\ Cardinality(taken) \in Nat /\ Cardinality(taken) =< Limit
           /\ \A j \in taken : isVerificationDue(docs[j])
           /\ \A i \in taken, j \in fetched \ taken : isVerificationDue(docs[j]) => ~Heavier(j, i)
  <1> DEFINE all == {j \in fetched : isVerificationDue(docs[j])}
  <1>1. /\ taken \subseteq all /\ all \in SUBSET JobId
        /\ Cardinality(taken) = (IF Cardinality(all) < Limit THEN Cardinality(all) ELSE Limit)
        /\ \A i \in taken, j \in all \ taken : ~Heavier(j, i)
    BY DEF allocateBudget, IsFirst
  <1>2. IsFiniteSet(all) /\ Cardinality(all) \in Nat
    BY <1>1, FS_Subset, FS_CardinalityType
  <1>3. IsFiniteSet(taken)
    BY <1>1, <1>2, FS_Subset
  <1> QED BY <1>1, <1>2, <1>3, Numbers

LEMMA OverdueType == ASSUME NEW doc \in JobDoc PROVE overdueBy(doc) \in Nat
  <1>1. doc.left \in Int
    BY Numbers DEF JobDoc
  <1> QED BY <1>1 DEF overdueBy

LEMMA HeavierIsStrict ==
    ASSUME BudgetTypeOK, NEW i \in JobId, NEW j \in JobId
    PROVE  /\ ~Heavier(i, i)
           /\ Heavier(i, j) => ~Heavier(j, i)
           /\ docs[i].status = "FLAGGED" /\ docs[j].status # "FLAGGED" => Heavier(i, j)
  <1> DEFINE v(k) == verificationTier(k, docs[k])
             o(k) == overdueBy(docs[k])
  <1>1. \A k \in {i, j} : o(k) \in Nat /\ k \in Nat
    BY OverdueType DEF BudgetTypeOK
  <1>2. \A k \in {i, j} : v(k) \in DORMANT .. URGENT /\ (v(k) = URGENT <=> docs[k].status = "FLAGGED")
    BY TierFacts DEF VERIFY_TIER
  <1>3. \A k, l \in {i, j} : Heavier(k, l) <=>
           v(k) > v(l) \/ (v(k) = v(l) /\ (o(k) > o(l) \/ (o(k) = o(l) /\ k < l)))
    BY DEF Heavier
  <1> HIDE DEF v, o
  <1>4. /\ v(i) \in 1 .. 6 /\ v(j) \in 1 .. 6 /\ o(i) \in Nat /\ o(j) \in Nat /\ i \in Nat /\ j \in Nat
        /\ v(i) = 6 <=> docs[i].status = "FLAGGED"
        /\ v(j) = 6 <=> docs[j].status = "FLAGGED"
    BY <1>1, <1>2 DEF DORMANT, URGENT
  <1>5. ~Heavier(i, i)
    <2>1. Heavier(i, i) <=>
             v(i) > v(i) \/ (v(i) = v(i) /\ (o(i) > o(i) \/ (o(i) = o(i) /\ i < i)))
      BY <1>3
    <2> QED BY <1>4, <2>1
  <1>6. Heavier(i, j) <=>
           v(i) > v(j) \/ (v(i) = v(j) /\ (o(i) > o(j) \/ (o(i) = o(j) /\ i < j)))
    BY <1>3
  <1>7. Heavier(j, i) <=>
           v(j) > v(i) \/ (v(j) = v(i) /\ (o(j) > o(i) \/ (o(j) = o(i) /\ j < i)))
    BY <1>3
  <1>8. Heavier(i, j) => ~Heavier(j, i)
    BY <1>4, <1>6, <1>7
  <1>9. v(i) = 6 /\ v(j) # 6 => v(i) > v(j)
    BY <1>4
  <1> QED BY <1>4, <1>5, <1>6, <1>8, <1>9

\* The order in which a pass comes to what it took.
LEMMA OrderFacts ==
    ASSUME BudgetTypeOK,
           NEW taken \in SUBSET JobId, IsFiniteSet(taken), Cardinality(taken) \in Nat,
           NEW s \in [1 .. Cardinality(taken) -> taken],
           \A m, n \in DOMAIN s : m < n => Heavier(s[m], s[n])
    PROVE  /\ s \in Seq(JobId) /\ Len(s) = Cardinality(taken) /\ DOMAIN s = 1 .. Len(s)
           /\ \A m, n \in DOMAIN s : s[m] = s[n] => m = n
           /\ \A j \in taken : \E m \in DOMAIN s : s[m] = j
  <1> DEFINE n == Cardinality(taken)
  <1>0. n \in Nat /\ s \in [1 .. n -> taken] /\ s \in [1 .. n -> JobId]
    OBVIOUS
  <1> HIDE DEF n
  <1>1. s \in Seq(JobId) /\ Len(s) = n /\ DOMAIN s = 1 .. n
    BY <1>0
  <1>2. ASSUME NEW k \in 1 .. n, NEW m \in 1 .. n, s[k] = s[m], k # m PROVE FALSE
    <2>1. s[k] \in JobId
      BY <1>0
    <2>2. k < m \/ m < k
      BY <1>0, <1>2
    <2>3. Heavier(s[k], s[k])
      BY <1>1, <1>2, <2>2
    <2> QED BY <2>1, <2>3, HeavierIsStrict
  <1>3. s \in Injection(1 .. n, taken)
    BY <1>0, <1>1, <1>2 DEF Injection, IsInjective
  <1>4. IsFiniteSet(1 .. n) /\ Cardinality(1 .. n) = n
    BY <1>0, FS_Interval
  <1>5. s \in Surjection(1 .. n, taken)
    BY <1>3, <1>4, FS_Injection DEF n
  <1>6. \A j \in taken : \E m \in 1 .. n : s[m] = j
    BY <1>5 DEF Surjection
  <1> QED BY <1>1, <1>2, <1>6 DEF n

\* What a pass takes, as the two sorts leave it.
LEMMA BeginFacts ==
    ASSUME BudgetTypeOK, beginPass
    PROVE  /\ pass' \in Seq(JobId) /\ Len(pass') =< Limit
           /\ \A m, n \in DOMAIN pass' : pass'[m] = pass'[n] => m = n
           /\ \A m, n \in DOMAIN pass' : m < n => Heavier(pass'[m], pass'[n])
           /\ \A n \in DOMAIN pass' : isVerificationDue(docs[pass'[n]])
           /\ \E fetched, taken \in SUBSET JobId :
                 /\ ListedCandidates(fetched) /\ allocateBudget(taken, fetched)
                 /\ Len(pass') = Cardinality(taken)
                 /\ \A n \in DOMAIN pass' : pass'[n] \in taken
                 /\ \A j \in taken : \E m \in DOMAIN pass' : pass'[m] = j
  <1>1. PICK fetched \in SUBSET JobId, taken \in SUBSET JobId :
           /\ ListedCandidates(fetched) /\ allocateBudget(taken, fetched)
           /\ pass' \in {s \in [1 .. Cardinality(taken) -> taken] :
                            \A m, n \in DOMAIN s : m < n => Heavier(s[m], s[n])}
    BY DEF beginPass
  <1>2. /\ IsFiniteSet(taken) /\ Cardinality(taken) \in Nat /\ Cardinality(taken) =< Limit
        /\ \A j \in taken : isVerificationDue(docs[j])
    BY <1>1, TakenFacts
  <1>3. /\ pass' \in Seq(JobId) /\ Len(pass') = Cardinality(taken) /\ DOMAIN pass' = 1 .. Len(pass')
        /\ \A m, n \in DOMAIN pass' : pass'[m] = pass'[n] => m = n
        /\ \A j \in taken : \E m \in DOMAIN pass' : pass'[m] = j
    BY <1>1, <1>2, OrderFacts
  <1>4. \A n \in DOMAIN pass' : pass'[n] \in taken
    BY <1>1
  <1> QED BY <1>1, <1>2, <1>3, <1>4

LEMMA TailFacts ==
    ASSUME pass \in Seq(JobId), pass # <<>>
    PROVE  /\ Tail(pass) \in Seq(JobId) /\ Len(pass) \in Nat /\ Len(Tail(pass)) = Len(pass) - 1
           /\ 1 \in DOMAIN pass /\ Head(pass) = pass[1] /\ Head(pass) \in JobId
           /\ \A n \in DOMAIN Tail(pass) :
                 n + 1 \in DOMAIN pass /\ n + 1 # 1 /\ Tail(pass)[n] = pass[n + 1]
  OBVIOUS

-----------------------------------------------------------------------------
(* The invariant *)

LEMMA InitInv == BudgetInit => BudgetInv
  <1> SUFFICES ASSUME BudgetInit PROVE BudgetInv
    OBVIOUS
  <1> DEFINE doc == [status |-> "ACTIVE", verified |-> FALSE, since |-> 0, left |-> 0]
  <1>1. doc \in JobDoc
    BY Numbers DEF JobDoc
  <1>2. \A j \in JobId : docs[j] = applyVerificationSchedule(j, doc, 0)
    BY DEF BudgetInit
  <1>3. doc.status = "ACTIVE"
    OBVIOUS
  <1>4. docs = [j \in JobId |-> docs[j]]
    BY DEF BudgetInit
  <1> HIDE DEF doc
  <1>5. ASSUME NEW j \in JobId PROVE docs[j] \in JobDoc /\ docs[j].status = "ACTIVE"
    <2>1. LET scheduled == applyVerificationSchedule(j, doc, 0)
          IN scheduled \in JobDoc /\ scheduled.status = doc.status
      BY <1>1, ScheduleFacts
    <2> QED BY <1>2, <1>3, <2>1
  <1>6. BudgetTypeOK
    BY <1>4, <1>5 DEF BudgetInit, BudgetTypeOK
  <1>7. BudgetWellSpent
    BY Numbers DEF BudgetInit, BudgetWellSpent
  <1> QED BY <1>5, <1>6, <1>7 DEF BudgetInit, BudgetInv

LEMMA BeginKeeps == ASSUME BudgetInv, beginPass PROVE BudgetInv'
  <1>1. BudgetTypeOK
    BY DEF BudgetInv
  <1>2. /\ pass' \in Seq(JobId) /\ Len(pass') =< Limit
        /\ \A m, n \in DOMAIN pass' : pass'[m] = pass'[n] => m = n
        /\ \A n \in DOMAIN pass' : isVerificationDue(docs[pass'[n]])
    BY <1>1, BeginFacts
  <1>3. docs' = docs /\ phase' = "verify" /\ checked' = NoJob /\ flags' = flags /\ cuts' = cuts
    BY DEF beginPass
  <1>4. BudgetTypeOK'
    BY <1>1, <1>2, <1>3 DEF BudgetTypeOK
  <1>5. BudgetWellSpent'
    BY <1>2, <1>3 DEF BudgetWellSpent, isVerificationDue
  <1> QED BY <1>3, <1>4, <1>5 DEF BudgetInv

\* What a check does: the job it came to is scheduled anew, and no other changes.
LEMMA CheckFacts ==
    ASSUME BudgetTypeOK, NEW j \in JobId, conclude(j) \/ waver(j)
    PROVE  /\ phase = "verify" /\ phase' = "verify" /\ checked' = j /\ j = Head(pass)
           /\ pass # <<>> /\ pass' = Tail(pass) /\ flags' = flags /\ cuts' = cuts
           /\ docs' \in [JobId -> JobDoc]
           /\ docs'[j].status = "REMOVED" => docs'[j].left = 0
           /\ \A k \in JobId \ {j} : docs'[k] = docs[k]
  <1>1. PICK doc \in answered(docs[j]) \cup unanswered(docs[j]) :
           docs' = [docs EXCEPT ![j] = applyVerificationSchedule(j, doc, 0)]
    BY DEF conclude, waver, checkJob
  <1>2. docs \in [JobId -> JobDoc]
    BY DEF BudgetTypeOK
  <1>3. doc \in JobDoc
    BY <1>2, OutcomeType
  <1>4. /\ applyVerificationSchedule(j, doc, 0) \in JobDoc
        /\ applyVerificationSchedule(j, doc, 0).status = doc.status
        /\ doc.status = "REMOVED" => applyVerificationSchedule(j, doc, 0).left = 0
    BY <1>3, ScheduleFacts
  <1>5. /\ phase = "verify" /\ phase' = "verify" /\ checked' = j /\ j = Head(pass)
        /\ pass # <<>> /\ pass' = Tail(pass) /\ flags' = flags /\ cuts' = cuts
    BY DEF conclude, waver, checkJob
  <1> QED BY <1>1, <1>2, <1>4, <1>5

LEMMA CheckKeeps ==
    ASSUME BudgetInv, NEW j \in JobId, conclude(j) \/ waver(j)
    PROVE  BudgetInv'
  <1>1. BudgetTypeOK /\ BudgetWellSpent
    BY DEF BudgetInv
  <1>2. /\ phase = "verify" /\ phase' = "verify" /\ checked' = j /\ j = Head(pass)
        /\ pass # <<>> /\ pass' = Tail(pass) /\ flags' = flags /\ cuts' = cuts
        /\ docs' \in [JobId -> JobDoc]
        /\ docs'[j].status = "REMOVED" => docs'[j].left = 0
        /\ \A k \in JobId \ {j} : docs'[k] = docs[k]
    BY <1>1, CheckFacts
  <1>3. /\ pass' \in Seq(JobId) /\ Len(pass) \in Nat /\ Len(pass') = Len(pass) - 1
        /\ 1 \in DOMAIN pass /\ j = pass[1]
        /\ \A n \in DOMAIN pass' :
              n + 1 \in DOMAIN pass /\ n + 1 # 1 /\ pass'[n] = pass[n + 1]
    BY <1>1, <1>2, TailFacts DEF BudgetTypeOK
  <1>4. BudgetTypeOK'
    BY <1>1, <1>2, <1>3 DEF BudgetTypeOK
  <1>5. \A n \in DOMAIN pass' : pass'[n] \in JobId \ {j} /\ isVerificationDue(docs[pass'[n]])
    <2> TAKE n \in DOMAIN pass'
    <2>1. pass'[n] # j
      BY <1>1, <1>3 DEF BudgetWellSpent
    <2>2. pass'[n] \in JobId
      BY <1>3
    <2> QED BY <1>1, <1>2, <1>3, <2>1, <2>2 DEF BudgetWellSpent
  <1>6. \A n \in DOMAIN pass' : isVerificationDue(docs'[pass'[n]])
    BY <1>2, <1>5
  <1>7. \A m, n \in DOMAIN pass' : pass'[m] = pass'[n] => m = n
    <2> TAKE m, n \in DOMAIN pass'
    <2>1. m \in Int /\ n \in Int
      BY <1>3
    <2>2. pass[m + 1] = pass[n + 1] => m + 1 = n + 1
      BY <1>1, <1>3 DEF BudgetWellSpent
    <2>3. pass'[m] = pass[m + 1] /\ pass'[n] = pass[n + 1]
      BY <1>3
    <2> QED BY <2>1, <2>2, <2>3
  <1>8. Len(pass') =< Limit
    BY <1>1, <1>3, Numbers DEF BudgetWellSpent
  <1>9. BudgetWellSpent'
    BY <1>6, <1>7, <1>8 DEF BudgetWellSpent, isVerificationDue
  <1>10. \A k \in JobId : docs'[k].status = "REMOVED" => docs'[k].left = 0
    BY <1>2 DEF BudgetInv
  <1> QED BY <1>2, <1>4, <1>9, <1>10 DEF BudgetInv

LEMMA SkipKeeps == ASSUME BudgetInv, skip PROVE BudgetInv'
  <1>1. BudgetTypeOK /\ BudgetWellSpent
    BY DEF BudgetInv
  <1>2. /\ phase' = "verify" /\ pass # <<>> /\ pass' = Tail(pass) /\ phase = "verify"
        /\ docs' = docs /\ checked' = checked /\ flags' = flags /\ cuts' = cuts
    BY DEF skip
  <1>3. /\ pass' \in Seq(JobId) /\ Len(pass) \in Nat /\ Len(pass') = Len(pass) - 1
        /\ \A n \in DOMAIN pass' : n + 1 \in DOMAIN pass /\ pass'[n] = pass[n + 1]
    BY <1>1, <1>2, TailFacts DEF BudgetTypeOK
  <1>4. BudgetTypeOK'
    BY <1>1, <1>2, <1>3 DEF BudgetTypeOK
  <1>5. \A n \in DOMAIN pass' : isVerificationDue(docs[pass'[n]])
    BY <1>1, <1>2, <1>3 DEF BudgetWellSpent
  <1>6. \A m, n \in DOMAIN pass' : pass'[m] = pass'[n] => m = n
    <2> TAKE m, n \in DOMAIN pass'
    <2>1. m \in Int /\ n \in Int
      BY <1>3
    <2>2. pass[m + 1] = pass[n + 1] => m + 1 = n + 1
      BY <1>1, <1>3 DEF BudgetWellSpent
    <2>3. pass'[m] = pass[m + 1] /\ pass'[n] = pass[n + 1]
      BY <1>3
    <2> QED BY <2>1, <2>2, <2>3
  <1>7. Len(pass') =< Limit
    BY <1>1, <1>3, Numbers DEF BudgetWellSpent
  <1>8. BudgetWellSpent'
    BY <1>2, <1>5, <1>6, <1>7 DEF BudgetWellSpent, isVerificationDue
  <1> QED BY <1>2, <1>4, <1>8 DEF BudgetInv

LEMMA RestFacts ==
    ASSUME BudgetInv, rest
    PROVE  /\ docs' \in [JobId -> JobDoc]
           /\ \A j \in JobId : docs'[j].left =< docs[j].left
           /\ \A j \in JobId : docs'[j].status = "REMOVED" => docs'[j].left = 0
  <1>1. docs' = [j \in JobId |-> Later(docs[j])]
    BY DEF rest
  <1>2. \A j \in JobId : docs[j] \in JobDoc /\ docs[j].left \in Int
    <2>1. \A j \in JobId : docs[j] \in JobDoc
      BY DEF BudgetInv, BudgetTypeOK
    <2>2. \A doc \in JobDoc : doc.left \in Int
      BY Numbers DEF JobDoc
    <2> QED BY <2>1, <2>2
  <1>3. \A j \in JobId : docs[j].status = "REMOVED" => docs[j].left = 0
    BY DEF BudgetInv
  <1>4. ASSUME NEW j \in JobId
        PROVE  /\ docs'[j] \in JobDoc /\ docs'[j].left =< docs[j].left
               /\ docs'[j].status = "REMOVED" => docs'[j].left = 0
    <2>1. /\ Later(docs[j]) \in JobDoc
          /\ Later(docs[j]).status = docs[j].status
          /\ docs[j].status = "REMOVED" => Later(docs[j]).left = 0
          /\ docs[j].status # "REMOVED" => Later(docs[j]).left =< docs[j].left
      BY <1>2, LaterFacts
    <2> QED BY <1>1, <1>2, <1>3, <2>1
  <1> QED BY <1>1, <1>4

LEMMA RestKeeps ==
    ASSUME BudgetInv, rest, cuts' \in Nat
    PROVE  BudgetInv'
  <1>1. BudgetTypeOK
    BY DEF BudgetInv
  <1>2. pass' = <<>> /\ phase' = "crawl" /\ checked' = checked /\ flags' = flags
    BY DEF rest
  <1>3. /\ docs' \in [JobId -> JobDoc]
        /\ \A j \in JobId : docs'[j].status = "REMOVED" => docs'[j].left = 0
    BY RestFacts
  <1>4. BudgetTypeOK'
    BY <1>1, <1>2, <1>3 DEF BudgetTypeOK
  <1>5. BudgetWellSpent'
    BY <1>2, Numbers DEF BudgetWellSpent
  <1> QED BY <1>2, <1>3, <1>4, <1>5 DEF BudgetInv

\* A crawl that sees a job counts its schedule from the last verification.
LEMMA SeenFacts ==
    ASSUME BudgetTypeOK, NEW j \in JobId, NEW material \in BOOLEAN, seen(j, material)
    PROVE  /\ docs' \in [JobId -> JobDoc]
           /\ \A k \in JobId \ {j} : docs'[k] = docs[k]
           /\ docs'[j].status # "REMOVED"
           /\ docs[j].verified =>
                 \/ docs'[j].left = -MaxOverdue
                 \/ docs'[j].since + docs'[j].left =< INTERVAL[DORMANT]
  <1> DEFINE met == Sighted(docs[j], material)
             ago == anchor(docs[j])
             scheduled == applyVerificationSchedule(j, met, ago)
  <1>1. docs \in [JobId -> JobDoc] /\ docs[j].since \in Nat
    BY Numbers DEF BudgetTypeOK, JobDoc
  <1>2. docs' = [docs EXCEPT ![j] = scheduled]
    BY DEF seen
  <1>3. /\ met \in JobDoc /\ met.status \in {"FLAGGED", "ACTIVE"}
        /\ met.since = docs[j].since
    BY <1>1 DEF JobDoc, Sighted
  <1>4. ago \in Nat /\ (docs[j].verified => ago = docs[j].since)
    BY <1>1 DEF anchor
  <1> HIDE DEF met, ago
  <1>5. /\ scheduled \in JobDoc
        /\ scheduled.status = met.status /\ scheduled.since = met.since
        /\ \/ met.status = "REMOVED" \/ scheduled.left = -MaxOverdue
           \/ scheduled.left + ago =< INTERVAL[DORMANT]
    BY <1>3, <1>4, ScheduleFacts
  <1>6. scheduled.left \in Int
    BY <1>5, Numbers DEF JobDoc
  <1> HIDE DEF scheduled
  <1>7. docs' \in [JobId -> JobDoc] /\ docs'[j] = scheduled
    BY <1>1, <1>2, <1>5
  <1> QED BY <1>1, <1>2, <1>3, <1>4, <1>5, <1>6, <1>7

LEMMA SightingFacts ==
    ASSUME BudgetTypeOK, NEW j \in JobId, NEW gone \in BOOLEAN, losesSighting(j, gone)
    PROVE  /\ docs' \in [JobId -> JobDoc]
           /\ \A k \in JobId : docs'[k].left = docs[k].left
           /\ \A k \in JobId : docs'[k].status = "REMOVED" => docs[k].status = "REMOVED"
  <1> DEFINE status == IF gone THEN "FLAGGED" ELSE "LIKELY_ACTIVE"
  <1>1. docs \in [JobId -> JobDoc]
    BY DEF BudgetTypeOK
  <1>2. docs' = [docs EXCEPT ![j].status = status]
    BY DEF losesSighting
  <1>3. status \in {"FLAGGED", "LIKELY_ACTIVE"}
    OBVIOUS
  <1> HIDE DEF status
  <1> QED BY <1>1, <1>2, <1>3 DEF JobDoc

LEMMA CrawlKeeps ==
    ASSUME BudgetInv, NEW j \in JobId, NEW b \in BOOLEAN,
           seen(j, b) \/ losesSighting(j, b)
    PROVE  BudgetInv'
  <1>1. BudgetTypeOK
    BY DEF BudgetInv
  <1>2. /\ pass' = pass /\ phase' = phase /\ phase = "crawl"
        /\ checked' = checked /\ cuts' = cuts
        /\ flags' = flags + (IF b THEN 1 ELSE 0)
    BY DEF seen, losesSighting
  <1>3. pass = <<>>
    BY <1>2 DEF BudgetInv
  <1>4. /\ docs' \in [JobId -> JobDoc]
        /\ \A k \in JobId : docs'[k].status = "REMOVED" => docs'[k].left = 0
    <2>1. CASE seen(j, b)
      <3>1. /\ docs' \in [JobId -> JobDoc] /\ docs'[j].status # "REMOVED"
            /\ \A k \in JobId \ {j} : docs'[k] = docs[k]
        BY <1>1, <2>1, SeenFacts
      <3> QED BY <3>1 DEF BudgetInv
    <2>2. CASE losesSighting(j, b)
      BY <1>1, <2>2, SightingFacts DEF BudgetInv
    <2> QED BY <2>1, <2>2
  <1>5. flags' \in Nat
    BY <1>1, <1>2 DEF BudgetTypeOK
  <1>6. BudgetTypeOK'
    BY <1>1, <1>2, <1>4, <1>5 DEF BudgetTypeOK
  <1>7. BudgetWellSpent'
    BY <1>2, <1>3, Numbers DEF BudgetWellSpent
  <1> QED BY <1>2, <1>3, <1>4, <1>6, <1>7 DEF BudgetInv

LEMMA InvKeeps == BudgetInv /\ [BudgetNext]_budgetVars => BudgetInv'
  <1> SUFFICES ASSUME BudgetInv, [BudgetNext]_budgetVars PROVE BudgetInv'
    OBVIOUS
  <1>1. CASE beginPass
    BY <1>1, BeginKeeps
  <1>2. CASE skip
    BY <1>2, SkipKeeps
  <1>3. ASSUME NEW j \in JobId, conclude(j) \/ waver(j) PROVE BudgetInv'
    BY <1>3, CheckKeeps
  <1>4. CASE endPass
    BY <1>4, RestKeeps DEF endPass, BudgetInv, BudgetTypeOK
  <1>5. CASE cutOff
    BY <1>5, RestKeeps DEF cutOff, BudgetInv, BudgetTypeOK
  <1>6. ASSUME NEW j \in JobId, NEW b \in BOOLEAN, seen(j, b) \/ losesSighting(j, b)
        PROVE  BudgetInv'
    BY <1>6, CrawlKeeps
  <1>7. CASE UNCHANGED budgetVars
    BY <1>7 DEF budgetVars, BudgetInv, BudgetTypeOK, BudgetWellSpent, isVerificationDue
  <1> QED BY <1>1, <1>2, <1>3, <1>4, <1>5, <1>6, <1>7 DEF BudgetNext, PassStep, check

LEMMA BudgetInvariant == BudgetSpec => []BudgetInv
  BY InitInv, InvKeeps, PTL DEF BudgetSpec

\* The documents, the pass and the history keep their types in every state of the
\* passes and the crawls between them (verificationPolicy.js, VerificationWorker.run).
THEOREM BudgetTypeCorrect == BudgetSpec => []BudgetTypeOK
  <1>1. BudgetInv => BudgetTypeOK
    BY DEF BudgetInv
  <1> QED BY <1>1, BudgetInvariant, PTL

\* A pass never has more jobs than it may check, none twice, and every job is still
\* due when its turn comes, whatever was checked before it (allocateVerificationBudget).
THEOREM BudgetIsWellSpent == BudgetSpec => []BudgetWellSpent
  <1>1. BudgetInv => BudgetWellSpent
    BY DEF BudgetInv
  <1> QED BY <1>1, BudgetInvariant, PTL

-----------------------------------------------------------------------------
(* What steps do *)

LEMMA VerifyBegins ==
    ASSUME [BudgetNext]_budgetVars, phase = "crawl", phase' = "verify"
    PROVE  beginPass
  BY DEF BudgetNext, PassStep, check, skip, conclude, waver, checkJob, endPass, cutOff,
         rest, seen, losesSighting, budgetVars

\* A flagged job that a pass did not take was left out by the query or by the policy;
\* either would rather have left out a job that is not flagged.
LEMMA FlaggedComesFirst ==
    ASSUME BudgetTypeOK, beginPass,
           NEW n \in DOMAIN pass', NEW j \in JobId,
           docs[pass'[n]].status # "FLAGGED", docs[j].status = "FLAGGED"
    PROVE  \E m \in DOMAIN pass' : m < n /\ pass'[m] = j
  <1> DEFINE i == pass'[n]
  <1>1. /\ pass' \in Seq(JobId)
        /\ \A k, l \in DOMAIN pass' : k < l => Heavier(pass'[k], pass'[l])
    BY BeginFacts
  <1>2. PICK fetched \in SUBSET JobId, taken \in SUBSET JobId :
           /\ ListedCandidates(fetched) /\ allocateBudget(taken, fetched)
           /\ \A k \in DOMAIN pass' : pass'[k] \in taken
           /\ \A k \in taken : \E m \in DOMAIN pass' : pass'[m] = k
    BY BeginFacts
  <1>3. /\ i \in taken /\ i \in JobId /\ taken \subseteq fetched
        /\ \A k \in taken, l \in fetched \ taken : isVerificationDue(docs[l]) => ~Heavier(l, k)
    BY <1>2, TakenFacts
  <1>4. Heavier(j, i) /\ ~Heavier(i, j) /\ i # j
    BY <1>3, HeavierIsStrict
  <1>5. j \in fetched
    <2>1. AwaitsCheck(docs[j]) /\ SortsBefore(j, i)
      BY DEF AwaitsCheck, SortsBefore
    <2> QED BY <1>2, <1>3, <2>1 DEF ListedCandidates, IsFirst
  <1>6. j \in taken
    BY <1>3, <1>4, <1>5 DEF isVerificationDue
  <1>7. PICK m \in DOMAIN pass' : pass'[m] = j
    BY <1>2, <1>6
  <1>8. m \in Int /\ n \in Int /\ m # n
    BY <1>1, <1>4, <1>7
  <1>9. ~(n < m)
    BY <1>1, <1>4, <1>7
  <1> QED BY <1>7, <1>8, <1>9

\* "Anything already suspected gone is checked first" (verificationPolicy.js:20), for
\* any number of jobs, any budget and any window of candidates: the two sorts never
\* let a job that is not flagged go before one that is.
THEOREM SuspectsGoFirst == BudgetSpec => SuspectsFirst
  <1> DEFINE Step ==
        phase = "crawl" /\ phase' = "verify" =>
          \A n \in DOMAIN pass', j \in JobId :
             docs[pass'[n]].status # "FLAGGED" /\ docs[j].status = "FLAGGED" =>
                \E m \in DOMAIN pass' : m < n /\ pass'[m] = j
  <1>1. BudgetInv /\ [BudgetNext]_budgetVars => Step
    <2> SUFFICES ASSUME BudgetInv, [BudgetNext]_budgetVars,
                        phase = "crawl", phase' = "verify"
                 PROVE  Step
      OBVIOUS
    <2>1. beginPass
      BY VerifyBegins
    <2>2. BudgetTypeOK
      BY DEF BudgetInv
    <2> QED BY <2>1, <2>2, FlaggedComesFirst
  <1>2. BudgetInv /\ [BudgetNext]_budgetVars => [Step]_budgetVars
    BY <1>1
  <1> HIDE DEF Step
  <1>3. BudgetSpec => [][Step]_budgetVars
    BY <1>2, BudgetInvariant, PTL DEF BudgetSpec
  <1> QED BY <1>3 DEF SuspectsFirst, Step

\* What was left out of a set by taking its first n was left out because n were taken.
LEMMA FullWhenLeftOut ==
    ASSUME NEW n \in Nat, NEW all \in SUBSET JobId, NEW chosen \in SUBSET all,
           Cardinality(chosen) = (IF Cardinality(all) < n THEN Cardinality(all) ELSE n),
           NEW j \in all, j \notin chosen
    PROVE  Cardinality(chosen) = n
  <1>1. IsFiniteSet(all)
    BY FS_Subset
  <1>2. Cardinality(chosen) # Cardinality(all)
    BY <1>1, FS_Subset
  <1> QED BY <1>2

LEMMA BudgetIsSpent ==
    ASSUME BudgetTypeOK, beginPass, NEW j \in JobId,
           isVerificationDue(docs[j]), \A n \in DOMAIN pass' : pass'[n] # j
    PROVE  Len(pass') = Limit
  <1>1. PICK fetched \in SUBSET JobId, taken \in SUBSET JobId :
           /\ ListedCandidates(fetched) /\ allocateBudget(taken, fetched)
           /\ Len(pass') = Cardinality(taken)
           /\ \A k \in taken : \E m \in DOMAIN pass' : pass'[m] = k
    BY BeginFacts
  <1> DEFINE waiting == {k \in JobId : AwaitsCheck(docs[k])}
             due == {k \in fetched : isVerificationDue(docs[k])}
  <1>2. j \in waiting /\ j \notin taken
    BY <1>1 DEF AwaitsCheck, isVerificationDue
  <1>3. /\ waiting \in SUBSET JobId /\ fetched \in SUBSET waiting
        /\ Cardinality(fetched) =
              (IF Cardinality(waiting) < Fetch THEN Cardinality(waiting) ELSE Fetch)
    BY <1>1 DEF ListedCandidates, IsFirst
  <1>4. due = fetched
    BY <1>3 DEF AwaitsCheck, isVerificationDue
  <1>5. /\ taken \in SUBSET due
        /\ Cardinality(taken) = (IF Cardinality(due) < Limit THEN Cardinality(due) ELSE Limit)
    BY <1>1 DEF allocateBudget, IsFirst
  <1>6. Limit \in Nat /\ Fetch \in Nat /\ Limit =< Fetch
    OBVIOUS
  <1> HIDE DEF waiting, due
  <1>7. CASE j \in fetched
    <2>1. Cardinality(taken) = Limit
      BY <1>2, <1>4, <1>5, <1>6, <1>7, FullWhenLeftOut
    <2> QED BY <1>1, <2>1
  <1>8. CASE j \notin fetched
    <2>1. Cardinality(fetched) = Fetch
      BY <1>2, <1>3, <1>6, <1>8, FullWhenLeftOut
    <2> QED BY <1>1, <1>4, <1>5, <1>6, <2>1
  <1> QED BY <1>7, <1>8

\* No check of a pass is left unused while a due job is left out, for any number of jobs
\* and any window that is no smaller than the budget (VerificationWorker.run).
THEOREM NoCheckGoesUnused == BudgetSpec => NoCheckIsSpared
  <1> DEFINE Step ==
        phase = "crawl" /\ phase' = "verify" =>
          \A j \in JobId :
             isVerificationDue(docs[j]) /\ (\A n \in DOMAIN pass' : pass'[n] # j) =>
                Len(pass') = Limit
  <1>1. BudgetInv /\ [BudgetNext]_budgetVars => Step
    <2> SUFFICES ASSUME BudgetInv, [BudgetNext]_budgetVars,
                        phase = "crawl", phase' = "verify"
                 PROVE  Step
      OBVIOUS
    <2>1. beginPass
      BY VerifyBegins
    <2>2. BudgetTypeOK
      BY DEF BudgetInv
    <2> QED BY <2>1, <2>2, BudgetIsSpent
  <1>2. BudgetInv /\ [BudgetNext]_budgetVars => [Step]_budgetVars
    BY <1>1
  <1> HIDE DEF Step
  <1>3. BudgetSpec => [][Step]_budgetVars
    BY <1>2, BudgetInvariant, PTL DEF BudgetSpec
  <1> QED BY <1>3 DEF NoCheckIsSpared, Step

\* Crawls that see a verified job may change when it is checked next, but never to
\* beyond the longest interval from its last verification (applyVerificationSchedule).
THEOREM ChecksAreNotPutOff == BudgetSpec => NeverPutOff
  <1> DEFINE Kept(j) ==
        docs[j].verified /\ docs'[j].left > docs[j].left =>
           \/ phase = "verify" /\ checked' = j
           \/ docs'[j].since + docs'[j].left =< INTERVAL[DORMANT]
  <1>1. ASSUME BudgetInv, BudgetNext, NEW j \in JobId PROVE Kept(j)
    <2>1. /\ BudgetTypeOK
          /\ docs[j].left \in Int /\ docs[j].left >= -MaxOverdue
      <3>1. BudgetTypeOK /\ docs[j] \in JobDoc
        BY <1>1 DEF BudgetInv, BudgetTypeOK
      <3>2. docs[j].left \in -MaxOverdue .. INTERVAL[DORMANT]
        BY <3>1 DEF JobDoc
      <3> QED BY <3>1, <3>2, Numbers
    <2>2. ~(docs[j].left > docs[j].left)
      BY <2>1
    <2>3. CASE docs'[j] = docs[j]
      BY <2>2, <2>3
    <2>4. ASSUME NEW k \in JobId, conclude(k) \/ waver(k) PROVE Kept(j)
      <3>1. phase = "verify" /\ checked' = k /\ \A l \in JobId \ {k} : docs'[l] = docs[l]
        BY <2>1, <2>4, CheckFacts
      <3> QED BY <2>3, <3>1
    <2>5. CASE rest
      <3>1. /\ docs' \in [JobId -> JobDoc]
            /\ docs'[j].left =< docs[j].left
        BY <1>1, <2>5, RestFacts
      <3>2. docs'[j].left \in Int
        BY <3>1, Numbers DEF JobDoc
      <3> QED BY <2>1, <3>1, <3>2
    <2>6. ASSUME NEW k \in JobId, NEW b \in BOOLEAN, seen(k, b) PROVE Kept(j)
      <3>1. /\ docs' \in [JobId -> JobDoc]
            /\ \A l \in JobId \ {k} : docs'[l] = docs[l]
            /\ docs[k].verified =>
                  \/ docs'[k].left = -MaxOverdue
                  \/ docs'[k].since + docs'[k].left =< INTERVAL[DORMANT]
        BY <2>1, <2>6, SeenFacts
      <3>2. docs'[j].left \in Int
        BY <3>1, Numbers DEF JobDoc
      <3>3. CASE j = k
        BY <2>1, <3>1, <3>2, <3>3, Numbers
      <3> QED BY <2>3, <3>1, <3>3
    <2>7. ASSUME NEW k \in JobId, NEW b \in BOOLEAN, losesSighting(k, b) PROVE Kept(j)
      <3>1. docs'[j].left = docs[j].left
        BY <2>1, <2>7, SightingFacts
      <3> QED BY <2>2, <3>1
    <2>8. CASE beginPass \/ skip
      <3>1. docs' = docs
        BY <2>8 DEF beginPass, skip
      <3> QED BY <2>3, <3>1
    <2> HIDE DEF Kept
    <2> QED BY <1>1, <2>4, <2>5, <2>6, <2>7, <2>8
          DEF BudgetNext, PassStep, check, endPass, cutOff
  <1>2. BudgetInv /\ [BudgetNext]_budgetVars => [\A j \in JobId : Kept(j)]_budgetVars
    BY <1>1
  <1> HIDE DEF Kept
  <1>3. BudgetSpec => [][\A j \in JobId : Kept(j)]_budgetVars
    BY <1>2, BudgetInvariant, PTL DEF BudgetSpec
  <1> QED BY <1>3 DEF NeverPutOff, Kept
=============================================================================
