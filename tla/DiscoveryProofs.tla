-------------------------- MODULE DiscoveryProofs --------------------------
(***************************************************************************)
(* Proofs about the source registry and the discovery queue, for any       *)
(* number of processes, sources and leads.                                 *)
(*                                                                         *)
(* Registry.  Every change puts back a whole document it read a while ago. *)
(* In orderly behaviours at most one such document of a source is on its   *)
(* way at a time, so what is on its way still agrees with what is stored   *)
(* in all the fields its change leaves alone; the put then moves stored    *)
(* document, decision and count of failures together.                      *)
(***************************************************************************)
EXTENDS SourceRegistry, DiscoveryQueue, FiniteSetTheorems, TLAPS

USE SourceStatusAssumption, RegistryAssumption

IsDark(doc) == doc.status \in {"DISABLED", "NOT_CONFIGURED"}

Registers(r, b) == \E c \in registering[r] : c.board = b
Decides(a, b) == \E c \in deciding[a] : c.board = b
Records(r, b) == \E x \in run[r] : Put(x) /\ x.board = b

\* Nobody but the named process, if any, is about to put a document of b.
NoRegister(b) == \A r \in Registrar : ~Registers(r, b)
NoDecide(b) == \A a \in Admin : ~Decides(a, b)
NoRecord(b) == \A r \in Run : ~Records(r, b)

\* At most one changed document of a source is on its way.
OneChange(b) ==
    /\ NoRegister(b) \/ (NoDecide(b) /\ NoRecord(b))
    /\ NoDecide(b) \/ NoRecord(b)
    /\ \A r, q \in Registrar : Registers(r, b) /\ Registers(q, b) => r = q
    /\ \A a, o \in Admin : Decides(a, b) /\ Decides(o, b) => a = o
    /\ \A r, q \in Run : Records(r, b) /\ Records(q, b) => r = q

\* What is on its way agrees with the stored document but for what it changes.
RegisterFits(c) ==
    IF source[c.board].policy # "NONE" THEN c.doc = source[c.board]
    ELSE c.doc.fails = 0 /\ (IsDark(c.doc) => c.doc.policy = "DENY")

DecideFits(c) == source[c.board].policy # "NONE" /\ c.doc = decided(source[c.board], c.policy)

RecordFits(x) ==
    /\ x.doc.policy = source[x.board].policy
    /\ x.doc.approved = source[x.board].approved
    /\ x.at = "recording" =>
          /\ x.doc.fails = IF x.class = "NONE" THEN 0 ELSE Saturated(source[x.board].fails)
          /\ IsDark(x.doc) => \/ x.board \in excused
                              \/ x.class \in Permanent
                              \/ x.doc.fails = DisableAfter
    /\ x.at = "unconfiguring" => x.doc.fails = source[x.board].fails /\ x.board \in excused

\* A run has seen a dark source only if there was a reason.
SeenFits(x) ==
    /\ x.at = "crawling" => (IsDark(x.seen) => x.board \in excused)
    /\ x.at = "unconfigured" => x.board \in excused

ChangesFit ==
    /\ \A r \in Registrar : \A c \in registering[r] : RegisterFits(c)
    /\ \A a \in Admin : \A c \in deciding[a] : DecideFits(c)
    /\ \A r \in Run : \A x \in run[r] : (Put(x) => RecordFits(x)) /\ SeenFits(x)

\* What is stored is what was decided, counted and excused.
Grounded(b) ==
    /\ decision[b] # "NONE" => /\ source[b].policy = decision[b]
                               /\ source[b].approved = (decision[b] = "ALLOW")
    /\ source[b].fails = streak[b]
    /\ IsDark(source[b]) => b \in excused

Orderly ==
    /\ \A b \in Board : OneChange(b)
    /\ ChangesFit
    /\ \A b \in Board : Grounded(b)

\* A source that anybody works on is registered, and stays so.
Known ==
    /\ \A b \in Board : source[b].policy = "NONE" =>
          /\ source[b] = Unknown
          /\ b \notin listed /\ waiting[b] = 0
          /\ \A r \in Run : \A x \in run[r] : x.board # b
    /\ \A r \in Registrar : \A c \in registering[r] : c.doc.policy # "NONE"
    /\ \A a \in Admin : \A c \in deciding[a] :
          c.doc.policy # "NONE" /\ source[c.board].policy # "NONE"
    /\ \A r \in Run : \A x \in run[r] : Put(x) => x.doc.policy # "NONE"

\* A source that a task was added to since it was denied is not listed any more.
LeftAlone ==
    \A b \in Board : \/ added[b] = 0
                     \/ added[b] = 1 /\ b \notin listed /\ source[b].policy = "DENY"

RegInv == RegTypeOK /\ Known /\ LeftAlone /\ (orderly => Orderly)

-----------------------------------------------------------------------------
(* What the operations write. *)

LEMMA RegDocFields ==
    ASSUME NEW doc \in RegDoc
    PROVE  /\ doc.policy \in ACCESS_POLICY \cup {"NONE"} /\ doc.approved \in BOOLEAN
           /\ doc.status \in SOURCE_STATUS /\ doc.fails \in 0 .. DisableAfter
           /\ doc = [policy |-> doc.policy, approved |-> doc.approved,
                     status |-> doc.status, fails |-> doc.fails]
BY DEF RegDoc

LEMMA UnknownGives ==
    Unknown \in RegDoc /\ Unknown.policy = "NONE" /\ Unknown.fails = 0 /\ ~IsDark(Unknown)
    /\ Unknown.approved = FALSE
BY DEF Unknown, RegDoc, ACCESS_POLICY, SOURCE_STATUS, IsDark

LEMMA MakeSourceGives ==
    ASSUME NEW b \in Board, NEW check \in RobotsSay
    PROVE  /\ makeSource(b, check) \in RegDoc
           /\ makeSource(b, check).policy # "NONE"
           /\ makeSource(b, check).fails = 0
           /\ IsDark(makeSource(b, check)) => makeSource(b, check).policy = "DENY"
<1> DEFINE policy == IF b \in Generic THEN check ELSE "ALLOW"
           status == IF policy = "DENY" THEN "DISABLED" ELSE "ACTIVE"
<1>1. policy \in ACCESS_POLICY
  BY DEF RobotsSay, ACCESS_POLICY
<1>2. makeSource(b, check) =
         [policy |-> policy, approved |-> FALSE, status |-> status, fails |-> 0]
  <2>1. makeSource(b, check) =
           [[policy |-> "NONE", approved |-> FALSE, status |-> "ACTIVE", fails |-> 0]
            EXCEPT !.policy = policy, !.status = status]
    BY Zenon DEF makeSource, Unknown, policy, status
  <2> HIDE DEF policy, status
  <2> QED
    BY <2>1
<1>3. status \in {"DISABLED", "ACTIVE"} /\ (status = "DISABLED" => policy = "DENY")
  OBVIOUS
<1> HIDE DEF policy, status
<1> QED
  BY <1>1, <1>2, <1>3 DEF RegDoc, ACCESS_POLICY, SOURCE_STATUS, IsDark

LEMMA DecidedGives ==
    ASSUME NEW doc \in RegDoc, NEW policy \in ACCESS_POLICY
    PROVE  /\ decided(doc, policy) \in RegDoc
           /\ decided(doc, policy).policy = policy
           /\ decided(doc, policy).approved = (policy = "ALLOW")
           /\ decided(doc, policy).fails = doc.fails
           /\ IsDark(decided(doc, policy)) => policy = "DENY" \/ IsDark(doc)
BY DEF decided, RegDoc, ACCESS_POLICY, SOURCE_STATUS, IsDark

LEMMA SaturatedType ==
    ASSUME NEW n \in 0 .. DisableAfter
    PROVE  Saturated(n) \in 0 .. DisableAfter
BY DEF Saturated

LEMMA StatusTypes ==
    ASSUME NEW status \in SOURCE_STATUS
    PROVE  /\ healthStatusFor(status, TRUE, TRUE) \in SOURCE_STATUS
           /\ healthStatusFor(status, TRUE, TRUE) \in {"DISABLED", "NOT_CONFIGURED"} =>
                 status \in {"DISABLED", "NOT_CONFIGURED"}
           /\ \A fails \in 0 .. DisableAfter, class \in ERROR_CLASS :
                 /\ deriveStatus(status, fails, class) \in SOURCE_STATUS
                 /\ deriveStatus(status, fails, class) \in {"DISABLED", "NOT_CONFIGURED"} =>
                       \/ status \in {"DISABLED", "NOT_CONFIGURED"}
                       \/ class \in Permanent
                       \/ fails = DisableAfter
BY DEF healthStatusFor, deriveStatus, SOURCE_STATUS, ERROR_CLASS, Permanent

LEMMA RecordedGives ==
    ASSUME NEW doc \in RegDoc, NEW seen \in Seen,
           NEW class \in ERROR_CLASS \cup {"NONE"}, NEW isCredible \in BOOLEAN
    PROVE  /\ recorded(doc, seen, class, isCredible) \in RegDoc
           /\ recorded(doc, seen, class, isCredible).policy = doc.policy
           /\ recorded(doc, seen, class, isCredible).approved = doc.approved
           /\ recorded(doc, seen, class, isCredible).fails =
                 IF class = "NONE" THEN 0 ELSE Saturated(doc.fails)
           /\ IsDark(recorded(doc, seen, class, isCredible)) =>
                 \/ IsDark(doc) \/ IsDark(seen)
                 \/ class \in Permanent
                 \/ recorded(doc, seen, class, isCredible).fails = DisableAfter
<1> DEFINE fails == IF class = "NONE" THEN 0 ELSE Saturated(doc.fails)
           status == IF ~isCredible THEN "DEGRADED"
                     ELSE IF class = "NONE" THEN healthStatusFor(seen.status, TRUE, TRUE)
                     ELSE deriveStatus(doc.status, fails, class)
<1>1. fails \in 0 .. DisableAfter
  BY SaturatedType, RegDocFields
<1>2. status \in SOURCE_STATUS
  BY <1>1, StatusTypes, RegDocFields DEF Seen, SOURCE_STATUS
<1>3. status \in {"DISABLED", "NOT_CONFIGURED"} =>
         IsDark(doc) \/ IsDark(seen) \/ class \in Permanent \/ fails = DisableAfter
  BY <1>1, StatusTypes, RegDocFields DEF Seen, IsDark
<1>4. recorded(doc, seen, class, isCredible) = [doc EXCEPT !.fails = fails, !.status = status]
  BY DEF recorded
<1> HIDE DEF fails, status
<1>5. recorded(doc, seen, class, isCredible) =
         [policy |-> doc.policy, approved |-> doc.approved, status |-> status, fails |-> fails]
  BY <1>4 DEF RegDoc
<1>6. recorded(doc, seen, class, isCredible).status = status
  BY <1>5
<1>7. recorded(doc, seen, class, isCredible).fails = fails
  BY <1>5
<1>8. IsDark(recorded(doc, seen, class, isCredible)) => status \in {"DISABLED", "NOT_CONFIGURED"}
  BY <1>6 DEF IsDark
<1> QED
  BY <1>1, <1>2, <1>3, <1>5, <1>7, <1>8, RegDocFields DEF RegDoc, fails

LEMMA NotConfiguredGives ==
    ASSUME NEW doc \in RegDoc
    PROVE  /\ notConfigured(doc) \in RegDoc
           /\ notConfigured(doc).policy = doc.policy
           /\ notConfigured(doc).approved = doc.approved
           /\ notConfigured(doc).fails = doc.fails
BY DEF notConfigured, RegDoc, SOURCE_STATUS
-----------------------------------------------------------------------------
(* The changes of one document never overlap, so a change still fits when it is put. *)

LEMMA WriteTypes ==
    ASSUME RegTypeOK, NEW b \in Board, NEW doc \in RegDoc, Write(b, doc)
    PROVE  source' \in [Board -> RegDoc] /\ added' \in [Board -> 0 .. 2]
BY DEF RegTypeOK, Write

LEMMA StepsKeepType ==
    ASSUME RegInv, RegNext
    PROVE  RegTypeOK' /\ Known' /\ LeftAlone'
<1> SUFFICES ASSUME RegTypeOK, Known, LeftAlone
    PROVE  RegTypeOK' /\ Known' /\ LeftAlone'
  BY DEF RegInv
<1>1. ASSUME NEW r \in Registrar, NEW b \in Board, RegisterRead(r, b)
      PROVE  RegTypeOK' /\ Known' /\ LeftAlone'
  <2>1. PICK check \in RobotsSay : registering' = [registering EXCEPT ![r] =
                            {[board |-> b, doc |-> registered(source[b], b, check)]}]
    BY <1>1 DEF RegisterRead
  <2> DEFINE doc == registered(source[b], b, check)
  <2>2. doc \in RegDoc /\ doc.policy # "NONE"
    BY MakeSourceGives DEF registered, RegTypeOK
  <2>5. registering' = [registering EXCEPT ![r] = {[board |-> b, doc |-> doc]}]
    BY <2>1
  <2> HIDE DEF doc
  <2>6. registering' \in [Registrar -> SUBSET Change]
    BY <2>5, <2>2 DEF RegTypeOK, Change
  <2>3. RegTypeOK'
    BY <1>1, <2>6 DEF RegisterRead, RegTypeOK, histories
  <2>4. Known'
    BY <1>1, <2>5, <2>2 DEF RegisterRead, RegTypeOK, Known, histories
  <2> QED
    BY <1>1, <2>3, <2>4 DEF RegisterRead, LeftAlone, histories
<1>2. ASSUME NEW r \in Registrar, RegisterPut(r)
      PROVE  RegTypeOK' /\ Known' /\ LeftAlone'
  <2>1. PICK c \in registering[r] :
            /\ Write(c.board, c.doc)
            /\ excused' = IF c.doc.policy = "DENY" THEN excused \cup {c.board} ELSE excused
    BY <1>2 DEF RegisterPut
  <2>2. c.board \in Board /\ c.doc \in RegDoc /\ c.doc.policy # "NONE"
    BY DEF RegTypeOK, Known, Change
  <2>3. RegTypeOK'
    BY <1>2, <2>1, <2>2, WriteTypes DEF RegisterPut, RegTypeOK
  <2>4. Known'
    BY <1>2, <2>1, <2>2 DEF RegisterPut, RegTypeOK, Known, Write
  <2>5. LeftAlone'
    BY <1>2, <2>1, <2>2 DEF RegisterPut, RegTypeOK, LeftAlone, Write
  <2> QED
    BY <2>3, <2>4, <2>5
<1>3. ASSUME NEW a \in Admin, NEW b \in Board, NEW policy \in ACCESS_POLICY,
             DecideRead(a, b, policy)
      PROVE  RegTypeOK' /\ Known' /\ LeftAlone'
  <2>1. /\ decided(source[b], policy) \in RegDoc
        /\ decided(source[b], policy).policy = policy /\ policy # "NONE"
    BY DecidedGives DEF RegTypeOK, ACCESS_POLICY
  <2>2. RegTypeOK'
    BY <1>3, <2>1 DEF DecideRead, RegTypeOK, Decision, histories
  <2>3. Known'
    BY <1>3, <2>1 DEF DecideRead, RegTypeOK, Known, histories
  <2> QED
    BY <1>3, <2>2, <2>3 DEF DecideRead, LeftAlone, histories
<1>4. ASSUME NEW a \in Admin, DecidePut(a)
      PROVE  RegTypeOK' /\ Known' /\ LeftAlone'
  <2>1. PICK c \in deciding[a] :
            /\ Write(c.board, c.doc)
            /\ decision' = [decision EXCEPT ![c.board] = c.policy]
            /\ excused' = IF c.policy = "DENY" THEN excused \cup {c.board} ELSE excused
    BY <1>4 DEF DecidePut
  <2>2. c.board \in Board /\ c.doc \in RegDoc /\ c.doc.policy # "NONE" /\ c.policy \in ACCESS_POLICY
    BY DEF RegTypeOK, Known, Decision
  <2>3. RegTypeOK'
    BY <1>4, <2>1, <2>2, WriteTypes DEF DecidePut, RegTypeOK
  <2>4. Known'
    BY <1>4, <2>1, <2>2 DEF DecidePut, RegTypeOK, Known, Write
  <2>5. LeftAlone'
    BY <1>4, <2>1, <2>2 DEF DecidePut, RegTypeOK, LeftAlone, Write
  <2> QED
    BY <2>3, <2>4, <2>5
<1>5. ASSUME NEW b \in Board, ListDue(b) \/ queueTarget(b)
      PROVE  RegTypeOK' /\ Known' /\ LeftAlone'
  <2>1. /\ source[b].policy = "ALLOW" /\ listed' = listed \cup {b}
        /\ UNCHANGED <<source, waiting, registering, deciding, run, histories, orderly>>
    BY <1>5 DEF ListDue, queueTarget, crawlable
  <2>2. RegTypeOK'
    BY <2>1 DEF RegTypeOK, histories
  <2>3. Known'
    BY <2>1 DEF Known, histories
  <2> QED
    BY <2>1, <2>2, <2>3 DEF LeftAlone, histories
<1>6. ASSUME NEW b \in Board, Enqueue(b)
      PROVE  RegTypeOK' /\ Known' /\ LeftAlone'
  <2>1. RegTypeOK'
    BY <1>6 DEF Enqueue, RegTypeOK
  <2>2. Known'
    BY <1>6 DEF Enqueue, RegTypeOK, Known
  <2>3. LeftAlone'
    BY <1>6 DEF Enqueue, RegTypeOK, LeftAlone
  <2> QED
    BY <2>1, <2>2, <2>3
<1>7. ASSUME NEW r \in Run, NEW b \in Board, RunQueued(r, b) \/ fetchNow(r, b) \/ crawlSource(r, b)
      PROVE  RegTypeOK' /\ Known' /\ LeftAlone'
  <2>1. PICK queued \in BOOLEAN : Begin(r, b, queued)
    BY <1>7 DEF RunQueued, fetchNow, crawlSource
  <2>2. /\ source[b].policy # "NONE"
        /\ waiting' \in [Board -> 0 .. QueueTries + 1]
        /\ \A o \in Board : waiting[o] = 0 => waiting'[o] = 0
    <3>1. CASE RunQueued(r, b)
      <4>1. waiting[b] \in 0 .. QueueTries + 1 /\ waiting[b] > 0
        BY <3>1 DEF RunQueued, RegTypeOK
      <4>2. source[b].policy # "NONE"
        BY <4>1 DEF Known
      <4>3. waiting' = [waiting EXCEPT ![b] = IF waiting[b] > QueueTries THEN waiting[b]
                                              ELSE waiting[b] + 1]
        BY <3>1 DEF RunQueued
      <4> QED
        BY <4>1, <4>2, <4>3 DEF RegTypeOK
    <3>2. CASE fetchNow(r, b) \/ crawlSource(r, b)
      BY <3>2 DEF fetchNow, crawlSource, RegTypeOK
    <3> QED
      BY <1>7, <3>1, <3>2
  <2>4. seenOf(source[b]) \in Seen
    BY <2>2, RegDocFields DEF seenOf, Seen, RegTypeOK
  <2>5. RegTypeOK'
    BY <2>1, <2>2, <2>4 DEF Begin, RegTypeOK, Crawling, histories
  <2>6. Known'
    BY <2>1, <2>2 DEF Begin, RegTypeOK, Known, Put, histories
  <2> QED
    BY <2>1, <2>5, <2>6 DEF Begin, LeftAlone, histories
<1>8. ASSUME NEW r \in Run, Judge(r)
      PROVE  RegTypeOK' /\ Known' /\ LeftAlone'
  <2> PICK x \in run[r], check \in RobotsSay, isCredible \in BOOLEAN :
          /\ x.at = "crawling"
          /\ \E class \in errorsOf(x.board, x.seen, check) :
                run' = [run EXCEPT ![r] =
                    {[board |-> x.board, queued |-> x.queued, class |-> class, at |-> "recording",
                      doc |-> recorded(source[x.board], x.seen, class, isCredible)]}]
    BY <1>8 DEF Judge
  <2>1. PICK class \in errorsOf(x.board, x.seen, check) :
            run' = [run EXCEPT ![r] =
                  {[board |-> x.board, queued |-> x.queued, class |-> class, at |-> "recording",
                    doc |-> recorded(source[x.board], x.seen, class, isCredible)]}]
    OBVIOUS
  <2>2. UNCHANGED <<source, listed, waiting, registering, deciding, histories, orderly>>
    BY <1>8 DEF Judge
  <2>3. x.board \in Board /\ x.seen \in Seen /\ x.queued \in BOOLEAN
    BY DEF RegTypeOK, Crawling, Recording
  <2>4. class \in ERROR_CLASS \cup {"NONE"}
    BY DEF errorsOf, ERROR_CLASS
  <2> DEFINE doc == recorded(source[x.board], x.seen, class, isCredible)
  <2>5. source[x.board] \in RegDoc /\ source[x.board].policy # "NONE"
    BY <2>3 DEF RegTypeOK, Known
  <2>6. doc \in RegDoc /\ doc.policy # "NONE"
    BY <2>3, <2>4, <2>5, RecordedGives
  <2> HIDE DEF doc
  <2>7. run' = [run EXCEPT ![r] =
                  {[board |-> x.board, queued |-> x.queued, class |-> class, at |-> "recording",
                    doc |-> doc]}]
    BY <2>1 DEF doc
  <2>8. RegTypeOK'
    BY <2>2, <2>3, <2>4, <2>6, <2>7 DEF RegTypeOK, Recording, histories
  <2>9. Known'
    BY <2>2, <2>3, <2>5, <2>6, <2>7 DEF RegTypeOK, Known, histories
  <2> QED
    BY <2>2, <2>8, <2>9 DEF LeftAlone, histories
<1>9. ASSUME NEW r \in Run, RecordPut(r)
      PROVE  RegTypeOK' /\ Known' /\ LeftAlone'
  <2>1. PICK x \in run[r] :
            /\ x.at = "recording"
            /\ Write(x.board, x.doc)
            /\ streak' = [streak EXCEPT ![x.board] = IF x.class = "NONE" THEN 0 ELSE Saturated(@)]
            /\ excused' = IF x.class \in Permanent \/ streak'[x.board] = DisableAfter
                          THEN excused \cup {x.board} ELSE excused
            /\ IF x.class = "NOT_CONFIGURED"
               THEN /\ run' = [run EXCEPT ![r] = {[board |-> x.board, queued |-> x.queued,
                                                   seen |-> seenOf(x.doc), at |-> "unconfigured"]}]
                    /\ UNCHANGED waiting
               ELSE run' = [run EXCEPT ![r] = {}] /\ EndTask(x)
            /\ UNCHANGED <<listed, registering, deciding, decision, orderly>>
    BY <1>9 DEF RecordPut
  <2>2. /\ x.board \in Board /\ x.doc \in RegDoc /\ x.doc.policy # "NONE"
        /\ x.queued \in BOOLEAN
    BY <2>1 DEF RegTypeOK, Recording, Crawling, Known, Put
  <2>3. seenOf(x.doc) \in Seen
    BY <2>2, RegDocFields DEF seenOf, Seen
  <2>4. streak' \in [Board -> 0 .. DisableAfter]
    BY <2>1, <2>2, SaturatedType DEF RegTypeOK
  <2>5. /\ waiting' \in [Board -> 0 .. QueueTries + 1]
        /\ \A b \in Board : waiting[b] = 0 => waiting'[b] = 0
    BY <2>1, <2>2 DEF RegTypeOK, EndTask
  <2>6. /\ run' \in [Run -> SUBSET (Crawling \cup Recording)]
        /\ \A q \in Run : \A y \in run'[q] :
              y \in run[q] \/ (~Put(y) /\ y.board = x.board)
    BY <2>1, <2>2, <2>3 DEF RegTypeOK, Crawling, Put
  <2>7. source' = [source EXCEPT ![x.board] = x.doc]
    BY <2>1 DEF Write
  <2>8. excused' \subseteq Board /\ added' \in [Board -> 0 .. 2]
    BY <2>1, <2>2, WriteTypes DEF RegTypeOK
  <2>9. RegTypeOK'
    BY <2>1, <2>2, <2>4, <2>5, <2>6, <2>7, <2>8 DEF RegTypeOK
  <2>10. Known'
    BY <2>1, <2>2, <2>5, <2>6, <2>7 DEF RegTypeOK, Known
  <2>11. LeftAlone'
    BY <2>1, <2>2 DEF RegTypeOK, LeftAlone, Write
  <2> QED
    BY <2>9, <2>10, <2>11
<1>10. ASSUME NEW r \in Run, UnconfigureRead(r)
      PROVE  RegTypeOK' /\ Known' /\ LeftAlone'
  <2>1. PICK x \in run[r] :
            /\ x.at = "unconfigured"
            /\ run' = [run EXCEPT ![r] =
                  {[board |-> x.board, queued |-> x.queued, class |-> "NOT_CONFIGURED",
                    at |-> "unconfiguring", doc |-> notConfigured(source[x.board])]}]
            /\ UNCHANGED <<source, listed, waiting, registering, deciding, histories, orderly>>
    BY <1>10 DEF UnconfigureRead
  <2>2. x.board \in Board /\ x.queued \in BOOLEAN
    BY <2>1 DEF RegTypeOK, Crawling, Recording
  <2>3. source[x.board] \in RegDoc /\ source[x.board].policy # "NONE"
    BY <2>2 DEF RegTypeOK, Known
  <2>4. /\ notConfigured(source[x.board]) \in RegDoc
        /\ notConfigured(source[x.board]).policy # "NONE"
    BY <2>3, NotConfiguredGives
  <2>5. RegTypeOK'
    BY <2>1, <2>2, <2>4 DEF RegTypeOK, Recording, ERROR_CLASS, histories
  <2>6. Known'
    BY <2>1, <2>2, <2>3, <2>4 DEF RegTypeOK, Known, histories
  <2> QED
    BY <2>1, <2>5, <2>6 DEF LeftAlone, histories
<1>11. ASSUME NEW r \in Run, UnconfigurePut(r)
      PROVE  RegTypeOK' /\ Known' /\ LeftAlone'
  <2>1. PICK x \in run[r] :
            /\ x.at = "unconfiguring"
            /\ Write(x.board, x.doc)
            /\ run' = [run EXCEPT ![r] = {}]
            /\ EndTask(x)
            /\ UNCHANGED <<listed, registering, deciding, decision, streak, excused, orderly>>
    BY <1>11 DEF UnconfigurePut
  <2>2. x.board \in Board /\ x.doc \in RegDoc /\ x.doc.policy # "NONE"
    BY <2>1 DEF RegTypeOK, Recording, Crawling, Known, Put
  <2>3. /\ waiting' \in [Board -> 0 .. QueueTries + 1]
        /\ \A b \in Board : waiting[b] = 0 => waiting'[b] = 0
    BY <2>1, <2>2 DEF RegTypeOK, EndTask
  <2>4. RegTypeOK'
    BY <2>1, <2>2, <2>3, WriteTypes DEF RegTypeOK
  <2>5. Known'
    BY <2>1, <2>2, <2>3 DEF RegTypeOK, Known, Write
  <2>6. LeftAlone'
    BY <2>1, <2>2 DEF RegTypeOK, LeftAlone, Write
  <2> QED
    BY <2>4, <2>5, <2>6
<1>12. ASSUME NEW r \in Run, Abort(r)
      PROVE  RegTypeOK' /\ Known' /\ LeftAlone'
  <2>1. RegTypeOK'
    BY <1>12 DEF Abort, RegTypeOK, histories
  <2>2. Known'
    BY <1>12 DEF Abort, RegTypeOK, Known, histories
  <2> QED
    BY <1>12, <2>1, <2>2 DEF Abort, LeftAlone, histories
<1> QED
  BY <1>1, <1>2, <1>3, <1>4, <1>5, <1>6, <1>7, <1>8, <1>9, <1>10, <1>11, <1>12
     DEF RegNext, RegInv, RunEnds
\* In an orderly behaviour nobody reads a document that is about to be put.
LEMMA NobodyElse ==
    ASSUME orderly, NEW b \in Board, Unshared(b)
    PROVE  NoRegister(b) /\ NoDecide(b) /\ NoRecord(b)
BY DEF Unshared, NoRegister, NoDecide, NoRecord, Registers, Decides, Records

\* Whoever has a change of b on its way is the only one.
LEMMA FewerChanges ==
    ASSUME NEW b \in Board, OneChange(b),
           \A r \in Registrar : Registers(r, b)' => Registers(r, b),
           \A a \in Admin : Decides(a, b)' => Decides(a, b),
           \A r \in Run : Records(r, b)' => Records(r, b)
    PROVE  OneChange(b)'
BY DEF OneChange, NoRegister, NoDecide, NoRecord

\* A step that puts nothing and brings no change on its way.
LEMMA OrderlyQuiet ==
    ASSUME Orderly, UNCHANGED <<source, registering, deciding, decision, streak, excused>>,
           \A r \in Run : \A x \in run'[r] : x \in run[r] \/ (~Put(x) /\ SeenFits(x))
    PROVE  Orderly'
<1>1. ASSUME NEW b \in Board PROVE OneChange(b)'
  BY FewerChanges DEF Orderly, Registers, Decides, Records
<1>2. ChangesFit'
  BY DEF Orderly, ChangesFit, RegisterFits, DecideFits, RecordFits, SeenFits
<1> QED
  BY <1>1, <1>2 DEF Orderly, Grounded

LEMMA OrderlyRegisterRead ==
    ASSUME RegTypeOK, Known, Orderly, orderly, NEW r \in Registrar, NEW b \in Board,
           RegisterRead(r, b)
    PROVE  Orderly'
<1>1. PICK check \in RobotsSay : registering' = [registering EXCEPT ![r] =
                            {[board |-> b, doc |-> registered(source[b], b, check)]}]
  BY DEF RegisterRead
<1>2. UNCHANGED <<source, deciding, run, decision, streak, excused>>
  BY DEF RegisterRead, histories
<1>3. NoRegister(b) /\ NoDecide(b) /\ NoRecord(b)
  BY NobodyElse DEF RegisterRead
<1> DEFINE doc == registered(source[b], b, check)
           change == [board |-> b, doc |-> doc]
<1>4. RegisterFits(change)
  BY MakeSourceGives DEF registered, RegisterFits
<1> HIDE DEF doc
<1>5. change.board = b
  OBVIOUS
<1>6. registering' = [registering EXCEPT ![r] = {change}]
  BY <1>1 DEF doc
<1> HIDE DEF change
<1>7. \A q \in Registrar : \A c \in registering'[q] : c \in registering[q] \/ (q = r /\ c = change)
  BY <1>6 DEF RegTypeOK
<1>8. ASSUME NEW o \in Board PROVE OneChange(o)'
  <2>1. CASE o = b
    <3>1. \A q \in Registrar : Registers(q, o)' => q = r
      BY <1>3, <1>7, <2>1 DEF NoRegister, Registers
    <3>2. NoDecide(o)' /\ NoRecord(o)'
      BY <1>2, <1>3, <2>1 DEF NoDecide, NoRecord, Decides, Records
    <3> QED
      BY <3>1, <3>2 DEF OneChange, NoDecide, NoRecord
  <2>2. CASE o # b
    <3>1. \A q \in Registrar : Registers(q, o)' => Registers(q, o)
      BY <1>5, <1>7, <2>2 DEF Registers
    <3> QED
      BY <1>2, <3>1, FewerChanges DEF Orderly, Decides, Records
  <2> QED
    BY <2>1, <2>2
<1>9. ChangesFit'
  BY <1>2, <1>4, <1>7 DEF Orderly, ChangesFit, RegisterFits, DecideFits, RecordFits, SeenFits
<1> QED
  BY <1>2, <1>8, <1>9 DEF Orderly, Grounded

LEMMA OrderlyDecideRead ==
    ASSUME RegTypeOK, Known, Orderly, orderly, NEW a \in Admin, NEW b \in Board,
           NEW policy \in ACCESS_POLICY, DecideRead(a, b, policy)
    PROVE  Orderly'
<1> DEFINE change == [board |-> b, policy |-> policy, doc |-> decided(source[b], policy)]
<1>1. deciding' = [deciding EXCEPT ![a] = {change}]
  BY DEF DecideRead
<1>2. UNCHANGED <<source, registering, run, decision, streak, excused>>
  BY DEF DecideRead, histories
<1>3. NoRegister(b) /\ NoDecide(b) /\ NoRecord(b)
  BY NobodyElse DEF DecideRead
<1>4. DecideFits(change) /\ change.board = b
  BY DEF DecideFits, DecideRead
<1> HIDE DEF change
<1>5. \A q \in Admin : \A c \in deciding'[q] : c \in deciding[q] \/ (q = a /\ c = change)
  BY <1>1 DEF RegTypeOK
<1>6. ASSUME NEW o \in Board PROVE OneChange(o)'
  <2>1. CASE o = b
    <3>1. \A q \in Admin : Decides(q, o)' => q = a
      BY <1>3, <1>5, <2>1 DEF NoDecide, Decides
    <3>2. NoRegister(o)' /\ NoRecord(o)'
      BY <1>2, <1>3, <2>1 DEF NoRegister, NoRecord, Registers, Records
    <3> QED
      BY <3>1, <3>2 DEF OneChange, NoRegister, NoRecord
  <2>2. CASE o # b
    <3>1. \A q \in Admin : Decides(q, o)' => Decides(q, o)
      BY <1>4, <1>5, <2>2 DEF Decides
    <3> QED
      BY <1>2, <3>1, FewerChanges DEF Orderly, Registers, Records
  <2> QED
    BY <2>1, <2>2
<1>7. ChangesFit'
  BY <1>2, <1>4, <1>5 DEF Orderly, ChangesFit, RegisterFits, DecideFits, RecordFits, SeenFits
<1> QED
  BY <1>2, <1>6, <1>7 DEF Orderly, Grounded

\* A run reads the document again, with the change it is about to put.
LEMMA OrderlyRunRead ==
    ASSUME RegTypeOK, Orderly, orderly, NEW r \in Run, NEW x, Put(x), RecordFits(x),
           x.board \in Board, Unshared(x.board), run' = [run EXCEPT ![r] = {x}],
           UNCHANGED <<source, registering, deciding, decision, streak, excused>>
    PROVE  Orderly'
<1> DEFINE b == x.board
<1>1. NoRegister(b) /\ NoDecide(b) /\ NoRecord(b)
  BY NobodyElse
<1>2. \A q \in Run : \A y \in run'[q] : y \in run[q] \/ (q = r /\ y = x)
  BY DEF RegTypeOK
<1>3. ASSUME NEW o \in Board PROVE OneChange(o)'
  <2>1. CASE o = b
    <3>1. \A q \in Run : Records(q, o)' => q = r
      BY <1>1, <1>2, <2>1 DEF NoRecord, Records
    <3>2. NoRegister(o)' /\ NoDecide(o)'
      BY <1>1, <2>1 DEF NoRegister, NoDecide, Registers, Decides
    <3> QED
      BY <3>1, <3>2 DEF OneChange, NoRegister, NoDecide
  <2>2. CASE o # b
    <3>1. \A q \in Run : Records(q, o)' => Records(q, o)
      BY <1>2, <2>2 DEF Records
    <3> QED
      BY <3>1, FewerChanges DEF Orderly, Registers, Decides
  <2> QED
    BY <2>1, <2>2
<1>4. SeenFits(x)
  BY DEF SeenFits, Put
<1>5. ChangesFit'
  BY <1>2, <1>4 DEF Orderly, ChangesFit, RegisterFits, DecideFits, RecordFits, SeenFits
<1> QED
  BY <1>3, <1>5 DEF Orderly, Grounded

\* A put takes the only change of b off its way, so nothing else has to fit.
LEMMA OrderlyPut ==
    ASSUME RegTypeOK, Orderly, NEW b \in Board, NEW doc \in RegDoc,
           source' = [source EXCEPT ![b] = doc],
           excused \subseteq excused',
           \A r \in Registrar : \A c \in registering'[r] : c \in registering[r] /\ c.board # b,
           \A a \in Admin : \A c \in deciding'[a] : c \in deciding[a] /\ c.board # b,
           \A r \in Run : \A x \in run'[r] :
               \/ x \in run[r] /\ (x.board # b \/ ~Put(x))
               \/ ~Put(x) /\ SeenFits(x)',
           \A o \in Board \ {b} : decision'[o] = decision[o] /\ streak'[o] = streak[o],
           Grounded(b)'
    PROVE  Orderly'
<1>1. ASSUME NEW o \in Board PROVE OneChange(o)'
  <2>1. \A r \in Registrar : Registers(r, o)' => Registers(r, o)
    BY DEF Registers
  <2>2. \A a \in Admin : Decides(a, o)' => Decides(a, o)
    BY DEF Decides
  <2>3. \A r \in Run : Records(r, o)' => Records(r, o)
    BY DEF Records
  <2> QED
    BY <2>1, <2>2, <2>3, FewerChanges DEF Orderly
<1>2. \A r \in Registrar : \A c \in registering'[r] : RegisterFits(c)'
  <2> TAKE r \in Registrar
  <2> TAKE c \in registering'[r]
  <2>1. RegisterFits(c) /\ c.board \in Board /\ c.board # b
    BY DEF Orderly, ChangesFit, RegTypeOK, Change
  <2>2. source'[c.board] = source[c.board]
    BY <2>1 DEF RegTypeOK
  <2> QED
    BY <2>1, <2>2 DEF RegisterFits
<1>3. \A a \in Admin : \A c \in deciding'[a] : DecideFits(c)'
  <2> TAKE a \in Admin
  <2> TAKE c \in deciding'[a]
  <2>1. DecideFits(c) /\ c.board \in Board /\ c.board # b
    BY DEF Orderly, ChangesFit, RegTypeOK, Decision
  <2>2. source'[c.board] = source[c.board]
    BY <2>1 DEF RegTypeOK
  <2> QED
    BY <2>1, <2>2 DEF DecideFits
<1>4. \A r \in Run : \A x \in run'[r] : (Put(x) => RecordFits(x)') /\ SeenFits(x)'
  <2> TAKE r \in Run
  <2> TAKE x \in run'[r]
  <2>1. CASE ~(x \in run[r])
    BY <2>1
  <2>2. CASE x \in run[r]
    <3>1. x.board \in Board
      BY <2>2 DEF RegTypeOK, Crawling, Recording
    <3>2. SeenFits(x)'
      BY <2>2 DEF Orderly, ChangesFit, SeenFits
    <3>3. ASSUME Put(x) PROVE RecordFits(x)'
      <4>1. RecordFits(x) /\ x.board # b
        BY <2>2, <3>3 DEF Orderly, ChangesFit
      <4>2. source'[x.board] = source[x.board]
        BY <3>1, <4>1 DEF RegTypeOK
      <4> QED
        BY <4>1, <4>2 DEF RecordFits
    <3> QED
      BY <3>2, <3>3
  <2> QED
    BY <2>1, <2>2
<1>5. ChangesFit'
  BY <1>2, <1>3, <1>4 DEF ChangesFit
<1>6. ASSUME NEW o \in Board \ {b} PROVE Grounded(o)'
  <2>1. source'[o] = source[o]
    BY DEF RegTypeOK
  <2> QED
    BY <2>1 DEF Orderly, Grounded
<1> QED
  BY <1>1, <1>5, <1>6 DEF Orderly
LEMMA OrderlyRegisterPut ==
    ASSUME RegTypeOK, Known, Orderly, orderly, NEW r \in Registrar, RegisterPut(r)
    PROVE  Orderly'
<1>1. PICK c \in registering[r] :
          /\ Write(c.board, c.doc)
          /\ excused' = IF c.doc.policy = "DENY" THEN excused \cup {c.board} ELSE excused
  BY DEF RegisterPut
<1>2. /\ registering' = [registering EXCEPT ![r] = {}]
      /\ UNCHANGED <<deciding, run, decision, streak>>
  BY DEF RegisterPut
<1>3. c.board \in Board /\ c.doc \in RegDoc /\ c.doc.policy # "NONE" /\ RegisterFits(c)
  BY DEF RegTypeOK, Change, Known, Orderly, ChangesFit
<1>4. source' = [source EXCEPT ![c.board] = c.doc] /\ excused \subseteq excused'
  BY <1>1 DEF Write
<1>5. Registers(r, c.board) /\ OneChange(c.board)
  BY <1>3 DEF Registers, Orderly
<1>6. \A q \in Registrar : \A d \in registering'[q] : d \in registering[q] /\ d.board # c.board
  BY <1>2, <1>5 DEF RegTypeOK, OneChange, Registers
<1>7. NoDecide(c.board) /\ NoRecord(c.board)
  BY <1>5 DEF OneChange, NoRegister
<1>8. \A a \in Admin : \A d \in deciding'[a] : d \in deciding[a] /\ d.board # c.board
  BY <1>2, <1>7 DEF NoDecide, Decides
<1>9. \A q \in Run : \A x \in run'[q] : x \in run[q] /\ (x.board # c.board \/ ~Put(x))
  BY <1>2, <1>7 DEF NoRecord, Records
<1>10. Grounded(c.board)'
  <2>1. source'[c.board] = c.doc
    BY <1>3, <1>4 DEF RegTypeOK
  <2>2. Grounded(c.board)
    BY <1>3 DEF Orderly
  <2>3. CASE source[c.board].policy # "NONE"
    BY <1>2, <1>3, <1>4, <2>1, <2>2, <2>3 DEF Grounded, RegisterFits
  <2>4. CASE source[c.board].policy = "NONE"
    <3>1. source[c.board].fails = 0
      BY <1>3, <2>4, UnknownGives DEF Known
    <3>2. decision[c.board] = "NONE"
      BY <1>3, <2>2, <2>4 DEF Grounded
    <3>3. c.doc.fails = 0 /\ (IsDark(c.doc) => c.board \in excused')
      BY <1>1, <1>3, <2>4 DEF RegisterFits
    <3> QED
      BY <1>2, <2>1, <2>2, <3>1, <3>2, <3>3 DEF Grounded
  <2> QED
    BY <2>3, <2>4
<1> QED
  BY <1>2, <1>3, <1>4, <1>6, <1>8, <1>9, <1>10, OrderlyPut

LEMMA OrderlyDecidePut ==
    ASSUME RegTypeOK, Known, Orderly, orderly, NEW a \in Admin, DecidePut(a)
    PROVE  Orderly'
<1>1. PICK c \in deciding[a] :
          /\ Write(c.board, c.doc)
          /\ decision' = [decision EXCEPT ![c.board] = c.policy]
          /\ excused' = IF c.policy = "DENY" THEN excused \cup {c.board} ELSE excused
  BY DEF DecidePut
<1>2. deciding' = [deciding EXCEPT ![a] = {}] /\ UNCHANGED <<registering, run, streak>>
  BY DEF DecidePut
<1>3. c.board \in Board /\ c.doc \in RegDoc /\ c.policy \in ACCESS_POLICY /\ DecideFits(c)
  BY DEF RegTypeOK, Decision, Orderly, ChangesFit
<1>4. source' = [source EXCEPT ![c.board] = c.doc] /\ excused \subseteq excused'
  BY <1>1 DEF Write
<1>5. Decides(a, c.board) /\ OneChange(c.board)
  BY <1>3 DEF Decides, Orderly
<1>6. NoRegister(c.board) /\ NoRecord(c.board)
  BY <1>5 DEF OneChange, NoDecide
<1>7. \A q \in Registrar : \A d \in registering'[q] : d \in registering[q] /\ d.board # c.board
  BY <1>2, <1>6 DEF NoRegister, Registers
<1>8. \A o \in Admin : \A d \in deciding'[o] : d \in deciding[o] /\ d.board # c.board
  BY <1>2, <1>5 DEF RegTypeOK, OneChange, Decides
<1>9. \A q \in Run : \A x \in run'[q] : x \in run[q] /\ (x.board # c.board \/ ~Put(x))
  BY <1>2, <1>6 DEF NoRecord, Records
<1>10. \A o \in Board \ {c.board} : decision'[o] = decision[o] /\ streak'[o] = streak[o]
  BY <1>1, <1>2 DEF RegTypeOK
<1>11. Grounded(c.board)'
  <2>1. source'[c.board] = c.doc /\ decision'[c.board] = c.policy
    BY <1>1, <1>3, <1>4 DEF RegTypeOK
  <2>2. Grounded(c.board) /\ source[c.board] \in RegDoc
    BY <1>3 DEF Orderly, RegTypeOK
  <2>3. /\ c.doc.policy = c.policy
        /\ c.doc.approved = (c.policy = "ALLOW")
        /\ c.doc.fails = source[c.board].fails
        /\ IsDark(c.doc) => c.policy = "DENY" \/ IsDark(source[c.board])
    BY <1>3, <2>2, DecidedGives DEF DecideFits
  <2> QED
    BY <1>1, <1>2, <1>4, <2>1, <2>2, <2>3 DEF Grounded
<1> QED
  BY <1>2, <1>3, <1>4, <1>7, <1>8, <1>9, <1>10, <1>11, OrderlyPut

LEMMA OrderlyRecordPut ==
    ASSUME RegTypeOK, Known, Orderly, orderly, NEW r \in Run, RecordPut(r)
    PROVE  Orderly'
<1>1. PICK x \in run[r] :
          /\ x.at = "recording"
          /\ Write(x.board, x.doc)
          /\ streak' = [streak EXCEPT ![x.board] = IF x.class = "NONE" THEN 0 ELSE Saturated(@)]
          /\ excused' = IF x.class \in Permanent \/ streak'[x.board] = DisableAfter
                        THEN excused \cup {x.board} ELSE excused
          /\ IF x.class = "NOT_CONFIGURED"
             THEN /\ run' = [run EXCEPT ![r] = {[board |-> x.board, queued |-> x.queued,
                                                 seen |-> seenOf(x.doc), at |-> "unconfigured"]}]
                  /\ UNCHANGED waiting
             ELSE run' = [run EXCEPT ![r] = {}] /\ EndTask(x)
          /\ UNCHANGED <<listed, registering, deciding, decision, orderly>>
  BY DEF RecordPut
<1>2. Put(x) /\ x.board \in Board /\ x.doc \in RegDoc /\ RecordFits(x)
  BY <1>1 DEF Put, RegTypeOK, Recording, Crawling, Orderly, ChangesFit
<1>3. source' = [source EXCEPT ![x.board] = x.doc] /\ excused \subseteq excused'
  BY <1>1 DEF Write
<1>4. Records(r, x.board) /\ OneChange(x.board)
  BY <1>2 DEF Records, Orderly
<1>5. NoRegister(x.board) /\ NoDecide(x.board)
  BY <1>4 DEF OneChange, NoRecord
<1>6. \A q \in Registrar : \A d \in registering'[q] : d \in registering[q] /\ d.board # x.board
  BY <1>1, <1>5 DEF NoRegister, Registers
<1>7. \A o \in Admin : \A d \in deciding'[o] : d \in deciding[o] /\ d.board # x.board
  BY <1>1, <1>5 DEF NoDecide, Decides
<1>8. \A q \in Run : \A y \in run[q] : q # r => (y.board # x.board \/ ~Put(y))
  BY <1>4 DEF OneChange, Records
<1>9. \A q \in Run : \A y \in run'[q] : \/ y \in run[q] /\ (y.board # x.board \/ ~Put(y))
                                        \/ ~Put(y) /\ SeenFits(y)'
  <2>1. CASE x.class = "NOT_CONFIGURED"
    <3> DEFINE y == [board |-> x.board, queued |-> x.queued,
                     seen |-> seenOf(x.doc), at |-> "unconfigured"]
    <3>1. x.board \in excused'
      BY <1>1, <1>2, <2>1 DEF Permanent, RegTypeOK
    <3>2. ~Put(y) /\ SeenFits(y)'
      BY <3>1 DEF Put, SeenFits
    <3>3. run' = [run EXCEPT ![r] = {y}]
      BY <1>1, <2>1
    <3> HIDE DEF y
    <3> QED
      BY <1>8, <3>2, <3>3 DEF RegTypeOK
  <2>2. CASE x.class # "NOT_CONFIGURED"
    <3>1. run' = [run EXCEPT ![r] = {}]
      BY <1>1, <2>2
    <3> QED
      BY <1>8, <3>1 DEF RegTypeOK
  <2> QED
    BY <2>1, <2>2
<1>10. \A o \in Board \ {x.board} : decision'[o] = decision[o] /\ streak'[o] = streak[o]
  BY <1>1, <1>2 DEF RegTypeOK
<1>11. Grounded(x.board)'
  <2>1. source'[x.board] = x.doc
    BY <1>2, <1>3 DEF RegTypeOK
  <2>2. Grounded(x.board)
    BY <1>2 DEF Orderly
  <2>3. streak'[x.board] = IF x.class = "NONE" THEN 0 ELSE Saturated(streak[x.board])
    BY <1>1, <1>2 DEF RegTypeOK
  <2>4. x.doc.fails = streak'[x.board]
    BY <1>1, <1>2, <2>2, <2>3 DEF RecordFits, Grounded
  <2>5. IsDark(x.doc) => x.board \in excused'
    BY <1>1, <1>2, <2>4 DEF RecordFits
  <2> QED
    BY <1>1, <1>2, <2>1, <2>2, <2>4, <2>5 DEF Grounded, RecordFits
<1> QED
  BY <1>2, <1>3, <1>6, <1>7, <1>9, <1>10, <1>11, OrderlyPut

LEMMA OrderlyUnconfigurePut ==
    ASSUME RegTypeOK, Known, Orderly, orderly, NEW r \in Run, UnconfigurePut(r)
    PROVE  Orderly'
<1>1. PICK x \in run[r] : x.at = "unconfiguring" /\ Write(x.board, x.doc)
  BY DEF UnconfigurePut
<1>2. /\ run' = [run EXCEPT ![r] = {}]
      /\ UNCHANGED <<registering, deciding, decision, streak, excused>>
  BY DEF UnconfigurePut
<1>3. Put(x) /\ x.board \in Board /\ x.doc \in RegDoc /\ RecordFits(x)
  BY <1>1 DEF Put, RegTypeOK, Recording, Crawling, Orderly, ChangesFit
<1>4. source' = [source EXCEPT ![x.board] = x.doc]
  BY <1>1 DEF Write
<1>5. Records(r, x.board) /\ OneChange(x.board)
  BY <1>3 DEF Records, Orderly
<1>6. NoRegister(x.board) /\ NoDecide(x.board)
  BY <1>5 DEF OneChange, NoRecord
<1>7. \A q \in Registrar : \A d \in registering'[q] : d \in registering[q] /\ d.board # x.board
  BY <1>2, <1>6 DEF NoRegister, Registers
<1>8. \A o \in Admin : \A d \in deciding'[o] : d \in deciding[o] /\ d.board # x.board
  BY <1>2, <1>6 DEF NoDecide, Decides
<1>9. \A q \in Run : \A y \in run'[q] : y \in run[q] /\ (y.board # x.board \/ ~Put(y))
  BY <1>2, <1>5 DEF OneChange, Records, RegTypeOK
<1>10. Grounded(x.board)'
  <2>1. source'[x.board] = x.doc
    BY <1>3, <1>4 DEF RegTypeOK
  <2>2. Grounded(x.board)
    BY <1>3 DEF Orderly
  <2> QED
    BY <1>1, <1>2, <1>3, <2>1, <2>2 DEF Grounded, RecordFits
<1> QED
  BY <1>2, <1>3, <1>4, <1>7, <1>8, <1>9, <1>10, OrderlyPut

LEMMA OrderlyJudge ==
    ASSUME RegTypeOK, Known, Orderly, orderly, NEW r \in Run, Judge(r)
    PROVE  Orderly'
<1>1. PICK x \in run[r], check \in RobotsSay, isCredible \in BOOLEAN :
          /\ x.at = "crawling" /\ Unshared(x.board)
          /\ \E class \in errorsOf(x.board, x.seen, check) :
                run' = [run EXCEPT ![r] =
                    {[board |-> x.board, queued |-> x.queued, class |-> class, at |-> "recording",
                      doc |-> recorded(source[x.board], x.seen, class, isCredible)]}]
  BY DEF Judge
<1>2. PICK class \in errorsOf(x.board, x.seen, check) :
          run' = [run EXCEPT ![r] =
                {[board |-> x.board, queued |-> x.queued, class |-> class, at |-> "recording",
                  doc |-> recorded(source[x.board], x.seen, class, isCredible)]}]
  BY <1>1
<1>3. UNCHANGED <<source, registering, deciding, decision, streak, excused>>
  BY DEF Judge, histories
<1>4. x.board \in Board /\ x.seen \in Seen
  BY <1>1 DEF RegTypeOK, Crawling, Recording
<1>5. class \in ERROR_CLASS \cup {"NONE"}
  BY DEF errorsOf, ERROR_CLASS
<1>6. source[x.board] \in RegDoc /\ Grounded(x.board) /\ SeenFits(x)
  BY <1>4 DEF RegTypeOK, Orderly, ChangesFit
<1> DEFINE doc == recorded(source[x.board], x.seen, class, isCredible)
           y == [board |-> x.board, queued |-> x.queued, class |-> class, at |-> "recording",
                 doc |-> doc]
<1>7. /\ doc.policy = source[x.board].policy
      /\ doc.approved = source[x.board].approved
      /\ doc.fails = IF class = "NONE" THEN 0 ELSE Saturated(source[x.board].fails)
      /\ IsDark(doc) => \/ IsDark(source[x.board]) \/ IsDark(x.seen)
                        \/ class \in Permanent \/ doc.fails = DisableAfter
  BY <1>4, <1>5, <1>6, RecordedGives
<1>8. IsDark(doc) => \/ x.board \in excused
                     \/ class \in Permanent \/ doc.fails = DisableAfter
  BY <1>1, <1>6, <1>7 DEF Grounded, SeenFits
<1> HIDE DEF doc
<1>9. Put(y) /\ RecordFits(y) /\ y.board = x.board
  BY <1>7, <1>8 DEF Put, RecordFits
<1>10. run' = [run EXCEPT ![r] = {y}]
  BY <1>2 DEF doc
<1> HIDE DEF y
<1> QED
  BY <1>1, <1>3, <1>4, <1>9, <1>10, OrderlyRunRead

LEMMA OrderlyUnconfigureRead ==
    ASSUME RegTypeOK, Known, Orderly, orderly, NEW r \in Run, UnconfigureRead(r)
    PROVE  Orderly'
<1>1. PICK x \in run[r] :
          /\ x.at = "unconfigured" /\ Unshared(x.board)
          /\ run' = [run EXCEPT ![r] =
                {[board |-> x.board, queued |-> x.queued, class |-> "NOT_CONFIGURED",
                  at |-> "unconfiguring", doc |-> notConfigured(source[x.board])]}]
          /\ UNCHANGED <<source, registering, deciding, decision, streak, excused>>
  BY DEF UnconfigureRead, histories
<1>2. x.board \in Board
  BY <1>1 DEF RegTypeOK, Crawling, Recording
<1>3. source[x.board] \in RegDoc /\ SeenFits(x)
  BY <1>2 DEF RegTypeOK, Orderly, ChangesFit
<1> DEFINE y == [board |-> x.board, queued |-> x.queued, class |-> "NOT_CONFIGURED",
                 at |-> "unconfiguring", doc |-> notConfigured(source[x.board])]
<1>4. Put(y) /\ RecordFits(y) /\ y.board = x.board
  BY <1>1, <1>3, NotConfiguredGives DEF Put, RecordFits, SeenFits
<1> HIDE DEF y
<1>5. run' = [run EXCEPT ![r] = {y}]
  BY <1>1 DEF y
<1> QED
  BY <1>1, <1>2, <1>4, <1>5, OrderlyRunRead

LEMMA OrderlyBegin ==
    ASSUME RegTypeOK, Orderly, NEW r \in Run, NEW b \in Board, NEW queued, Begin(r, b, queued)
    PROVE  Orderly'
<1> DEFINE x == [board |-> b, seen |-> seenOf(source[b]), queued |-> queued, at |-> "crawling"]
<1>1. ~Put(x) /\ SeenFits(x)
  BY DEF Put, SeenFits, seenOf, IsDark, Orderly, Grounded
<1>2. run' = [run EXCEPT ![r] = {x}]
  BY DEF Begin
<1> HIDE DEF x
<1>3. \A q \in Run : \A y \in run'[q] : y \in run[q] \/ (~Put(y) /\ SeenFits(y))
  BY <1>1, <1>2 DEF RegTypeOK
<1> QED
  BY <1>3, OrderlyQuiet DEF Begin, histories

-----------------------------------------------------------------------------
(* The theorems. *)

\* However the processes interleave, every stored and pending document keeps its
\* type and names a registered source; in orderly behaviours each pending change
\* fits the stored document it will be put over.
THEOREM ChangesFitTheirDocuments == RegSpec => []RegInv
<1>1. RegInit => RegInv
  BY UnknownGives DEF RegInit, RegInv, RegTypeOK, Known, LeftAlone, Orderly, OneChange,
     NoRegister, NoDecide, NoRecord, Registers, Decides, Records, ChangesFit, Grounded
<1>2. RegInv /\ [RegNext]_regVars => RegInv'
  <2>1. ASSUME RegInv, RegNext PROVE RegInv'
    <3>1. RegTypeOK' /\ Known' /\ LeftAlone'
      BY <2>1, StepsKeepType
    <3>2. orderly' = orderly
      BY <2>1 DEF RegNext, RegisterRead, RegisterPut, DecideRead, DecidePut, ListDue, queueTarget,
         Enqueue, RunQueued, fetchNow, crawlSource, Begin, RunEnds, Judge, RecordPut,
         UnconfigureRead, UnconfigurePut, Abort, histories
    <3>3. ASSUME orderly PROVE Orderly'
      <4> USE <2>1, <3>3 DEF RegInv
      <4>1. ASSUME NEW b \in Board, ListDue(b) \/ queueTarget(b) \/ Enqueue(b) PROVE Orderly'
        BY <4>1, OrderlyQuiet DEF ListDue, queueTarget, Enqueue, histories
      <4>2. ASSUME NEW r \in Run, NEW b \in Board,
                   RunQueued(r, b) \/ fetchNow(r, b) \/ crawlSource(r, b)
            PROVE  Orderly'
        BY <4>2, OrderlyBegin DEF RunQueued, fetchNow, crawlSource
      <4>3. ASSUME NEW r \in Run, Abort(r) PROVE Orderly'
        BY <4>3, OrderlyQuiet DEF Abort, RegTypeOK, histories
      <4> QED
        BY <4>1, <4>2, <4>3, OrderlyRegisterRead, OrderlyRegisterPut, OrderlyDecideRead,
           OrderlyDecidePut, OrderlyJudge, OrderlyRecordPut, OrderlyUnconfigureRead,
           OrderlyUnconfigurePut DEF RegNext, RunEnds
    <3> QED
      BY <3>1, <3>2, <3>3 DEF RegInv
  <2>2. ASSUME RegInv, UNCHANGED regVars PROVE RegInv'
    BY <2>2 DEF RegInv, regVars, RegTypeOK, Known, LeftAlone, Orderly, OneChange, NoRegister,
       NoDecide, NoRecord, Registers, Decides, Records, ChangesFit, RegisterFits, DecideFits,
       RecordFits, SeenFits, Grounded
  <2> QED
    BY <2>1, <2>2
<1> QED
  BY <1>1, <1>2, PTL DEF RegSpec

\* Every variable of the registry keeps its type.
THEOREM RegTypeCorrect == RegSpec => []RegTypeOK
<1>1. RegInv => RegTypeOK
  BY DEF RegInv
<1> QED
  BY <1>1, ChangesFitTheirDocuments, PTL

\* In orderly behaviours, where no source is read between another's read and put of
\* it, what an operator decided stands until an operator decides otherwise: a run
\* that began before the decision and records after it leaves it alone.
THEOREM OperatorDecisionsStick == RegSpec => []DecisionsStick
<1>1. RegInv => DecisionsStick
  BY DEF RegInv, Orderly, Grounded, DecisionsStick
<1> QED
  BY <1>1, ChangesFitTheirDocuments, PTL

\* In orderly behaviours the count that disables a source is that of the failed runs
\* since the last ok one: runs overlap, their recordings do not.
THEOREM FailuresCountedInARow == RegSpec => []FailuresAreCounted
<1>1. RegInv => FailuresAreCounted
  BY DEF RegInv, Orderly, Grounded, FailuresAreCounted
<1> QED
  BY <1>1, ChangesFitTheirDocuments, PTL

\* A source is DISABLED or NOT_CONFIGURED only for a reason.
THEOREM SourcesGoDarkForAReason == RegSpec => []DarkForAReason
<1>1. RegInv => DarkForAReason
  BY DEF RegInv, Orderly, Grounded, DarkForAReason, IsDark
<1> QED
  BY <1>1, ChangesFitTheirDocuments, PTL

\* While a source is denied at most one task is added for it, in every behaviour.
THEOREM DeniedSourcesAreLeftAlone == RegSpec => []DeniedIsLeftAlone
<1>1. RegInv => DeniedIsLeftAlone
  BY DEF RegInv, RegTypeOK, LeftAlone, DeniedIsLeftAlone
<1> QED
  BY <1>1, ChangesFitTheirDocuments, PTL
-----------------------------------------------------------------------------
(***************************************************************************)
(* Discovery queue.  In any behaviour every document, wherever a copy of   *)
(* it is, satisfies SoundLead: one that says LEASED waits for nothing and  *)
(* has an attempt left.  In a calm behaviour every copy equals the stored  *)
(* document, so a verdict written over a copy is a verdict about the lead. *)
(***************************************************************************)
USE DiscoveryAssumption

SoundLead(doc) ==
    /\ doc.state \in Open => doc.attempts < MAX_ATTEMPTS
    /\ doc.state = "LEASED" => doc.owner \in Prober /\ doc.waitLeft = 0
    /\ doc.state = "ABSENT" => doc.attempts = 0

\* A copy in hand was leased in that worker's name, and what is probed is in hand.
CopiesInHand ==
    /\ \A w \in Prober, l \in Lead : HasCopy(w, l) =>
          copy[w][l].state = "LEASED" /\ copy[w][l].owner = w
    /\ \A w \in Prober : probing[w] # NoLead => HasCopy(w, probing[w])

SoundLeads ==
    /\ \A l \in Lead : SoundLead(lead[l])
    /\ \A w \in Prober, l \in Lead : SoundLead(copy[w][l])
    /\ \A a \in Agent : \A r \in reading[a] : SoundLead(r.doc)

\* In calm behaviours no copy is stale: what is in hand or read is what is stored,
\* and the lease of what is in hand still runs.
CopiesAreCurrent ==
    /\ \A w \in Prober, l \in Lead : HasCopy(w, l) =>
          /\ lead[l] = copy[w][l]
          /\ secured[w][l] > 0 /\ copy[w][l].leaseLeft = secured[w][l]
    /\ \A a \in Agent : \A r \in reading[a] : r.doc = lead[r.key]
    /\ \A a, b \in Agent : reading[a] # {} /\ reading[b] # {} => a = b

\* A failure's backoff is in the stored document while it is owed.
BackoffIsStored ==
    \A l \in Lead : owed[l] > 0 =>
        \/ lead[l].state \in {"DEAD", "EXHAUSTED"}
        \/ lead[l].state = "RETRY" /\ lead[l].waitLeft >= owed[l]

ProbesAreStored == \A l \in Lead : lead[l].attempts = probes[l]

LeadInv ==
    /\ LeadTypeOK /\ CopiesInHand /\ SoundLeads
    /\ calm => CopiesAreCurrent /\ BackoffIsStored /\ ProbesAreStored

-----------------------------------------------------------------------------
(* What the operations write. *)

LEMMA PowersOfTwo == \A n \in Nat : 2 ^ n \in Nat
<1> TAKE n \in Nat
<1>1. IsFiniteSet(1 .. n) /\ Cardinality(1 .. n) = n
  BY FS_Interval
<1>2. IsFiniteSet(SUBSET (1 .. n)) /\ Cardinality(SUBSET (1 .. n)) = 2 ^ n
  BY <1>1, FS_SUBSET
<1> QED
  BY <1>2, FS_CardinalityType

LEMMA BackoffType == \A n \in Nat : backoff(n) \in Nat
<1> TAKE n \in Nat
<1> DEFINE k == IF n > 1 THEN n - 1 ELSE 0
           p == 2 ^ k
<1>1. p \in Nat
  BY PowersOfTwo
<1>2. backoff(n) = IF BASE_BACKOFF * p < MAX_BACKOFF THEN BASE_BACKOFF * p ELSE MAX_BACKOFF
  BY DEF backoff
<1> HIDE DEF p
<1>3. BASE_BACKOFF * p \in Nat
  BY <1>1
<1> QED
  BY <1>2, <1>3

LEMMA LeadFields ==
    ASSUME NEW doc \in LeadDoc
    PROVE  /\ doc.state \in DISCOVERY_STATE \cup {"ABSENT"} /\ doc.attempts \in 0 .. MAX_ATTEMPTS
           /\ doc.waitLeft \in Nat /\ doc.owner \in Prober \cup {NoProber}
           /\ doc.leaseLeft \in 0 .. ProbeLease
           /\ doc = [state |-> doc.state, attempts |-> doc.attempts, waitLeft |-> doc.waitLeft,
                     owner |-> doc.owner, leaseLeft |-> doc.leaseLeft]
BY DEF LeadDoc

LEMMA FreshGives ==
    /\ NoDoc \in LeadDoc /\ SoundLead(NoDoc) /\ NoDoc.state = "ABSENT" /\ NoDoc.attempts = 0
    /\ makeDiscoveryTask \in LeadDoc /\ SoundLead(makeDiscoveryTask)
    /\ makeDiscoveryTask.state = "PENDING" /\ makeDiscoveryTask.attempts = 0
BY DEF NoDoc, makeDiscoveryTask, FreshLead, LeadDoc, DISCOVERY_STATE, SoundLead, Open

LEMMA LeaseToGives ==
    ASSUME NEW doc \in LeadDoc, NEW w \in Prober, leasable(doc), SoundLead(doc)
    PROVE  /\ leaseTo(doc, w) \in LeadDoc /\ SoundLead(leaseTo(doc, w))
           /\ leaseTo(doc, w).state = "LEASED" /\ leaseTo(doc, w).owner = w
           /\ leaseTo(doc, w).leaseLeft = ProbeLease
           /\ leaseTo(doc, w).attempts = doc.attempts
           /\ doc.state \in Open
<1>1. "LEASED" \in DISCOVERY_STATE /\ ProbeLease \in 0 .. ProbeLease
  BY DEF DISCOVERY_STATE
<1>2. doc.waitLeft = 0 /\ doc.state \in Open /\ doc.attempts < MAX_ATTEMPTS
  BY DEF leasable, Open, SoundLead
<1> DEFINE d == leaseTo(doc, w)
<1>3. /\ d \in LeadDoc /\ d.state = "LEASED" /\ d.attempts = doc.attempts
      /\ d.waitLeft = doc.waitLeft /\ d.owner = w /\ d.leaseLeft = ProbeLease
  BY <1>1 DEF leaseTo, LeadDoc
<1> HIDE DEF d
<1>4. SoundLead(d)
  BY <1>2, <1>3 DEF SoundLead
<1> QED
  BY <1>2, <1>3, <1>4 DEF d

LEMMA ReleasedGives ==
    ASSUME NEW doc \in LeadDoc
    PROVE  released(doc) \in LeadDoc /\ released(doc).state = doc.state
           /\ released(doc).attempts = doc.attempts
<1>1. NoProber \in Prober \cup {NoProber} /\ 0 \in 0 .. ProbeLease
  OBVIOUS
<1> QED
  BY <1>1 DEF released, LeadDoc

LEMMA DeferredGives ==
    ASSUME NEW doc \in LeadDoc, doc.state = "LEASED", SoundLead(doc)
    PROVE  /\ deferred(doc) \in LeadDoc /\ SoundLead(deferred(doc))
           /\ deferred(doc).state = "RETRY" /\ deferred(doc).attempts = doc.attempts
<1> DEFINE d == released(doc)
<1>1. d \in LeadDoc /\ d.attempts = doc.attempts
  BY ReleasedGives
<1>2. deferred(doc) = [d EXCEPT !.state = "RETRY", !.waitLeft = 0]
  BY DEF deferred
<1> HIDE DEF d
<1>3. "RETRY" \in DISCOVERY_STATE /\ 0 \in Nat
  BY DEF DISCOVERY_STATE
<1>4. /\ deferred(doc) \in LeadDoc /\ deferred(doc).state = "RETRY"
      /\ deferred(doc).attempts = doc.attempts
  BY <1>1, <1>2, <1>3 DEF LeadDoc
<1>5. doc.attempts < MAX_ATTEMPTS
  BY DEF SoundLead, Open
<1> QED
  BY <1>4, <1>5 DEF SoundLead

LEMMA ResolvedGives ==
    ASSUME NEW doc \in LeadDoc, doc.state = "LEASED", SoundLead(doc)
    PROVE  /\ resolved(doc) \in LeadDoc /\ SoundLead(resolved(doc))
           /\ resolved(doc).state = "RESOLVED" /\ resolved(doc).attempts = doc.attempts + 1
<1> DEFINE d == released(doc)
           n == d.attempts + 1
<1>1. doc.attempts < MAX_ATTEMPTS
  BY DEF SoundLead, Open
<1>2. d \in LeadDoc /\ n = doc.attempts + 1 /\ n \in 0 .. MAX_ATTEMPTS
  BY <1>1, ReleasedGives, LeadFields
<1>3. resolved(doc) = [d EXCEPT !.state = "RESOLVED", !.attempts = n, !.waitLeft = RESOLVED_RECHECK]
  BY DEF resolved
<1> HIDE DEF n, d
<1>4. "RESOLVED" \in DISCOVERY_STATE
  BY DEF DISCOVERY_STATE
<1>5. resolved(doc) \in LeadDoc /\ resolved(doc).state = "RESOLVED" /\ resolved(doc).attempts = n
  BY <1>2, <1>3, <1>4 DEF LeadDoc
<1> QED
  BY <1>2, <1>5 DEF SoundLead, Open

LEMMA FailedGives ==
    ASSUME NEW doc \in LeadDoc, doc.state = "LEASED", SoundLead(doc), NEW permanent \in BOOLEAN
    PROVE  /\ failed(doc, permanent) \in LeadDoc /\ SoundLead(failed(doc, permanent))
           /\ failed(doc, permanent).attempts = doc.attempts + 1
           /\ \/ failed(doc, permanent).state \in {"DEAD", "EXHAUSTED"}
              \/ /\ failed(doc, permanent).state = "RETRY"
                 /\ failed(doc, permanent).waitLeft = backoff(doc.attempts + 1)
<1> DEFINE d == released(doc)
           n == doc.attempts + 1
           k == backoff(n)
           s == IF permanent THEN "DEAD" ELSE "EXHAUSTED"
<1>1. doc.attempts < MAX_ATTEMPTS
  BY DEF SoundLead, Open
<1>2. n \in 0 .. MAX_ATTEMPTS /\ n \in Nat
  BY <1>1, LeadFields
<1>3. k \in Nat
  BY <1>2, BackoffType
<1>4. d \in LeadDoc
  BY ReleasedGives
<1>5. s \in DISCOVERY_STATE /\ s \in {"DEAD", "EXHAUSTED"} /\ "RETRY" \in DISCOVERY_STATE
  BY DEF DISCOVERY_STATE
<1>6. failed(doc, permanent) =
         IF permanent \/ n >= MAX_ATTEMPTS
         THEN [d EXCEPT !.attempts = n, !.waitLeft = 0, !.state = s]
         ELSE [d EXCEPT !.attempts = n, !.state = "RETRY", !.waitLeft = k]
  BY DEF failed
<1> HIDE DEF d, n, k, s
<1>7. CASE permanent \/ n >= MAX_ATTEMPTS
  <2>1. failed(doc, permanent) = [d EXCEPT !.attempts = n, !.waitLeft = 0, !.state = s]
    BY <1>6, <1>7
  <2>2. /\ failed(doc, permanent) \in LeadDoc /\ failed(doc, permanent).state = s
        /\ failed(doc, permanent).attempts = n
    <3>1. 0 \in Nat /\ s \in DISCOVERY_STATE \cup {"ABSENT"}
      BY <1>5
    <3> QED
      BY <1>2, <1>4, <2>1, <3>1 DEF LeadDoc
  <2> QED
    BY <1>5, <2>2 DEF n, SoundLead, Open
<1>8. CASE ~(permanent \/ n >= MAX_ATTEMPTS)
  <2>1. failed(doc, permanent) = [d EXCEPT !.attempts = n, !.state = "RETRY", !.waitLeft = k]
    BY <1>6, <1>8
  <2>2. /\ failed(doc, permanent) \in LeadDoc /\ failed(doc, permanent).state = "RETRY"
        /\ failed(doc, permanent).attempts = n /\ failed(doc, permanent).waitLeft = k
    BY <1>2, <1>3, <1>4, <1>5, <2>1 DEF LeadDoc
  <2>3. n < MAX_ATTEMPTS
    BY <1>2, <1>8
  <2>4. SoundLead(failed(doc, permanent))
    BY <2>2, <2>3 DEF SoundLead
  <2> QED
    BY <2>2, <2>4 DEF n, k
<1> QED
  BY <1>7, <1>8

LEMMA AgedGives ==
    ASSUME NEW doc \in LeadDoc
    PROVE  /\ AgedLead(doc) \in LeadDoc
           /\ AgedLead(doc).state = doc.state /\ AgedLead(doc).attempts = doc.attempts
           /\ AgedLead(doc).owner = doc.owner
           /\ AgedLead(doc).waitLeft = Sooner(doc.waitLeft)
           /\ AgedLead(doc).leaseLeft = Sooner(doc.leaseLeft)
           /\ SoundLead(doc) => SoundLead(AgedLead(doc))
<1> DEFINE k == Sooner(doc.waitLeft)
           e == Sooner(doc.leaseLeft)
           d == AgedLead(doc)
<1>1. k \in Nat /\ e \in 0 .. ProbeLease /\ (doc.waitLeft = 0 => k = 0)
  BY LeadFields DEF Sooner
<1>2. d = [doc EXCEPT !.waitLeft = k, !.leaseLeft = e]
  BY DEF AgedLead
<1> HIDE DEF k, e, d
<1>3. /\ d \in LeadDoc /\ d.state = doc.state /\ d.attempts = doc.attempts
      /\ d.owner = doc.owner /\ d.waitLeft = k /\ d.leaseLeft = e
  BY <1>1, <1>2 DEF LeadDoc
<1>4. SoundLead(doc) => SoundLead(d)
  BY <1>1, <1>3 DEF SoundLead
<1> QED
  BY <1>3, <1>4 DEF k, e, d
-----------------------------------------------------------------------------
(* Every operation keeps the copies sound, and current in calm behaviours. *)

\* In a calm behaviour two workers never have the same lead in hand, and a lead
\* in hand owes no backoff.
LEMMA OneHolder ==
    ASSUME LeadInv, calm, NEW w \in Prober, NEW l \in Lead, HasCopy(w, l)
    PROVE  /\ \A v \in Prober : HasCopy(v, l) => v = w
           /\ lead[l].state = "LEASED" /\ owed[l] = 0 /\ ~leasable(lead[l])
<1>1. lead[l].state = "LEASED" /\ lead[l].owner = w /\ lead[l].leaseLeft > 0
  BY DEF LeadInv, CopiesInHand, CopiesAreCurrent, LeadTypeOK
<1>2. \A v \in Prober : HasCopy(v, l) => lead[l].owner = v
  BY DEF LeadInv, CopiesInHand, CopiesAreCurrent
<1>3. owed[l] \in Nat
  BY DEF LeadInv, LeadTypeOK
<1> QED
  BY <1>1, <1>2, <1>3 DEF LeadInv, BackoffIsStored, leasable

LEMMA KeptByEnqueueRead ==
    ASSUME LeadInv, NEW a \in Agent, NEW l \in Lead, EnqueueRead(a, l)
    PROVE  LeadInv'
<1> DEFINE r == [key |-> l, doc |-> lead[l]]
<1>1. /\ reading' = [reading EXCEPT ![a] = {r}]
      /\ UNCHANGED <<lead, copy, probing, turn, deaths, secured, owed, probes, calm>>
      /\ calm => \A b \in Agent : reading[b] = {}
  BY DEF EnqueueRead, proberVars
<1>2. r \in Reading /\ SoundLead(r.doc) /\ r.doc = lead[r.key]
  BY DEF Reading, LeadInv, LeadTypeOK, SoundLeads
<1> HIDE DEF r
<1>3. LeadTypeOK'
  BY <1>1, <1>2 DEF LeadInv, LeadTypeOK
<1>4. SoundLeads' /\ CopiesInHand'
  BY <1>1, <1>2 DEF LeadInv, LeadTypeOK, SoundLeads, CopiesInHand, HasCopy
<1>5. calm => CopiesAreCurrent'
  BY <1>1, <1>2 DEF LeadInv, LeadTypeOK, CopiesAreCurrent, HasCopy
<1> QED
  BY <1>1, <1>3, <1>4, <1>5 DEF LeadInv, BackoffIsStored, ProbesAreStored

LEMMA KeptByEnqueuePut ==
    ASSUME LeadInv, NEW a \in Agent, EnqueuePut(a)
    PROVE  LeadInv'
<1>1. PICK r \in reading[a] : lead' = [lead EXCEPT ![r.key] = enqueued(r.doc)]
  BY DEF EnqueuePut
<1>2. /\ reading' = [reading EXCEPT ![a] = {}]
      /\ UNCHANGED <<copy, probing, turn, deaths, secured, owed, probes, calm>>
  BY DEF EnqueuePut, proberVars
<1>3. r.key \in Lead /\ r.doc \in LeadDoc /\ SoundLead(r.doc)
  BY DEF LeadInv, LeadTypeOK, Reading, SoundLeads
<1>4. enqueued(r.doc) \in LeadDoc /\ SoundLead(enqueued(r.doc))
  BY <1>3, FreshGives DEF enqueued
<1>5. LeadTypeOK'
  BY <1>1, <1>2, <1>3, <1>4 DEF LeadInv, LeadTypeOK
<1>6. SoundLeads' /\ CopiesInHand'
  BY <1>1, <1>2, <1>3, <1>4 DEF LeadInv, LeadTypeOK, SoundLeads, CopiesInHand, HasCopy
<1>7. ASSUME calm PROVE CopiesAreCurrent' /\ BackoffIsStored' /\ ProbesAreStored'
  <2> USE <1>7
  <2>1. r.doc = lead[r.key] /\ \A b \in Agent : reading'[b] = {}
    BY <1>2 DEF LeadInv, LeadTypeOK, CopiesAreCurrent
  <2>2. \A l \in Lead : lead'[l] = lead[l]
                        \/ /\ lead[l].state = "ABSENT" /\ lead[l].attempts = 0
                           /\ lead'[l] = makeDiscoveryTask
    BY <1>1, <1>3, <2>1 DEF LeadInv, LeadTypeOK, SoundLead, enqueued
  <2>3. CopiesAreCurrent'
    BY <1>2, <2>1, <2>2 DEF LeadInv, CopiesAreCurrent, HasCopy
  <2>4. BackoffIsStored'
    BY <1>2, <2>2 DEF LeadInv, BackoffIsStored
  <2>5. ProbesAreStored'
    BY <1>2, <2>2, FreshGives DEF LeadInv, ProbesAreStored
  <2> QED
    BY <2>3, <2>4, <2>5
<1> QED
  BY <1>2, <1>5, <1>6, <1>7 DEF LeadInv

LEMMA KeptByLease ==
    ASSUME LeadInv, NEW w \in Prober, NEW l \in Lead, Lease(w, l)
    PROVE  LeadInv'
<1> DEFINE d == leaseTo(lead[l], w)
<1>1. /\ lead' = [lead EXCEPT ![l] = d]
      /\ copy' = [copy EXCEPT ![w] = [copy[w] EXCEPT ![l] = d]]
      /\ secured' = [secured EXCEPT ![w] = [secured[w] EXCEPT ![l] = IF calm THEN ProbeLease ELSE 0]]
      /\ UNCHANGED <<reading, probing, turn, deaths, owed, probes, calm>>
      /\ leasable(lead[l]) /\ Undisturbed(l)
  BY DEF Lease, LeadInv, LeadTypeOK
<1>2. lead[l] \in LeadDoc /\ SoundLead(lead[l])
  BY DEF LeadInv, LeadTypeOK, SoundLeads
<1>3. /\ d \in LeadDoc /\ SoundLead(d) /\ d.state = "LEASED" /\ d.owner = w
      /\ d.leaseLeft = ProbeLease /\ d.attempts = lead[l].attempts
  BY <1>1, <1>2, LeaseToGives
<1> HIDE DEF d
<1>4. /\ lead' \in [Lead -> LeadDoc] /\ copy' \in [Prober -> [Lead -> LeadDoc]]
      /\ secured' \in [Prober -> [Lead -> 0 .. ProbeLease]]
  BY <1>1, <1>3 DEF LeadInv, LeadTypeOK
<1>5. LeadTypeOK'
  BY <1>1, <1>4 DEF LeadInv, LeadTypeOK
<1>6. /\ \A v \in Prober, k \in Lead :
            copy'[v][k] = IF v = w /\ k = l THEN d ELSE copy[v][k]
      /\ \A k \in Lead : lead'[k] = IF k = l THEN d ELSE lead[k]
  BY <1>1 DEF LeadInv, LeadTypeOK
<1>7. SoundLeads' /\ CopiesInHand'
  BY <1>1, <1>3, <1>6 DEF LeadInv, LeadTypeOK, SoundLeads, CopiesInHand, HasCopy
<1>8. ASSUME calm PROVE CopiesAreCurrent' /\ BackoffIsStored' /\ ProbesAreStored'
  <2> USE <1>8
  <2>1. \A v \in Prober : ~HasCopy(v, l)
    BY <1>1, OneHolder
  <2>2. \A v \in Prober, k \in Lead :
            secured'[v][k] = IF v = w /\ k = l THEN ProbeLease ELSE secured[v][k]
    BY <1>1 DEF LeadInv, LeadTypeOK
  <2>3. \A v \in Prober, k \in Lead : HasCopy(v, k)' =>
            /\ lead'[k] = copy'[v][k]
            /\ secured'[v][k] > 0 /\ copy'[v][k].leaseLeft = secured'[v][k]
    BY <1>3, <1>6, <2>1, <2>2 DEF LeadInv, CopiesAreCurrent, HasCopy
  <2>4. \A a \in Agent : \A r \in reading'[a] : r.doc = lead'[r.key]
    BY <1>1, <1>6 DEF LeadInv, LeadTypeOK, CopiesAreCurrent, Undisturbed, Reading
  <2>5. CopiesAreCurrent'
    BY <1>1, <2>3, <2>4 DEF LeadInv, CopiesAreCurrent
  <2>6. BackoffIsStored'
    <3>1. owed[l] \in Nat /\ lead[l].waitLeft \in Nat
      BY <1>2, LeadFields DEF LeadInv, LeadTypeOK
    <3>2. owed[l] = 0
      BY <1>1, <3>1 DEF LeadInv, BackoffIsStored, leasable
    <3> QED
      BY <1>1, <1>6, <3>2 DEF LeadInv, BackoffIsStored
  <2>7. ProbesAreStored'
    BY <1>1, <1>3, <1>6 DEF LeadInv, ProbesAreStored
  <2> QED
    BY <2>5, <2>6, <2>7
<1> QED
  BY <1>1, <1>5, <1>7, <1>8 DEF LeadInv

LEMMA KeptByStartProbe ==
    ASSUME LeadInv, NEW w \in Prober, NEW l \in Lead, StartProbe(w, l)
    PROVE  LeadInv'
<1>1. LeadTypeOK'
  BY DEF StartProbe, LeadInv, LeadTypeOK
<1>2. CopiesInHand' /\ SoundLeads'
  BY DEF StartProbe, LeadInv, LeadTypeOK, CopiesInHand, SoundLeads, HasCopy
<1> QED
  BY <1>1, <1>2 DEF StartProbe, LeadInv, CopiesAreCurrent, BackoffIsStored, ProbesAreStored, HasCopy

\* What a turn that ends with doc does to the copies.
LEMMA CopiesAfterTurn ==
    ASSUME LeadInv, NEW w \in Prober, NEW l \in Lead, HasCopy(w, l),
           NEW doc \in LeadDoc, SoundLead(doc), EndTurn(w, l, doc)
    PROVE  /\ lead' \in [Lead -> LeadDoc] /\ copy' \in [Prober -> [Lead -> LeadDoc]]
           /\ secured' \in [Prober -> [Lead -> 0 .. ProbeLease]]
           /\ probing' \in [Prober -> Lead \cup {NoLead}]
           /\ turn' \in [Prober -> {"filling", "draining"}]
           /\ UNCHANGED <<reading, deaths, calm>>
           /\ \A k \in Lead : lead'[k] = IF k = l THEN doc ELSE lead[k]
           /\ SoundLeads' /\ CopiesInHand'
           /\ calm => CopiesAreCurrent'
<1>1. /\ lead' = [lead EXCEPT ![l] = doc]
      /\ copy' = [copy EXCEPT ![w] = [copy[w] EXCEPT ![l] = NoDoc]]
      /\ secured' = [secured EXCEPT ![w] = [secured[w] EXCEPT ![l] = 0]]
      /\ probing' = [probing EXCEPT ![w] = NoLead]
      /\ UNCHANGED <<reading, deaths, calm>>
      /\ Undisturbed(l)
  BY DEF EndTurn, LeadInv, LeadTypeOK
<1>2. turn' \in [Prober -> {"filling", "draining"}]
  BY DEF EndTurn, LeadInv, LeadTypeOK
<1>3. /\ lead' \in [Lead -> LeadDoc] /\ copy' \in [Prober -> [Lead -> LeadDoc]]
      /\ probing' \in [Prober -> Lead \cup {NoLead}]
  BY <1>1, FreshGives DEF LeadInv, LeadTypeOK
<1>4. secured' \in [Prober -> [Lead -> 0 .. ProbeLease]]
  <2>1. 0 \in 0 .. ProbeLease
    OBVIOUS
  <2> QED
    BY <1>1, <2>1 DEF LeadInv, LeadTypeOK
<1>5. /\ \A v \in Prober, k \in Lead :
            copy'[v][k] = IF v = w /\ k = l THEN NoDoc ELSE copy[v][k]
      /\ \A k \in Lead : lead'[k] = IF k = l THEN doc ELSE lead[k]
      /\ \A v \in Prober, k \in Lead :
            secured'[v][k] = IF v = w /\ k = l THEN 0 ELSE secured[v][k]
  BY <1>1 DEF LeadInv, LeadTypeOK
<1>6. SoundLeads'
  BY <1>1, <1>5, FreshGives DEF LeadInv, SoundLeads
<1>7. CopiesInHand'
  <2>1. \A v \in Prober : probing'[v] = IF v = w THEN NoLead ELSE probing[v]
    BY <1>1 DEF LeadInv, LeadTypeOK
  <2>2. \A v \in Prober, k \in Lead : HasCopy(v, k)' <=> HasCopy(v, k) /\ ~(v = w /\ k = l)
    BY <1>5, FreshGives DEF HasCopy
  <2>3. \A v \in Prober : probing[v] \in Lead \cup {NoLead}
    BY DEF LeadInv, LeadTypeOK
  <2>4. \A v \in Prober, k \in Lead : HasCopy(v, k)' => copy'[v][k].state = "LEASED" /\ copy'[v][k].owner = v
    BY <1>5, <2>2 DEF LeadInv, CopiesInHand
  <2>5. ASSUME NEW v \in Prober, probing'[v] # NoLead PROVE HasCopy(v, probing[v])' /\ probing'[v] = probing[v]
    BY <2>1, <2>2, <2>3, <2>5 DEF LeadInv, CopiesInHand
  <2> QED
    BY <2>4, <2>5 DEF CopiesInHand, HasCopy
<1>8. ASSUME calm PROVE CopiesAreCurrent'
  <2> USE <1>8
  <2>1. \A v \in Prober, k \in Lead : HasCopy(v, k)' => HasCopy(v, k) /\ k # l
    BY <1>5, OneHolder, FreshGives DEF HasCopy
  <2>2. \A v \in Prober, k \in Lead : HasCopy(v, k)' =>
            /\ lead'[k] = copy'[v][k]
            /\ secured'[v][k] > 0 /\ copy'[v][k].leaseLeft = secured'[v][k]
    BY <1>5, <2>1 DEF LeadInv, CopiesAreCurrent
  <2>3. \A a \in Agent : \A r \in reading'[a] : r.doc = lead'[r.key]
    BY <1>1, <1>5 DEF LeadInv, LeadTypeOK, CopiesAreCurrent, Undisturbed, Reading
  <2> QED
    BY <1>1, <2>2, <2>3 DEF LeadInv, CopiesAreCurrent
<1> QED
  BY <1>1, <1>2, <1>3, <1>4, <1>5, <1>6, <1>7, <1>8

LEMMA KeptByDefer ==
    ASSUME LeadInv, NEW w \in Prober, NEW l \in Lead, Defer(w, l)
    PROVE  LeadInv'
<1> DEFINE doc == deferred(copy[w][l])
<1>1. HasCopy(w, l) /\ EndTurn(w, l, doc) /\ UNCHANGED <<owed, probes>>
  BY DEF Defer
<1>2. copy[w][l] \in LeadDoc /\ copy[w][l].state = "LEASED" /\ SoundLead(copy[w][l])
  BY <1>1 DEF LeadInv, LeadTypeOK, CopiesInHand, SoundLeads
<1>3. doc \in LeadDoc /\ SoundLead(doc) /\ doc.attempts = copy[w][l].attempts
  BY <1>2, DeferredGives
<1> HIDE DEF doc
<1>4. LeadTypeOK'
  BY <1>1, <1>3, CopiesAfterTurn DEF LeadInv, LeadTypeOK
<1>5. ASSUME calm PROVE BackoffIsStored' /\ ProbesAreStored'
  <2>1. lead[l] = copy[w][l] /\ owed[l] = 0
    BY <1>1, <1>5, OneHolder DEF LeadInv, CopiesAreCurrent
  <2>2. \A k \in Lead : lead'[k] = IF k = l THEN doc ELSE lead[k]
    BY <1>1, <1>3, CopiesAfterTurn
  <2> QED
    BY <1>1, <1>3, <1>5, <2>1, <2>2 DEF LeadInv, BackoffIsStored, ProbesAreStored
<1> QED
  BY <1>1, <1>3, <1>4, <1>5, CopiesAfterTurn DEF LeadInv

\* A verdict, which counts the probe and the attempt together.
LEMMA KeptByVerdict ==
    ASSUME LeadInv, NEW w \in Prober, NEW l \in Lead, HasCopy(w, l),
           NEW doc \in LeadDoc, SoundLead(doc), doc.attempts = copy[w][l].attempts + 1,
           EndTurn(w, l, doc), CountProbe(l), owed' \in [Lead -> Nat],
           \A k \in Lead \ {l} : owed'[k] = owed[k],
           calm /\ owed'[l] > 0 => \/ doc.state \in {"DEAD", "EXHAUSTED"}
                                   \/ doc.state = "RETRY" /\ doc.waitLeft >= owed'[l]
    PROVE  LeadInv'
<1>1. probes' \in [Lead -> 0 .. MAX_ATTEMPTS + 1]
  BY DEF CountProbe, LeadInv, LeadTypeOK
<1>2. LeadTypeOK'
  BY <1>1, CopiesAfterTurn DEF LeadInv, LeadTypeOK
<1>3. ASSUME calm PROVE BackoffIsStored' /\ ProbesAreStored'
  <2>1. lead[l] = copy[w][l] /\ lead[l].state = "LEASED" /\ lead[l] \in LeadDoc /\ SoundLead(lead[l])
    BY <1>3, OneHolder DEF LeadInv, CopiesAreCurrent, SoundLeads, LeadTypeOK
  <2>2. lead[l].attempts \in Nat /\ lead[l].attempts < MAX_ATTEMPTS /\ probes[l] = lead[l].attempts
    BY <1>3, <2>1, LeadFields DEF SoundLead, Open, LeadInv, ProbesAreStored
  <2>3. \A k \in Lead : probes'[k] = IF k = l THEN probes[k] + 1 ELSE probes[k]
    BY <1>3, <2>2 DEF CountProbe, LeadInv, LeadTypeOK
  <2>4. \A k \in Lead : lead'[k] = IF k = l THEN doc ELSE lead[k]
    BY CopiesAfterTurn
  <2>5. ProbesAreStored'
    BY <1>3, <2>1, <2>2, <2>3, <2>4 DEF LeadInv, ProbesAreStored
  <2>6. BackoffIsStored'
    BY <1>3, <2>4 DEF LeadInv, BackoffIsStored
  <2> QED
    BY <2>5, <2>6
<1> QED
  BY <1>2, <1>3, CopiesAfterTurn DEF LeadInv

LEMMA KeptByResolve ==
    ASSUME LeadInv, NEW w \in Prober, Resolve(w)
    PROVE  LeadInv'
<1> DEFINE l == probing[w]
           doc == resolved(copy[w][l])
<1>1. l \in Lead /\ HasCopy(w, l)
  BY DEF Resolve, LeadInv, LeadTypeOK, CopiesInHand
<1>2. EndTurn(w, l, doc) /\ CountProbe(l) /\ owed' = owed
  BY DEF Resolve
<1>3. copy[w][l] \in LeadDoc /\ copy[w][l].state = "LEASED" /\ SoundLead(copy[w][l])
  BY <1>1 DEF LeadInv, LeadTypeOK, CopiesInHand, SoundLeads
<1>4. doc \in LeadDoc /\ SoundLead(doc) /\ doc.attempts = copy[w][l].attempts + 1
  BY <1>3, ResolvedGives
<1> HIDE DEF l, doc
<1>5. owed \in [Lead -> Nat] /\ (calm => owed[l] = 0)
  BY <1>1, OneHolder DEF LeadInv, LeadTypeOK
<1> QED
  BY <1>1, <1>2, <1>4, <1>5, KeptByVerdict

LEMMA KeptByFail ==
    ASSUME LeadInv, NEW w \in Prober, NEW permanent \in BOOLEAN, Fail(w, permanent)
    PROVE  LeadInv'
<1> DEFINE l == probing[w]
           doc == failed(copy[w][l], permanent)
           k == backoff(copy[w][l].attempts + 1)
<1>1. l \in Lead /\ HasCopy(w, l)
  BY DEF Fail, LeadInv, LeadTypeOK, CopiesInHand
<1>2. EndTurn(w, l, doc) /\ CountProbe(l) /\ owed' = [owed EXCEPT ![l] = IF calm THEN k ELSE 0]
  BY DEF Fail
<1>3. copy[w][l] \in LeadDoc /\ copy[w][l].state = "LEASED" /\ SoundLead(copy[w][l])
  BY <1>1 DEF LeadInv, LeadTypeOK, CopiesInHand, SoundLeads
<1>4. /\ doc \in LeadDoc /\ SoundLead(doc) /\ doc.attempts = copy[w][l].attempts + 1
      /\ doc.state \in {"DEAD", "EXHAUSTED"} \/ (doc.state = "RETRY" /\ doc.waitLeft = k)
  BY <1>3, FailedGives
<1>5. copy[w][l].attempts + 1 \in Nat
  BY <1>3, LeadFields
<1>6. k \in Nat
  BY <1>5, BackoffType
<1> HIDE DEF l, doc, k
<1>7. owed' \in [Lead -> Nat] /\ (calm => owed'[l] = k) /\ \A o \in Lead \ {l} : owed'[o] = owed[o]
  BY <1>1, <1>2, <1>6 DEF LeadInv, LeadTypeOK
<1> QED
  BY <1>1, <1>2, <1>4, <1>6, <1>7, KeptByVerdict

LEMMA KeptByCrash ==
    ASSUME LeadInv, NEW w \in Prober, Crash(w)
    PROVE  LeadInv'
<1>1. /\ copy' = [copy EXCEPT ![w] = NoCopies]
      /\ secured' = [secured EXCEPT ![w] = [l \in Lead |-> 0]]
      /\ probing' = [probing EXCEPT ![w] = NoLead]
      /\ turn' = [turn EXCEPT ![w] = "filling"]
      /\ reading' = [reading EXCEPT ![w] = {}]
      /\ deaths' = deaths + 1
      /\ UNCHANGED <<lead, owed, probes, calm>>
  BY DEF Crash
<1>2. w \in Agent /\ NoCopies \in [Lead -> LeadDoc] /\ \A l \in Lead : NoCopies[l] = NoDoc
  BY FreshGives DEF Agent, NoCopies
<1>3. [l \in Lead |-> 0] \in [Lead -> 0 .. ProbeLease]
  <2>1. 0 \in 0 .. ProbeLease
    OBVIOUS
  <2> QED
    BY <2>1
<1>4. LeadTypeOK'
  BY <1>1, <1>2, <1>3 DEF LeadInv, LeadTypeOK
<1>5. /\ \A v \in Prober, l \in Lead : copy'[v][l] = IF v = w THEN NoDoc ELSE copy[v][l]
      /\ \A v \in Prober : v # w => secured'[v] = secured[v] /\ probing'[v] = probing[v]
      /\ \A a \in Agent : reading'[a] = IF a = w THEN {} ELSE reading[a]
  BY <1>1, <1>2 DEF LeadInv, LeadTypeOK
<1>6. \A v \in Prober, l \in Lead : HasCopy(v, l)' <=> v # w /\ HasCopy(v, l)
  BY <1>5, FreshGives DEF HasCopy
<1>7. SoundLeads'
  BY <1>1, <1>5, FreshGives DEF LeadInv, SoundLeads
<1>8. CopiesInHand'
  <2>1. \A v \in Prober, l \in Lead : HasCopy(v, l)' => copy'[v][l].state = "LEASED" /\ copy'[v][l].owner = v
    BY <1>5, <1>6 DEF LeadInv, CopiesInHand
  <2>2. probing'[w] = NoLead
    BY <1>1 DEF LeadInv, LeadTypeOK
  <2>3. \A v \in Prober : probing[v] \in Lead \cup {NoLead}
    BY DEF LeadInv, LeadTypeOK
  <2>4. \A v \in Prober : probing'[v] # NoLead => HasCopy(v, probing[v])' /\ probing'[v] = probing[v]
    BY <1>5, <1>6, <2>2, <2>3 DEF LeadInv, CopiesInHand
  <2> QED
    BY <2>1, <2>4 DEF CopiesInHand, HasCopy
<1>9. calm => CopiesAreCurrent'
  BY <1>1, <1>5, <1>6 DEF LeadInv, CopiesAreCurrent
<1> QED
  BY <1>1, <1>4, <1>7, <1>8, <1>9 DEF LeadInv, BackoffIsStored, ProbesAreStored

LEMMA KeptByTick ==
    ASSUME LeadInv, LeadTick
    PROVE  LeadInv'
<1>1. UNCHANGED <<probing, turn, deaths, probes, calm>>
  BY DEF LeadTick
<1>2. /\ lead' = [l \in Lead |-> AgedLead(lead[l])]
      /\ \A l \in Lead : lead'[l] = AgedLead(lead[l]) /\ lead[l] \in LeadDoc
  BY DEF LeadTick, LeadInv, LeadTypeOK
<1>3. /\ copy' = [w \in Prober |-> [l \in Lead |-> AgedLead(copy[w][l])]]
      /\ \A w \in Prober, l \in Lead : copy'[w][l] = AgedLead(copy[w][l]) /\ copy[w][l] \in LeadDoc
  BY DEF LeadTick, LeadInv, LeadTypeOK
<1>4. /\ secured' = [w \in Prober |-> [l \in Lead |-> Sooner(secured[w][l])]]
      /\ \A w \in Prober, l \in Lead : secured'[w][l] = Sooner(secured[w][l])
                                       /\ secured[w][l] \in 0 .. ProbeLease
  BY DEF LeadTick, LeadInv, LeadTypeOK
<1>5. /\ owed' = [l \in Lead |-> Sooner(owed[l])]
      /\ \A l \in Lead : owed'[l] = Sooner(owed[l]) /\ owed[l] \in Nat
  BY DEF LeadTick, LeadInv, LeadTypeOK
<1>6. /\ reading' = [a \in Agent |-> {[r EXCEPT !.doc = AgedLead(@)] : r \in reading[a]}]
      /\ \A a \in Agent : reading'[a] = {[r EXCEPT !.doc = AgedLead(r.doc)] : r \in reading[a]}
  BY DEF LeadTick
<1>7. ASSUME NEW a \in Agent, NEW q \in reading'[a]
      PROVE  \E r \in reading[a] : /\ q \in Reading /\ q.key = r.key /\ q.doc = AgedLead(r.doc)
                                   /\ r.doc \in LeadDoc /\ r.key \in Lead
  <2>1. PICK r \in reading[a] : q = [r EXCEPT !.doc = AgedLead(r.doc)]
    BY <1>6, <1>7
  <2>2. r \in Reading
    BY DEF LeadInv, LeadTypeOK
  <2>3. AgedLead(r.doc) \in LeadDoc
    BY <2>2, AgedGives DEF Reading
  <2> QED
    BY <2>1, <2>2, <2>3 DEF Reading
<1>8. \A n \in 0 .. ProbeLease : Sooner(n) \in 0 .. ProbeLease
  BY DEF Sooner
<1>9. \A n \in Nat : Sooner(n) \in Nat
  BY DEF Sooner
<1>10. LeadTypeOK'
  <2>1. lead' \in [Lead -> LeadDoc] /\ copy' \in [Prober -> [Lead -> LeadDoc]]
    BY <1>2, <1>3, AgedGives
  <2>2. secured' \in [Prober -> [Lead -> 0 .. ProbeLease]] /\ owed' \in [Lead -> Nat]
    BY <1>4, <1>5, <1>8, <1>9
  <2>3. reading' \in [Agent -> SUBSET Reading]
    BY <1>6, <1>7
  <2> QED
    BY <1>1, <2>1, <2>2, <2>3 DEF LeadInv, LeadTypeOK
<1>11. SoundLeads'
  BY <1>2, <1>3, <1>7, AgedGives DEF LeadInv, SoundLeads
<1>12. \A w \in Prober, l \in Lead : HasCopy(w, l)' <=> HasCopy(w, l)
  BY <1>3, AgedGives DEF HasCopy
<1>13. CopiesInHand'
  <2>1. \A w \in Prober, l \in Lead : HasCopy(w, l)' => copy'[w][l].state = "LEASED" /\ copy'[w][l].owner = w
    BY <1>3, <1>12, AgedGives DEF LeadInv, CopiesInHand
  <2>2. \A w \in Prober : probing[w] # NoLead => probing[w] \in Lead /\ HasCopy(w, probing[w])'
    BY <1>1, <1>12 DEF LeadInv, LeadTypeOK, CopiesInHand
  <2> QED
    BY <1>1, <2>1, <2>2 DEF CopiesInHand, HasCopy
<1>14. ASSUME calm PROVE CopiesAreCurrent' /\ BackoffIsStored' /\ ProbesAreStored'
  <2> USE <1>14
  <2>1. \A w \in Prober, l \in Lead : HasCopy(w, l)' =>
            /\ lead'[l] = copy'[w][l]
            /\ secured'[w][l] > 0 /\ copy'[w][l].leaseLeft = secured'[w][l]
    <3> TAKE w \in Prober, l \in Lead
    <3>1. HasCopy(w, l) => /\ lead[l] = copy[w][l]
                           /\ secured[w][l] > 0 /\ copy[w][l].leaseLeft = secured[w][l]
      BY DEF LeadInv, CopiesAreCurrent
    <3>2. secured[w][l] # 1
      BY DEF LeadTick
    <3>3. secured[w][l] > 0 => Sooner(secured[w][l]) > 0
      BY <1>4, <3>2 DEF Sooner
    <3> QED
      BY <1>2, <1>3, <1>4, <1>12, <3>1, <3>3, AgedGives
  <2>2. \A a \in Agent : \A q \in reading'[a] : q.doc = lead'[q.key]
    BY <1>2, <1>7 DEF LeadInv, CopiesAreCurrent
  <2>3. \A a, b \in Agent : reading'[a] # {} /\ reading'[b] # {} => a = b
    BY <1>7 DEF LeadInv, CopiesAreCurrent
  <2>4. BackoffIsStored'
    <3> SUFFICES ASSUME NEW l \in Lead, owed'[l] > 0
                 PROVE  \/ lead'[l].state \in {"DEAD", "EXHAUSTED"}
                        \/ lead'[l].state = "RETRY" /\ lead'[l].waitLeft >= owed'[l]
      BY DEF BackoffIsStored
    <3>1. owed[l] > 0 /\ owed'[l] = owed[l] - 1
      BY <1>5 DEF Sooner
    <3>2. \/ lead[l].state \in {"DEAD", "EXHAUSTED"}
          \/ lead[l].state = "RETRY" /\ lead[l].waitLeft >= owed[l]
      BY <3>1 DEF LeadInv, BackoffIsStored
    <3>3. /\ lead'[l].state = lead[l].state /\ lead'[l].waitLeft = Sooner(lead[l].waitLeft)
          /\ lead[l].waitLeft \in Nat
      BY <1>2, AgedGives, LeadFields
    <3> QED
      BY <1>5, <3>1, <3>2, <3>3 DEF Sooner
  <2>5. ProbesAreStored'
    BY <1>1, <1>2, AgedGives DEF LeadInv, ProbesAreStored
  <2> QED
    BY <2>1, <2>2, <2>3, <2>4, <2>5 DEF CopiesAreCurrent
<1> QED
  BY <1>1, <1>10, <1>11, <1>13, <1>14 DEF LeadInv
-----------------------------------------------------------------------------
(* The theorems. *)

\* In any behaviour every document and every copy is sound; in a calm one no copy
\* is ever stale, and what is owed and counted is what is stored.
THEOREM LeadsAreCurrent == LeadSpec => []LeadInv
<1>1. LeadInit => LeadInv
  <2> SUFFICES ASSUME LeadInit PROVE LeadInv
    OBVIOUS
  <2>1. 0 \in 0 .. ProbeLease /\ 0 \in 0 .. MAX_ATTEMPTS + 1
    OBVIOUS
  <2>2. LeadTypeOK
    BY <2>1, FreshGives DEF LeadInit, LeadTypeOK, NoCopies
  <2>3. CopiesInHand /\ SoundLeads
    BY FreshGives DEF LeadInit, CopiesInHand, SoundLeads, HasCopy, NoCopies
  <2>4. CopiesAreCurrent /\ BackoffIsStored /\ ProbesAreStored
    BY FreshGives DEF LeadInit, CopiesAreCurrent, BackoffIsStored, ProbesAreStored, HasCopy, NoCopies
  <2> QED
    BY <2>2, <2>3, <2>4 DEF LeadInv
<1>2. LeadInv /\ [LeadNext]_leadVars => LeadInv'
  <2>1. ASSUME LeadInv, LeadNext PROVE LeadInv'
    BY <2>1, KeptByEnqueueRead, KeptByEnqueuePut, KeptByLease, KeptByStartProbe, KeptByDefer,
       KeptByResolve, KeptByFail, KeptByCrash, KeptByTick DEF LeadNext, ProberStep, Verdict
  <2>2. ASSUME LeadInv, UNCHANGED leadVars PROVE LeadInv'
    BY <2>2 DEF leadVars, LeadInv, LeadTypeOK, CopiesInHand, SoundLeads, CopiesAreCurrent,
       BackoffIsStored, ProbesAreStored, HasCopy
  <2> QED
    BY <2>1, <2>2
<1> QED
  BY <1>1, <1>2, PTL DEF LeadSpec

\* Every variable of the discovery queue keeps its type.
THEOREM LeadTypeCorrect == LeadSpec => []LeadTypeOK
<1>1. LeadInv => LeadTypeOK
  BY DEF LeadInv
<1> QED
  BY <1>1, LeadsAreCurrent, PTL

\* The lease a dead worker leaves behind can be taken over, in every behaviour.
THEOREM LapsedLeadsAreDue == LeadSpec => []LapsedLeadIsDue
<1>1. LeadInv => LapsedLeadIsDue
  BY DEF LeadInv, SoundLeads, SoundLead, Open, LapsedLeadIsDue, leasable
<1> QED
  BY <1>1, LeadsAreCurrent, PTL

\* In calm behaviours no worker takes a lead, or holds it, while a failure's backoff
\* runs: deferrals, crashes and enqueues that read after the failure do not cut it.
THEOREM BackoffsAreKept == LeadSpec => []BackoffIsKept
<1>1. LeadInv => BackoffIsKept
  BY OneHolder DEF BackoffIsKept
<1> QED
  BY <1>1, LeadsAreCurrent, PTL

\* In calm behaviours the attempts a document counts are the probes that came to a
\* verdict.
THEOREM AttemptsCountProbes == LeadSpec => []AttemptsAreProbes
<1>1. LeadInv => AttemptsAreProbes
  BY DEF LeadInv, ProbesAreStored, AttemptsAreProbes
<1> QED
  BY <1>1, LeadsAreCurrent, PTL
-----------------------------------------------------------------------------
(* In calm behaviours the queue implements the abstract one. *)

Statuses == [l \in Lead |-> leadStatus(lead[l])]
InHand == [w \in Prober |-> {l \in Lead : HasCopy(w, l)}]

\* Nothing that the abstract queue knows of has changed.
LEMMA PromiseStutters ==
    ASSUME \A l \in Lead : leadStatus(lead'[l]) = leadStatus(lead[l]),
           \A w \in Prober, l \in Lead : HasCopy(w, l)' <=> HasCopy(w, l)
    PROVE  UNCHANGED <<Statuses, InHand>>
BY DEF Statuses, InHand

LEMMA EnqueuePutIsAdd ==
    ASSUME LeadInv, calm, NEW a \in Agent, EnqueuePut(a)
    PROVE  Promise!Next \/ UNCHANGED <<Statuses, InHand>>
<1>1. PICK r \in reading[a] : lead' = [lead EXCEPT ![r.key] = enqueued(r.doc)]
  BY DEF EnqueuePut
<1>2. r.key \in Lead /\ r.doc = lead[r.key] /\ copy' = copy
  BY DEF EnqueuePut, proberVars, LeadInv, LeadTypeOK, CopiesAreCurrent, Reading
<1>3. CASE lead[r.key].state = "ABSENT"
  <2>1. lead' = [lead EXCEPT ![r.key] = makeDiscoveryTask]
    BY <1>1, <1>2, <1>3 DEF enqueued
  <2>2. \A w \in Prober : ~HasCopy(w, r.key)
    BY <1>2, <1>3, OneHolder
  <2>3. Statuses' = [Statuses EXCEPT ![r.key] = "open"] /\ Statuses[r.key] = "none"
    BY <1>2, <1>3, <2>1, FreshGives DEF Statuses, leadStatus, Open, LeadInv, LeadTypeOK
  <2>4. InHand' = InHand /\ \A w \in Prober : r.key \notin InHand[w]
    BY <1>2, <2>2 DEF InHand, HasCopy
  <2>5. Promise!Add(r.key)
    BY <2>3, <2>4 DEF Promise!Add, Promise!Free, Statuses, InHand
  <2> QED
    BY <1>2, <2>5 DEF Promise!Next
<1>4. CASE lead[r.key].state # "ABSENT"
  BY <1>1, <1>2, <1>4, PromiseStutters DEF enqueued, LeadInv, LeadTypeOK, HasCopy
<1> QED
  BY <1>3, <1>4

LEMMA LeaseIsTake ==
    ASSUME LeadInv, calm, NEW w \in Prober, NEW l \in Lead, Lease(w, l)
    PROVE  Promise!Next
<1> DEFINE d == leaseTo(lead[l], w)
<1>1. /\ lead' = [lead EXCEPT ![l] = d]
      /\ copy' = [copy EXCEPT ![w] = [copy[w] EXCEPT ![l] = d]]
      /\ leasable(lead[l])
  BY DEF Lease, LeadInv, LeadTypeOK
<1>2. d.state = "LEASED" /\ lead[l].state \in Open
  BY <1>1, LeaseToGives DEF LeadInv, LeadTypeOK, SoundLeads
<1>3. \A v \in Prober : ~HasCopy(v, l)
  BY <1>1, OneHolder
<1> HIDE DEF d
<1>4. \A v \in Prober, k \in Lead : HasCopy(v, k)' <=> HasCopy(v, k) \/ (v = w /\ k = l)
  BY <1>1, <1>2 DEF HasCopy, LeadInv, LeadTypeOK
<1>5. InHand' = [InHand EXCEPT ![w] = @ \cup {l}]
  BY <1>4 DEF InHand
<1>6. Statuses' = Statuses /\ Statuses[l] = "open"
  BY <1>1, <1>2 DEF Statuses, leadStatus, Open, LeadInv, LeadTypeOK
<1>7. \A v \in Prober : l \notin InHand[v]
  BY <1>3 DEF InHand
<1>8. Promise!Take(w, l)
  BY <1>5, <1>6, <1>7 DEF Promise!Take, Promise!Free, Statuses, InHand
<1> QED
  BY <1>8 DEF Promise!Next

LEMMA EndOfTurnIsReturn ==
    ASSUME LeadInv, NEW w \in Prober, NEW l \in Lead, HasCopy(w, l),
           NEW doc \in LeadDoc, doc.state # "ABSENT", EndTurn(w, l, doc)
    PROVE  Promise!Next
<1>1. /\ lead' = [lead EXCEPT ![l] = doc]
      /\ copy' = [copy EXCEPT ![w] = [copy[w] EXCEPT ![l] = NoDoc]]
  BY DEF EndTurn, LeadInv, LeadTypeOK
<1>2. \A v \in Prober, k \in Lead : HasCopy(v, k)' <=> HasCopy(v, k) /\ ~(v = w /\ k = l)
  BY <1>1, FreshGives DEF HasCopy, LeadInv, LeadTypeOK
<1>3. InHand' = [InHand EXCEPT ![w] = @ \ {l}] /\ l \in InHand[w]
  BY <1>2 DEF InHand
<1>4. Statuses' = [Statuses EXCEPT ![l] = leadStatus(doc)]
  BY <1>1 DEF Statuses, LeadInv, LeadTypeOK
<1>5. leadStatus(doc) \in {"open", "done", "shelved"}
  BY DEF leadStatus
<1>6. Promise!Return(w, l, leadStatus(doc))
  BY <1>3, <1>4 DEF Promise!Return, Statuses, InHand
<1> QED
  BY <1>5, <1>6 DEF Promise!Next

LEMMA CrashIsDie ==
    ASSUME LeadInv, NEW w \in Prober, Crash(w)
    PROVE  Promise!Next
<1>1. lead' = lead /\ copy' = [copy EXCEPT ![w] = NoCopies]
  BY DEF Crash
<1>2. \A v \in Prober, l \in Lead : HasCopy(v, l)' <=> v # w /\ HasCopy(v, l)
  BY <1>1, FreshGives DEF HasCopy, NoCopies, LeadInv, LeadTypeOK
<1>3. InHand' = [InHand EXCEPT ![w] = {}]
  BY <1>2 DEF InHand
<1>4. Statuses' = Statuses
  BY <1>1 DEF Statuses
<1>5. Promise!Die(w)
  BY <1>3, <1>4 DEF Promise!Die, Statuses, InHand
<1> QED
  BY <1>5 DEF Promise!Next

LEMMA StepsKeepThePromise ==
    ASSUME LeadInv, calm, LeadNext
    PROVE  Promise!Next \/ UNCHANGED <<Statuses, InHand>>
<1>1. ASSUME NEW a \in Agent, NEW l \in Lead, EnqueueRead(a, l)
      PROVE  UNCHANGED <<Statuses, InHand>>
  BY <1>1, PromiseStutters DEF EnqueueRead, proberVars, HasCopy
<1>2. ASSUME NEW w \in Prober, NEW l \in Lead, StartProbe(w, l)
      PROVE  UNCHANGED <<Statuses, InHand>>
  BY <1>2, PromiseStutters DEF StartProbe, HasCopy
<1>3. ASSUME NEW w \in Prober, NEW l \in Lead, HasCopy(w, l)
      PROVE  copy[w][l] \in LeadDoc /\ copy[w][l].state = "LEASED" /\ SoundLead(copy[w][l])
  BY <1>3 DEF LeadInv, LeadTypeOK, CopiesInHand, SoundLeads
<1>4. ASSUME NEW w \in Prober, NEW l \in Lead, Defer(w, l) PROVE Promise!Next
  <2>1. HasCopy(w, l) /\ EndTurn(w, l, deferred(copy[w][l]))
    BY <1>4 DEF Defer
  <2>2. deferred(copy[w][l]) \in LeadDoc /\ deferred(copy[w][l]).state # "ABSENT"
    BY <1>3, <2>1, DeferredGives
  <2> QED
    BY <2>1, <2>2, EndOfTurnIsReturn
<1>5. ASSUME NEW w \in Prober, probing[w] # NoLead
      PROVE  probing[w] \in Lead /\ HasCopy(w, probing[w])
  BY <1>5 DEF LeadInv, LeadTypeOK, CopiesInHand
<1>6. ASSUME NEW w \in Prober, Resolve(w) PROVE Promise!Next
  <2>1. /\ probing[w] \in Lead /\ HasCopy(w, probing[w])
        /\ EndTurn(w, probing[w], resolved(copy[w][probing[w]]))
    BY <1>5, <1>6 DEF Resolve
  <2>2. /\ resolved(copy[w][probing[w]]) \in LeadDoc
        /\ resolved(copy[w][probing[w]]).state # "ABSENT"
    BY <1>3, <2>1, ResolvedGives
  <2> QED
    BY <2>1, <2>2, EndOfTurnIsReturn
<1>7. ASSUME NEW w \in Prober, NEW permanent \in BOOLEAN, Fail(w, permanent) PROVE Promise!Next
  <2>1. /\ probing[w] \in Lead /\ HasCopy(w, probing[w])
        /\ EndTurn(w, probing[w], failed(copy[w][probing[w]], permanent))
    BY <1>5, <1>7 DEF Fail
  <2>2. /\ failed(copy[w][probing[w]], permanent) \in LeadDoc
        /\ failed(copy[w][probing[w]], permanent).state # "ABSENT"
    BY <1>3, <2>1, FailedGives
  <2> QED
    BY <2>1, <2>2, EndOfTurnIsReturn
<1>8. ASSUME LeadTick PROVE UNCHANGED <<Statuses, InHand>>
  <2>1. \A l \in Lead : lead'[l].state = lead[l].state
    BY <1>8, AgedGives DEF LeadTick, LeadInv, LeadTypeOK
  <2>2. \A w \in Prober, l \in Lead : copy'[w][l].state = copy[w][l].state
    BY <1>8, AgedGives DEF LeadTick, LeadInv, LeadTypeOK
  <2> QED
    BY <2>1, <2>2, PromiseStutters DEF leadStatus, HasCopy
<1> QED
  BY <1>1, <1>2, <1>4, <1>6, <1>7, <1>8, EnqueuePutIsAdd, LeaseIsTake, CrashIsDie
     DEF LeadNext, ProberStep, Verdict

\* The discovery queue implements LeaseQueue in calm behaviours: one worker at a
\* time has a lead, only that worker settles it, and a lead that is exhausted or
\* dead is not reopened by an enqueue that reads it so.
THEOREM DiscoveryKeepsPromise == LeadSpec => LeadsKeepPromise
<1>1. LeadInit => (calm => Promise!Init)
  <2> SUFFICES ASSUME LeadInit PROVE Promise!Init
    OBVIOUS
  <2>1. \A l \in Lead : lead[l].state = "ABSENT" /\ \A w \in Prober : ~HasCopy(w, l)
    BY FreshGives DEF LeadInit, HasCopy, NoCopies
  <2>2. \A l \in Lead : leadStatus(lead[l]) = "none"
    BY <2>1 DEF leadStatus, Open
  <2>3. [l \in Lead |-> leadStatus(lead[l])] = [l \in Lead |-> "none"]
    BY <2>2
  <2>4. \A w \in Prober : {l \in Lead : HasCopy(w, l)} = {}
    BY <2>1
  <2>5. [w \in Prober |-> {l \in Lead : HasCopy(w, l)}] = [w \in Prober |-> {}]
    BY <2>4
  <2> QED
    BY <2>3, <2>5 DEF Promise!Init
<1>2. LeadInv /\ [LeadNext]_leadVars =>
         [calm => Promise!Next]_<<[l \in Lead |-> leadStatus(lead[l])],
                                  [w \in Prober |-> {l \in Lead : HasCopy(w, l)}]>>
  <2>1. ASSUME LeadInv, LeadNext, calm PROVE Promise!Next \/ UNCHANGED <<Statuses, InHand>>
    BY <2>1, StepsKeepThePromise
  <2>2. ASSUME UNCHANGED leadVars PROVE UNCHANGED <<Statuses, InHand>>
    BY <2>2 DEF leadVars, Statuses, InHand, HasCopy
  <2> QED
    BY <2>1, <2>2 DEF Statuses, InHand
<1> QED
  BY <1>1, <1>2, LeadsAreCurrent, PTL DEF LeadSpec, LeadsKeepPromise
=============================================================================
