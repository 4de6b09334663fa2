------------------------ MODULE RateControlProofs ------------------------
(***************************************************************************)
(* Proofs about the transport, for any number of requests, hosts and       *)
(* slots: however the releases and the continuations interleave, a freed   *)
(* slot is claimed by the request that was woken for it before anybody     *)
(* else can take it, so the bounds hold and no wake-up is lost.  The       *)
(* argument counts, for each semaphore, the requests that have taken a     *)
(* slot and those that were woken for one (claims), and follows the queue  *)
(* of due continuations, which is never longer than three.                 *)
(***************************************************************************)
EXTENDS RateControl, FiniteSetTheorems, SequenceTheorems, TLAPS

USE RateAssumption

\* What a request's leg says of a slot of s: it has it, was woken for it, waits for it.
Has(leg, s) ==
    IF s = Global
    THEN leg.step \in {"granted", "hostQueued", "hostWoken", "hostGranted", "waiting",
                       "flying", "landed", "freed"}
    ELSE leg.step \in {"hostGranted", "waiting", "flying", "landed"} /\ leg.host = s
WokenFor(leg, s) ==
    IF s = Global THEN leg.step = "woken" ELSE leg.step = "hostWoken" /\ leg.host = s
Waits(leg, s) ==
    IF s = Global THEN leg.step = "queued" ELSE leg.step = "hostQueued" /\ leg.host = s

Taken(s) == {r \in Request : Has(at[r], s)}
Claimed(s) == {r \in Request : Has(at[r], s) \/ WokenFor(at[r], s)}

\* The slots of s are accounted for, and while somebody waits each is claimed.
CountedAt(s) ==
    /\ active[s] = Cardinality(Taken(s))
    /\ Cardinality(Claimed(s)) =< limit(s)
    /\ queue[s] # <<>> => Cardinality(Claimed(s)) = limit(s)

\* Those in a queue wait for that semaphore, and each is in it once.
QueuedAt(s) ==
    /\ \A i \in 1 .. Len(queue[s]) : Waits(at[queue[s][i]], s)
    /\ \A i, j \in 1 .. Len(queue[s]) : queue[s][i] = queue[s][j] => i = j

Hosted == \A r \in Request : at[r].step # "idle" => at[r].host \in Host

\* The continuations that can be due together, and in which order.
DueSteps == {"woken", "granted", "hostWoken", "hostGranted", "landed", "freed", "over"}
Due == {r \in Request : at[r].step \in DueSteps}
DueOne(a) ==
    /\ ready = <<a>> /\ Due = {a}
    /\ at[a].step \in {"granted", "hostGranted", "landed", "freed", "over"}
DueTwo(a, b) ==
    /\ a # b /\ ready = <<a, b>> /\ Due = {a, b}
    /\ \/ at[a].step = "hostWoken" /\ at[b].step = "freed"
       \/ at[a].step = "freed" /\ at[b].step = "hostGranted"
       \/ at[a].step = "hostGranted" /\ at[b].step = "over"
       \/ at[a].step = "woken" /\ at[b].step = "over"
       \/ at[a].step = "over" /\ at[b].step = "granted"
DueThree(a, b, c) ==
    /\ a # b /\ a # c /\ b # c /\ ready = <<a, b, c>> /\ Due = {a, b, c}
    /\ at[a].step = "hostGranted" /\ at[b].step = "woken" /\ at[c].step = "over"
ReadyOK ==
    \/ ready = <<>> /\ Due = {}
    \/ \E a \in Request : DueOne(a)
    \/ \E a, b \in Request : DueTwo(a, b)
    \/ \E a, b, c \in Request : DueThree(a, b, c)

RateInv ==
    /\ RateTypeOK
    /\ Hosted
    /\ ReadyOK
    /\ \A s \in Semaphore : QueuedAt(s) /\ CountedAt(s)

-----------------------------------------------------------------------------
(* Counting *)

LEMMA SemaphoreFacts ==
    /\ Global \in Semaphore /\ Host \subseteq Semaphore /\ Global \notin Host
    /\ \A s \in Semaphore : limit(s) \in Nat \ {0}
  BY DEF Semaphore, limit

LEMMA FinitelyMany ==
    \A s : /\ IsFiniteSet(Taken(s)) /\ Cardinality(Taken(s)) \in Nat
           /\ IsFiniteSet(Claimed(s)) /\ Cardinality(Claimed(s)) \in Nat
           /\ Taken(s) \subseteq Claimed(s) /\ Cardinality(Taken(s)) =< Cardinality(Claimed(s))
  <1> TAKE s
  <1>1. Taken(s) \in SUBSET Claimed(s) /\ Claimed(s) \in SUBSET Request
    BY DEF Taken, Claimed
  <1>2. IsFiniteSet(Claimed(s))
    BY <1>1, FS_Subset
  <1>3. IsFiniteSet(Taken(s)) /\ Cardinality(Taken(s)) =< Cardinality(Claimed(s))
    BY <1>1, <1>2, FS_Subset
  <1> QED BY <1>1, <1>2, <1>3, FS_CardinalityType

\* The counts of a set and of a set that contains it, when one member is added or removed.
LEMMA Counts ==
    ASSUME NEW S, IsFiniteSet(S), NEW r
    PROVE  /\ Cardinality(S) \in Nat
           /\ r \in S => Cardinality(S) >= 1 /\ Cardinality(S \ {r}) = Cardinality(S) - 1
           /\ r \notin S => Cardinality(S \cup {r}) = Cardinality(S) + 1
           /\ IsFiniteSet(S \ {r}) /\ IsFiniteSet(S \cup {r})
  <1>1. IsFiniteSet(S \ {r}) /\ Cardinality(S \ {r}) \in Nat /\ Cardinality(S) \in Nat
    BY FS_RemoveElement, FS_CardinalityType
  <1> QED BY <1>1, FS_RemoveElement, FS_AddElement

\* Nothing about s changes.
LEMMA SameClaims ==
    ASSUME NEW s \in Semaphore, CountedAt(s), Taken(s)' = Taken(s), Claimed(s)' = Claimed(s),
           active'[s] = active[s], queue'[s] = queue[s]
    PROVE  CountedAt(s)'
  BY DEF CountedAt, limit

\* r takes a free slot.
LEMMA ClaimTaken ==
    ASSUME NEW s \in Semaphore, NEW r, CountedAt(s), Claimed(s) = Taken(s), r \notin Taken(s),
           active[s] < limit(s), active'[s] = active[s] + 1, queue'[s] = queue[s],
           Taken(s)' = Taken(s) \cup {r}, Claimed(s)' = Claimed(s) \cup {r}
    PROVE  CountedAt(s)'
  <1>1. Cardinality(Taken(s)') = Cardinality(Taken(s)) + 1 /\ Cardinality(Taken(s)) \in Nat
    BY FinitelyMany, Counts
  <1>2. queue[s] = <<>>
    BY <1>1, SemaphoreFacts DEF CountedAt
  <1> QED BY <1>1, <1>2, SemaphoreFacts DEF CountedAt, limit

\* No slot is free, and somebody joins the queue.
LEMMA ClaimAwaited ==
    ASSUME NEW s \in Semaphore, CountedAt(s), Claimed(s) = Taken(s), ~(active[s] < limit(s)),
           active'[s] = active[s], Taken(s)' = Taken(s), Claimed(s)' = Claimed(s)
    PROVE  CountedAt(s)'
  BY FinitelyMany, SemaphoreFacts DEF CountedAt, limit

\* r counts the slot it was woken for.
LEMMA ClaimCounted ==
    ASSUME NEW s \in Semaphore, NEW r, CountedAt(s), r \notin Taken(s),
           active'[s] = active[s] + 1, queue'[s] = queue[s],
           Taken(s)' = Taken(s) \cup {r}, Claimed(s)' = Claimed(s)
    PROVE  CountedAt(s)'
  <1>1. Cardinality(Taken(s)') = Cardinality(Taken(s)) + 1
    BY FinitelyMany, Counts
  <1> QED BY <1>1 DEF CountedAt, limit

\* r frees its slot and nobody waits.
LEMMA ClaimFreed ==
    ASSUME NEW s \in Semaphore, NEW r, CountedAt(s), r \in Taken(s), queue'[s] = <<>>,
           active'[s] = (IF active[s] > 0 THEN active[s] - 1 ELSE 0),
           Taken(s)' = Taken(s) \ {r}, Claimed(s)' = Claimed(s) \ {r}
    PROVE  CountedAt(s)'
  <1>1. /\ Cardinality(Taken(s)') = Cardinality(Taken(s)) - 1 /\ Cardinality(Taken(s)) >= 1
        /\ Cardinality(Claimed(s)') = Cardinality(Claimed(s)) - 1
        /\ Cardinality(Taken(s)) \in Nat /\ Cardinality(Claimed(s)) \in Nat
    BY FinitelyMany, Counts
  <1> QED BY <1>1, SemaphoreFacts DEF CountedAt, limit

\* r frees its slot, and the request that is woken claims it.
LEMMA ClaimPassedOn ==
    ASSUME NEW s \in Semaphore, NEW r, NEW next, CountedAt(s), r \in Taken(s),
           next \notin Claimed(s), queue[s] # <<>>,
           active'[s] = (IF active[s] > 0 THEN active[s] - 1 ELSE 0),
           Taken(s)' = Taken(s) \ {r}, Claimed(s)' = (Claimed(s) \ {r}) \cup {next}
    PROVE  CountedAt(s)'
  <1>1. /\ Cardinality(Taken(s)') = Cardinality(Taken(s)) - 1 /\ Cardinality(Taken(s)) >= 1
        /\ Cardinality(Claimed(s) \ {r}) = Cardinality(Claimed(s)) - 1
        /\ Cardinality(Taken(s)) \in Nat /\ Cardinality(Claimed(s)) \in Nat
        /\ IsFiniteSet(Claimed(s) \ {r})
    BY FinitelyMany, Counts
  <1>2. Cardinality(Claimed(s)') = Cardinality(Claimed(s) \ {r}) + 1
    BY <1>1, Counts
  <1> QED BY <1>1, <1>2, SemaphoreFacts DEF CountedAt, limit

-----------------------------------------------------------------------------
(* One request moves *)

MovedTo(r, leg) ==
    /\ leg \in Leg /\ at' \in [Request -> Leg] /\ at'[r] = leg
    /\ \A q \in Request \ {r} : at'[q] = at[q]

LEMMA MovesTo ==
    ASSUME at \in [Request -> Leg], NEW r \in Request, NEW step \in Step, Moves(r, step)
    PROVE  MovedTo(r, [at[r] EXCEPT !.step = step])
  <1>1. [at[r] EXCEPT !.step = step] \in Leg
    BY DEF Leg
  <1> QED BY <1>1 DEF Moves, MovedTo

\* Such a move changes the two sets in r alone.
LEMMA MovedSets ==
    ASSUME NEW r \in Request, NEW leg, MovedTo(r, leg), NEW s \in Semaphore
    PROVE  /\ Taken(s)' = IF Has(leg, s) THEN Taken(s) \cup {r} ELSE Taken(s) \ {r}
           /\ Claimed(s)' = IF Has(leg, s) \/ WokenFor(leg, s)
                            THEN Claimed(s) \cup {r} ELSE Claimed(s) \ {r}
           /\ r \in Taken(s) <=> Has(at[r], s)
           /\ r \in Claimed(s) <=> Has(at[r], s) \/ WokenFor(at[r], s)
  <1>1. \A q \in Request : Has(at'[q], s) <=> IF q = r THEN Has(leg, s) ELSE Has(at[q], s)
    BY DEF MovedTo
  <1>2. \A q \in Request :
           WokenFor(at'[q], s) <=> IF q = r THEN WokenFor(leg, s) ELSE WokenFor(at[q], s)
    BY DEF MovedTo
  <1>3. Has(leg, s)' <=> Has(leg, s)
    BY DEF Has
  <1>4. /\ Taken(s)' = {q \in Request : Has(at'[q], s)}
        /\ Claimed(s)' = {q \in Request : Has(at'[q], s) \/ WokenFor(at'[q], s)}
    BY DEF Taken, Claimed, Has, WokenFor
  <1> QED BY <1>1, <1>2, <1>4, Zenon DEF Taken, Claimed

\* A move that is none of s's business.
LEMMA MovedElsewhere ==
    ASSUME NEW r \in Request, NEW leg, MovedTo(r, leg), NEW s \in Semaphore,
           Has(leg, s) <=> Has(at[r], s), WokenFor(leg, s) <=> WokenFor(at[r], s)
    PROVE  Taken(s)' = Taken(s) /\ Claimed(s)' = Claimed(s)
  BY MovedSets

\* A queue keeps its order and its members, who do not move.
LEMMA QueueStays ==
    ASSUME queue \in [Semaphore -> Seq(Request)], NEW r \in Request, NEW leg,
           MovedTo(r, leg), NEW s \in Semaphore, QueuedAt(s), queue'[s] = queue[s],
           at[r].step \notin {"queued", "hostQueued"}
    PROVE  QueuedAt(s)'
  <1>1. \A i \in 1 .. Len(queue[s]) : queue[s][i] \in Request /\ Waits(at[queue[s][i]], s)
    BY DEF QueuedAt
  <1>2. \A q : Waits(at[q], s) => q # r
    BY DEF Waits
  <1>3. \A i \in 1 .. Len(queue[s]) : Waits(at'[queue[s][i]], s)
    BY <1>1, <1>2 DEF MovedTo
  <1> QED BY <1>3 DEF QueuedAt, Waits

\* r joins it.
LEMMA QueueGrows ==
    ASSUME queue \in [Semaphore -> Seq(Request)], NEW r \in Request, NEW leg,
           MovedTo(r, leg), NEW s \in Semaphore, QueuedAt(s),
           queue'[s] = Append(queue[s], r), Waits(leg, s),
           at[r].step \notin {"queued", "hostQueued"}
    PROVE  QueuedAt(s)'
  <1>1. \A i \in 1 .. Len(queue[s]) : queue[s][i] \in Request /\ Waits(at[queue[s][i]], s)
    BY DEF QueuedAt
  <1>2. \A q : Waits(at[q], s) => q # r
    BY DEF Waits
  <1>3. /\ Len(queue'[s]) = Len(queue[s]) + 1 /\ Len(queue[s]) \in Nat
        /\ \A i \in 1 .. Len(queue'[s]) :
              queue'[s][i] = IF i = Len(queue[s]) + 1 THEN r ELSE queue[s][i]
    OBVIOUS
  <1>4. ASSUME NEW i \in 1 .. Len(queue'[s]) PROVE Waits(at'[queue'[s][i]], s)
    <2>1. CASE i = Len(queue[s]) + 1
      BY <1>3, <2>1 DEF MovedTo
    <2>2. CASE i \in 1 .. Len(queue[s])
      BY <1>1, <1>2, <1>3, <2>2 DEF MovedTo
    <2> QED BY <1>3, <2>1, <2>2
  <1>5. ASSUME NEW i \in 1 .. Len(queue'[s]), NEW j \in 1 .. Len(queue'[s]),
               queue'[s][i] = queue'[s][j]
        PROVE  i = j
    <2>1. CASE i \in 1 .. Len(queue[s]) /\ j \in 1 .. Len(queue[s])
      BY <1>3, <1>5, <2>1 DEF QueuedAt
    <2>2. CASE i = Len(queue[s]) + 1 /\ j \in 1 .. Len(queue[s])
      BY <1>1, <1>2, <1>3, <1>5, <2>2
    <2>3. CASE i \in 1 .. Len(queue[s]) /\ j = Len(queue[s]) + 1
      BY <1>1, <1>2, <1>3, <1>5, <2>3
    <2> QED BY <1>3, <2>1, <2>2, <2>3
  <1> QED BY <1>4, <1>5 DEF QueuedAt, Waits

LEMMA HostedStays ==
    ASSUME Hosted, NEW r \in Request, NEW leg, MovedTo(r, leg),
           leg.step # "idle" => leg.host \in Host
    PROVE  Hosted'
  BY DEF Hosted, MovedTo

\* Due changes in r alone.
LEMMA MovedDue ==
    ASSUME NEW r \in Request, NEW leg, MovedTo(r, leg)
    PROVE  Due' = IF leg.step \in DueSteps THEN Due \cup {r} ELSE Due \ {r}
  BY DEF Due, MovedTo

-----------------------------------------------------------------------------
(* Steps that neither take nor free a slot *)

\* r moves between steps that mean the same to every semaphore, and nothing is due
\* that was not.
LEMMA QuietMove ==
    ASSUME RateInv, NEW r \in Request, NEW leg, MovedTo(r, leg),
           breaker' \in [Host -> Breaker], UNCHANGED <<active, queue, ready>>,
           at[r].step \notin DueSteps \cup {"queued", "hostQueued"}, leg.step \notin DueSteps,
           leg.step # "idle" => leg.host \in Host,
           \A s \in Semaphore : /\ Has(leg, s) <=> Has(at[r], s)
                                /\ WokenFor(leg, s) <=> WokenFor(at[r], s)
    PROVE  RateInv'
  <1>1. RateTypeOK'
    BY DEF RateInv, RateTypeOK, MovedTo
  <1>2. Hosted'
    BY HostedStays DEF RateInv
  <1>3. Due' = Due /\ \A q \in Due : at'[q] = at[q]
    BY MovedDue DEF Due, MovedTo
  <1>4. ReadyOK'
    BY <1>3 DEF RateInv, ReadyOK, DueOne, DueTwo, DueThree
  <1>5. ASSUME NEW s \in Semaphore PROVE QueuedAt(s)'
    BY QueueStays DEF RateInv, RateTypeOK
  <1>6. ASSUME NEW s \in Semaphore PROVE CountedAt(s)'
    BY MovedElsewhere, SameClaims DEF RateInv
  <1> QED BY <1>1, <1>2, <1>4, <1>5, <1>6 DEF RateInv

LEMMA BreakerSteps ==
    ASSUME NEW b \in Breaker
    PROVE  onSuccess(b) \in Breaker /\ onFailure(b) \in Breaker /\ canRequest(b) \in Breaker
  <1>1. failureThreshold \in Nat \ {0} /\ OPEN_FOR \in Nat
    OBVIOUS
  <1>2. onSuccess(b) \in Breaker /\ canRequest(b) \in Breaker
    BY <1>1 DEF Breaker, onSuccess, shut, canRequest
  <1>3. (IF b.failures < failureThreshold THEN b.failures + 1 ELSE b.failures)
           \in 0 .. failureThreshold
    BY <1>1 DEF Breaker
  <1> QED BY <1>1, <1>2, <1>3 DEF Breaker, onFailure

LEMMA ReturnedLeg == returned \in Leg /\ returned.step = "idle"
  BY DEF returned, Leg, Step

LEMMA FetchQuiet ==
    ASSUME RateInv, NEW r \in Request, NEW h \in Host, fetch(r, h) PROVE RateInv'
  <1> DEFINE leg == [step |-> "between", host |-> h, legs |-> MaxLegs]
  <1>1. leg \in Leg
    BY DEF Leg, Step
  <1>2. MovedTo(r, leg)
    BY <1>1 DEF RateInv, RateTypeOK, fetch, MovedTo
  <1>3. at[r].step = "idle" /\ leg.step = "between" /\ leg.host \in Host
    BY DEF fetch
  <1> HIDE DEF leg
  <1>4. \A s \in Semaphore : /\ Has(leg, s) <=> Has(at[r], s)
                             /\ WokenFor(leg, s) <=> WokenFor(at[r], s)
    BY <1>3 DEF Has, WokenFor
  <1> QED BY <1>2, <1>3, <1>4, QuietMove DEF RateInv, RateTypeOK, fetch, DueSteps

LEMMA DisallowedQuiet ==
    ASSUME RateInv, NEW r \in Request, disallowed(r) PROVE RateInv'
  <1>1. MovedTo(r, returned)
    BY ReturnedLeg DEF RateInv, RateTypeOK, disallowed, MovedTo
  <1> QED BY <1>1, ReturnedLeg, QuietMove
          DEF RateInv, RateTypeOK, disallowed, DueSteps, Has, WokenFor

LEMMA RefuseQuiet ==
    ASSUME RateInv, NEW r \in Request, refuse(r) PROVE RateInv'
  <1>1. MovedTo(r, returned)
    BY ReturnedLeg DEF RateInv, RateTypeOK, refuse, MovedTo
  <1>2. at[r].host \in Host
    BY DEF RateInv, Hosted, refuse
  <1>3. breaker' \in [Host -> Breaker]
    BY <1>2, BreakerSteps DEF RateInv, RateTypeOK, refuse
  <1> QED BY <1>1, <1>3, ReturnedLeg, QuietMove DEF refuse, DueSteps, Has, WokenFor

LEMMA ReadQuiet ==
    ASSUME RateInv, NEW r \in Request, readCapped(r) PROVE RateInv'
  <1>1. MovedTo(r, returned)
    BY ReturnedLeg DEF RateInv, RateTypeOK, readCapped, MovedTo
  <1>2. at[r].host \in Host
    BY DEF RateInv, Hosted, readCapped
  <1>3. breaker' \in [Host -> Breaker]
    BY <1>2, BreakerSteps DEF RateInv, RateTypeOK, readCapped
  <1> QED BY <1>1, <1>3, ReturnedLeg, QuietMove DEF readCapped, DueSteps, Has, WokenFor

LEMMA DepartQuiet ==
    ASSUME RateInv, NEW r \in Request, depart(r) PROVE RateInv'
  <1> DEFINE leg == [at[r] EXCEPT !.step = "flying"]
  <1>1. MovedTo(r, leg)
    BY MovesTo DEF RateInv, RateTypeOK, depart, Step
  <1>2. leg.step = "flying" /\ leg.host = at[r].host /\ at[r].step = "waiting"
    BY DEF RateInv, RateTypeOK, Leg, depart
  <1>3. leg.host \in Host
    BY <1>2 DEF RateInv, Hosted
  <1> HIDE DEF leg
  <1>4. \A s \in Semaphore : /\ Has(leg, s) <=> Has(at[r], s)
                             /\ WokenFor(leg, s) <=> WokenFor(at[r], s)
    BY <1>2 DEF Has, WokenFor
  <1> QED BY <1>1, <1>2, <1>3, <1>4, QuietMove DEF RateInv, RateTypeOK, depart, DueSteps

LEMMA TickQuiet ==
    ASSUME RateInv, RateTick PROVE RateInv'
  <1>1. UNCHANGED <<active, queue, ready, at>>
    BY DEF RateTick
  <1>2. ASSUME NEW h \in Host
        PROVE  [breaker[h] EXCEPT !.left = IF @ > 0 THEN @ - 1 ELSE 0] \in Breaker
    <2>1. breaker[h] \in Breaker /\ OPEN_FOR \in Nat
      BY DEF RateInv, RateTypeOK
    <2>2. (IF breaker[h].left > 0 THEN breaker[h].left - 1 ELSE 0) \in 0 .. OPEN_FOR
      BY <2>1 DEF Breaker
    <2> QED BY <2>1, <2>2 DEF Breaker
  <1>3. breaker' \in [Host -> Breaker]
    BY <1>2 DEF RateTick
  <1>4. RateTypeOK' /\ Hosted'
    BY <1>1, <1>3 DEF RateInv, RateTypeOK, Hosted
  <1>5. ReadyOK'
    BY <1>1 DEF RateInv, ReadyOK, DueOne, DueTwo, DueThree, Due
  <1>6. ASSUME NEW s \in Semaphore PROVE QueuedAt(s)' /\ CountedAt(s)'
    <2>1. QueuedAt(s)'
      BY <1>1 DEF RateInv, QueuedAt, Waits
    <2>2. Taken(s)' = Taken(s) /\ Claimed(s)' = Claimed(s)
      BY <1>1 DEF Taken, Claimed, Has, WokenFor
    <2> QED BY <1>1, <2>1, <2>2, SameClaims DEF RateInv
  <1> QED BY <1>4, <1>5, <1>6 DEF RateInv

-----------------------------------------------------------------------------
(* Steps that are due, or become so *)

LEMMA Tails ==
    ASSUME NEW S, NEW a \in S, NEW b \in S, NEW c \in S
    PROVE  /\ Head(<<a>>) = a /\ Tail(<<a>>) = <<>>
           /\ Head(<<a, b>>) = a /\ Tail(<<a, b>>) = <<b>>
           /\ Head(<<a, b, c>>) = a /\ Tail(<<a, b, c>>) = <<b, c>>
  <1>1. Head(<<a>>) = a /\ Head(<<a, b>>) = a /\ Head(<<a, b, c>>) = a
    OBVIOUS
  <1>2. Tail(<<a>>) = <<>>
    OBVIOUS
  <1>3. Tail(<<a, b>>) = <<b>>
    OBVIOUS
  <1>4. Tail(<<a, b, c>>) = <<b, c>>
    OBVIOUS
  <1> QED BY <1>1, <1>2, <1>3, <1>4

LEMMA AppendGives ==
    ASSUME NEW S, NEW q \in Seq(S), NEW e \in S, NEW new \in Seq(S), Len(new) = Len(q) + 1,
           \A i \in 1 .. Len(q) : new[i] = q[i], new[Len(q) + 1] = e
    PROVE  Append(q, e) = new
  <1>1. Append(q, e) \in Seq(S) /\ Len(Append(q, e)) = Len(q) + 1 /\ Len(q) \in Nat
    BY AppendProperties, LenProperties
  <1>2. \A i \in 1 .. Len(new) : i \in 1 .. Len(q) \/ i = Len(q) + 1
    BY <1>1
  <1>3. \A i \in 1 .. Len(new) : Append(q, e)[i] = new[i]
    BY <1>1, <1>2, AppendProperties
  <1> QED BY <1>1, <1>3, SeqEqual

LEMMA Appends ==
    ASSUME NEW S, NEW a \in S, NEW b \in S, NEW c \in S
    PROVE  /\ Append(<<>>, a) = <<a>> /\ Append(<<a>>, b) = <<a, b>>
           /\ Append(<<a, b>>, c) = <<a, b, c>>
  <1>1. Append(<<>>, a) = <<a>>
    OBVIOUS
  <1>2. Append(<<a>>, b) = <<a, b>>
    <2>1. /\ <<a>> \in Seq(S) /\ <<a, b>> \in Seq(S) /\ Len(<<a, b>>) = Len(<<a>>) + 1
          /\ \A i \in 1 .. Len(<<a>>) : <<a, b>>[i] = <<a>>[i]
          /\ <<a, b>>[Len(<<a>>) + 1] = b
      OBVIOUS
    <2> QED BY <2>1, AppendGives
  <1>3. Append(<<a, b>>, c) = <<a, b, c>>
    <2>1. /\ <<a, b>> \in Seq(S) /\ <<a, b, c>> \in Seq(S)
          /\ Len(<<a, b, c>>) = Len(<<a, b>>) + 1
          /\ \A i \in 1 .. Len(<<a, b>>) : <<a, b, c>>[i] = <<a, b>>[i]
          /\ <<a, b, c>>[Len(<<a, b>>) + 1] = c
      OBVIOUS
    <2> QED BY <2>1, AppendGives
  <1> QED BY <1>1, <1>2, <1>3

LEMMA Concats ==
    ASSUME NEW S, NEW a \in S, NEW b \in S, NEW c \in S
    PROVE  <<>> \o <<a, b>> = <<a, b>> /\ <<a>> \o <<b, c>> = <<a, b, c>>
  <1>1. <<a>> \in Seq(S) /\ <<b, c>> \in Seq(S) /\ <<a, b>> \in Seq(S)
    OBVIOUS
  <1>2. <<a, b, c>> \in Seq(S) /\ Len(<<a, b, c>>) = 3
    OBVIOUS
  <1>3. <<a>> \o <<b, c>> \in Seq(S) /\ Len(<<a>> \o <<b, c>>) = 3
    BY <1>1, ConcatProperties
  <1>4. \A i \in 1 .. 3 : (<<a>> \o <<b, c>>)[i] = <<a, b, c>>[i]
    BY <1>1, ConcatProperties
  <1>5. <<a>> \o <<b, c>> = <<a, b, c>>
    BY <1>2, <1>3, <1>4, SeqEqual
  <1> QED BY <1>1, <1>5, ConcatEmptySeq

\* Who has the turn, and who is due behind it.
LEMMA TurnFacts ==
    ASSUME RateInv, ready # <<>>, NEW r, r = Head(ready)
    PROVE  /\ r \in Due /\ r \in Request /\ Tail(ready) \in Seq(Request)
           /\ \/ /\ Tail(ready) = <<>> /\ Due = {r}
                 /\ at[r].step \in {"granted", "hostGranted", "landed", "freed", "over"}
              \/ \E b \in Request :
                    /\ b # r /\ Tail(ready) = <<b>> /\ Due = {r, b}
                    /\ \/ at[r].step = "hostWoken" /\ at[b].step = "freed"
                       \/ at[r].step = "freed" /\ at[b].step = "hostGranted"
                       \/ at[r].step = "hostGranted" /\ at[b].step = "over"
                       \/ at[r].step = "woken" /\ at[b].step = "over"
                       \/ at[r].step = "over" /\ at[b].step = "granted"
              \/ \E b, c \in Request :
                    /\ r # b /\ r # c /\ b # c /\ Tail(ready) = <<b, c>> /\ Due = {r, b, c}
                    /\ at[r].step = "hostGranted" /\ at[b].step = "woken" /\ at[c].step = "over"
  <1>1. CASE \E a \in Request : DueOne(a)
    BY <1>1, Tails DEF DueOne
  <1>2. CASE \E a, b \in Request : DueTwo(a, b)
    <2>1. PICK a \in Request, b \in Request : DueTwo(a, b)
      BY <1>2
    <2>2. r = a /\ Tail(ready) = <<b>>
      BY <2>1, Tails DEF DueTwo
    <2> QED BY <2>1, <2>2 DEF DueTwo
  <1>3. CASE \E a, b, c \in Request : DueThree(a, b, c)
    <2>1. PICK a \in Request, b \in Request, c \in Request : DueThree(a, b, c)
      BY <1>3
    <2>2. r = a /\ Tail(ready) = <<b, c>>
      BY <2>1, Tails DEF DueThree
    <2> QED BY <2>1, <2>2 DEF DueThree
  <1> QED BY <1>1, <1>2, <1>3 DEF RateInv, ReadyOK

\* The legs of the requests that are not r, as a step of r leaves them.
LEMMA OthersStay ==
    ASSUME NEW r \in Request, NEW leg, MovedTo(r, leg)
    PROVE  at'[r] = leg /\ \A q \in Request : q # r => at'[q] = at[q]
  BY DEF MovedTo

\* What a step of r must show when the queues stay as they are.
LEMMA Assemble ==
    ASSUME RateInv, NEW r \in Request, NEW leg, MovedTo(r, leg),
           active' \in [Semaphore -> Nat], UNCHANGED queue, breaker' \in [Host -> Breaker],
           ready' \in Seq(Request), ReadyOK',
           leg.step # "idle" => leg.host \in Host, at[r].step \notin {"queued", "hostQueued"},
           \A s \in Semaphore : CountedAt(s)'
    PROVE  RateInv'
  <1>1. RateTypeOK'
    BY DEF RateInv, RateTypeOK, MovedTo
  <1>2. ASSUME NEW s \in Semaphore PROVE QueuedAt(s)'
    BY QueueStays DEF RateInv, RateTypeOK
  <1> QED BY <1>1, <1>2, HostedStays DEF RateInv

\* r lands: nothing else is due.
LEMMA LandKeeps ==
    ASSUME RateInv, NEW r \in Request, land(r) PROVE RateInv'
  <1> DEFINE leg == [at[r] EXCEPT !.step = "landed"]
  <1>1. MovedTo(r, leg)
    BY MovesTo DEF RateInv, RateTypeOK, land, Step
  <1>2. leg.step = "landed" /\ leg.host = at[r].host /\ at[r].step = "flying"
    BY DEF RateInv, RateTypeOK, Leg, land
  <1>3. leg.host \in Host
    BY <1>2 DEF RateInv, Hosted
  <1> HIDE DEF leg
  <1>4. ASSUME NEW s \in Semaphore PROVE CountedAt(s)'
    <2>1. Has(leg, s) <=> Has(at[r], s)
      BY <1>2 DEF Has
    <2>2. WokenFor(leg, s) <=> WokenFor(at[r], s)
      BY <1>2 DEF WokenFor
    <2> QED BY <1>1, <2>1, <2>2, MovedElsewhere, SameClaims DEF RateInv, land
  <1>5. Due = {} /\ ready' = <<r>>
    BY DEF RateInv, ReadyOK, DueOne, DueTwo, DueThree, land
  <1>6. Due' = {r} /\ at'[r].step = "landed"
    BY <1>1, <1>2, <1>5, MovedDue DEF DueSteps, MovedTo
  <1>7. ReadyOK'
    BY <1>5, <1>6 DEF ReadyOK, DueOne
  <1> QED BY <1>1, <1>2, <1>3, <1>4, <1>5, <1>7, Assemble DEF RateInv, RateTypeOK, land

\* r goes out of turn's way: those due behind it stay due, in their order.
LEMMA TurnOver ==
    ASSUME RateInv, ready # <<>>, NEW r \in Request, r = Head(ready), NEW leg, MovedTo(r, leg),
           at[r].step \in {"hostGranted", "over"} \/ (at[r].step = "granted" /\ Tail(ready) = <<>>),
           leg.step \notin DueSteps, ready' = Tail(ready)
    PROVE  ReadyOK' /\ ready' \in Seq(Request)
  <1>0. ready' \in Seq(Request)
    BY TurnFacts
  <1>1. Due' = Due \ {r}
    BY MovedDue
  <1>2. CASE Tail(ready) = <<>> /\ Due = {r}
    <2>1. Due' = {} /\ ready' = <<>>
      BY <1>1, <1>2
    <2> QED BY <1>0, <2>1 DEF ReadyOK
  <1>3. CASE \E b \in Request : /\ b # r /\ Tail(ready) = <<b>> /\ Due = {r, b}
                                /\ at[b].step \in {"over", "granted"}
    <2>1. PICK b \in Request : /\ b # r /\ Tail(ready) = <<b>> /\ Due = {r, b}
                               /\ at[b].step \in {"over", "granted"}
      BY <1>3
    <2>2. Due' = {b} /\ at'[b] = at[b] /\ ready' = <<b>>
      BY <1>1, <2>1 DEF MovedTo
    <2> QED BY <1>0, <2>1, <2>2 DEF ReadyOK, DueOne
  <1>4. CASE \E b, c \in Request :
                /\ r # b /\ r # c /\ b # c /\ Tail(ready) = <<b, c>> /\ Due = {r, b, c}
                /\ at[b].step = "woken" /\ at[c].step = "over"
    <2>1. PICK b \in Request, c \in Request :
                /\ r # b /\ r # c /\ b # c /\ Tail(ready) = <<b, c>> /\ Due = {r, b, c}
                /\ at[b].step = "woken" /\ at[c].step = "over"
      BY <1>4
    <2>2. Due' = {b, c} /\ at'[b] = at[b] /\ at'[c] = at[c] /\ ready' = <<b, c>>
      BY <1>1, <2>1 DEF MovedTo
    <2> QED BY <1>0, <2>1, <2>2 DEF ReadyOK, DueTwo
  <1> QED BY <1>0, <1>2, <1>3, <1>4, TurnFacts

\* What settle leaves r with: none of it is about a slot.
LEMMA SettlesTo ==
    ASSUME RateInv, NEW r \in Request, settle(r)
    PROVE  /\ at[r].step = "over"
           /\ \E leg : /\ MovedTo(r, leg) /\ leg.step \in {"idle", "between", "reading"}
                       /\ leg.step # "idle" => leg.host \in Host
  <1>1. at[r].step = "over" /\ at[r] \in Leg /\ at[r].host \in Host
    BY DEF RateInv, RateTypeOK, Hosted, settle
  <1>2. \E leg : /\ MovedTo(r, leg) /\ leg.step \in {"idle", "between", "reading"}
                 /\ leg.step # "idle" => leg.host \in Host
    <2>1. CASE at' = [at EXCEPT ![r] = returned]
      BY <2>1, ReturnedLeg DEF MovedTo, RateInv, RateTypeOK
    <2>2. CASE at[r].legs > 0 /\
                  at' = [at EXCEPT ![r] = [step |-> "between", host |-> at[r].host, legs |-> @.legs - 1]]
      <3> DEFINE leg == [step |-> "between", host |-> at[r].host, legs |-> at[r].legs - 1]
      <3>1. leg \in Leg
        BY <1>1, <2>2 DEF Leg, Step
      <3>3. MovedTo(r, leg)
        BY <2>2, <3>1 DEF MovedTo, RateInv, RateTypeOK
      <3> QED BY <1>1, <3>3
    <2>3. CASE at[r].legs > 0 /\ \E next \in Host :
                  at' = [at EXCEPT ![r] = [step |-> "between", host |-> next, legs |-> @.legs - 1]]
      <3>1. PICK next \in Host :
                  at' = [at EXCEPT ![r] = [step |-> "between", host |-> next, legs |-> @.legs - 1]]
        BY <2>3
      <3> DEFINE leg == [step |-> "between", host |-> next, legs |-> at[r].legs - 1]
      <3>2. leg \in Leg
        BY <1>1, <2>3 DEF Leg, Step
      <3>3. MovedTo(r, leg)
        BY <3>1, <3>2 DEF MovedTo, RateInv, RateTypeOK
      <3> QED BY <3>3
    <2>4. CASE Moves(r, "reading")
      <3> DEFINE leg == [at[r] EXCEPT !.step = "reading"]
      <3>1. MovedTo(r, leg)
        BY <2>4, MovesTo DEF RateInv, RateTypeOK, Step
      <3>2. leg.step = "reading" /\ leg.host \in Host
        BY <1>1 DEF Leg
      <3> QED BY <3>1, <3>2
    <2> QED BY <2>1, <2>2, <2>3, <2>4 DEF settle
  <1> QED BY <1>1, <1>2

LEMMA SettleKeeps ==
    ASSUME RateInv, ready # <<>>, NEW r \in Request, r = Head(ready), settle(r) PROVE RateInv'
  <1>1. at[r].step = "over" /\ at[r] \in Leg /\ at[r].host \in Host /\ breaker[at[r].host] \in Breaker
    BY DEF RateInv, RateTypeOK, Hosted, settle
  <1>2. PICK leg : /\ MovedTo(r, leg) /\ leg.step \in {"idle", "between", "reading"}
                   /\ leg.step # "idle" => leg.host \in Host
    BY SettlesTo
  <1>3. breaker' \in [Host -> Breaker]
    <2>1. /\ onSuccess(breaker[at[r].host]) \in Breaker
          /\ onFailure(breaker[at[r].host]) \in Breaker
      BY <1>1, BreakerSteps
    <2>2. \E b \in Breaker : breaker' = [breaker EXCEPT ![at[r].host] = b]
      BY <1>1, <2>1 DEF settle
    <2> QED BY <2>2 DEF RateInv, RateTypeOK
  <1>4. ReadyOK' /\ ready' \in Seq(Request)
    BY <1>1, <1>2, TurnOver DEF settle, DueSteps
  <1>5. ASSUME NEW s \in Semaphore PROVE CountedAt(s)'
    <2>1. (Has(leg, s) <=> Has(at[r], s)) /\ (WokenFor(leg, s) <=> WokenFor(at[r], s))
      BY <1>1, <1>2 DEF Has, WokenFor
    <2> QED BY <1>2, <2>1, MovedElsewhere, SameClaims DEF RateInv, settle
  <1>6. active' \in [Semaphore -> Nat] /\ UNCHANGED queue
    BY DEF RateInv, RateTypeOK, settle
  <1> QED BY <1>1, <1>2, <1>3, <1>4, <1>5, <1>6, Assemble

\* The request of a continuation that only moves to another step.
LEMMA StepMoved ==
    ASSUME RateInv, NEW r \in Request, NEW step \in Step, Moves(r, step),
           at[r].step # "idle"
    PROVE  \E leg : /\ MovedTo(r, leg) /\ leg.step = step /\ leg.host = at[r].host
                    /\ leg.host \in Host
  <1> DEFINE leg == [at[r] EXCEPT !.step = step]
  <1>1. MovedTo(r, leg)
    BY MovesTo DEF RateInv, RateTypeOK
  <1>2. leg.step = step /\ leg.host = at[r].host
    BY DEF RateInv, RateTypeOK, Leg
  <1>3. at[r].host \in Host
    BY DEF RateInv, Hosted
  <1> HIDE DEF leg
  <1> QED BY <1>1, <1>2, <1>3

\* Both slots are held: the exchange begins, or its pause.
LEMMA BeginKeeps ==
    ASSUME RateInv, ready # <<>>, NEW r \in Request, r = Head(ready), at[r].step = "hostGranted",
           NEW step \in {"waiting", "flying"}, Moves(r, step), ready' = Tail(ready),
           UNCHANGED <<active, queue, breaker>>
    PROVE  RateInv'
  <1>1. PICK leg : MovedTo(r, leg) /\ leg.step = step /\ leg.host = at[r].host /\ leg.host \in Host
    BY StepMoved DEF Step
  <1>2. ReadyOK' /\ ready' \in Seq(Request)
    BY <1>1, TurnOver DEF DueSteps
  <1>3. ASSUME NEW s \in Semaphore PROVE CountedAt(s)'
    <2>1. (Has(leg, s) <=> Has(at[r], s)) /\ (WokenFor(leg, s) <=> WokenFor(at[r], s))
      BY <1>1 DEF Has, WokenFor
    <2> QED BY <1>1, <2>1, MovedElsewhere, SameClaims DEF RateInv
  <1> QED BY <1>1, <1>2, <1>3, Assemble DEF RateInv, RateTypeOK

\* A woken request counts its slot, behind the one that freed it.
LEMMA CountKeeps ==
    ASSUME RateInv, ready # <<>>, NEW r \in Request, r = Head(ready), NEW s \in Semaphore,
           IF s = Global THEN at[r].step = "woken" ELSE at[r].step = "hostWoken" /\ at[r].host = s,
           Moves(r, StepOf(s, "granted", "hostGranted")), acquired(s),
           ready' = Append(Tail(ready), r), UNCHANGED <<queue, breaker>>
    PROVE  RateInv'
  <1>1. PICK leg : /\ MovedTo(r, leg) /\ leg.step = StepOf(s, "granted", "hostGranted")
                   /\ leg.host = at[r].host /\ leg.host \in Host
    BY StepMoved DEF Step, StepOf
  <1>2. PICK b \in Request :
           /\ b # r /\ Tail(ready) = <<b>> /\ Due = {r, b}
           /\ \/ s = Global /\ at[b].step = "over"
              \/ s # Global /\ at[b].step = "freed"
    BY TurnFacts
  <1>3. ready' = <<b, r>> /\ ready' \in Seq(Request)
    <2>1. Append(<<b>>, r) = <<b, r>>
      BY Appends
    <2>2. <<b, r>> \in Seq(Request)
      OBVIOUS
    <2> QED BY <1>2, <2>1, <2>2, Zenon
  <1>4. Due' = {b, r} /\ at'[b] = at[b] /\ at'[r] = leg
    BY <1>1, <1>2, MovedDue DEF MovedTo, DueSteps, StepOf
  <1>5. ReadyOK'
    BY <1>1, <1>2, <1>3, <1>4 DEF ReadyOK, DueTwo, StepOf
  <1>6. ASSUME NEW t \in Semaphore PROVE CountedAt(t)'
    <2>1. CASE t = s
      <3>1. Has(leg, s) /\ ~Has(at[r], s) /\ WokenFor(at[r], s)
        BY <1>1 DEF Has, WokenFor, StepOf
      <3>2. /\ Taken(s)' = Taken(s) \cup {r} /\ Claimed(s)' = Claimed(s) \cup {r}
            /\ r \notin Taken(s) /\ r \in Claimed(s)
        BY <1>1, <3>1, MovedSets
      <3>3. Claimed(s)' = Claimed(s)
        BY <3>2
      <3>4. active'[s] = active[s] + 1 /\ queue'[s] = queue[s]
        BY DEF acquired, RateInv, RateTypeOK
      <3> QED BY <2>1, <3>2, <3>3, <3>4, ClaimCounted DEF RateInv
    <2>2. CASE t # s
      <3>1. (Has(leg, t) <=> Has(at[r], t)) /\ (WokenFor(leg, t) <=> WokenFor(at[r], t))
        BY <1>1, <2>2 DEF Has, WokenFor, StepOf
      <3>2. active'[t] = active[t] /\ queue'[t] = queue[t]
        BY <2>2 DEF acquired, RateInv, RateTypeOK
      <3> QED BY <1>1, <3>1, <3>2, MovedElsewhere, SameClaims DEF RateInv
    <2> QED BY <2>1, <2>2
  <1>7. active' \in [Semaphore -> Nat]
    BY DEF acquired, RateInv, RateTypeOK
  <1> QED BY <1>1, <1>3, <1>5, <1>6, <1>7, Assemble DEF RateInv, RateTypeOK

-----------------------------------------------------------------------------
(* acquire and release *)

\* Nobody was woken, and nothing else is due: a free slot is r's, or r waits.
LEMMA AcquireKeeps ==
    ASSUME RateInv, NEW r \in Request, NEW s \in Semaphore, Due \subseteq {r},
           IF s = Global THEN at[r].step = "between" ELSE at[r].step = "granted" /\ at[r].host = s,
           acquire(r, s, <<>>), breaker' \in [Host -> Breaker]
    PROVE  RateInv'
  <1>1. \A t \in Semaphore : Claimed(t) = Taken(t)
    <2>1. \A q \in Request, t \in Semaphore : ~WokenFor(at[q], t)
      BY DEF WokenFor, Due, DueSteps
    <2> QED BY <2>1 DEF Claimed, Taken
  <1>2. CASE active[s] < limit(s)
    <2>1. PICK leg : /\ MovedTo(r, leg) /\ leg.step = StepOf(s, "granted", "hostGranted")
                     /\ leg.host = at[r].host /\ leg.host \in Host
      BY <1>2, StepMoved DEF acquire, Step, StepOf
    <2>2. ready' = <<r>> /\ active' = [active EXCEPT ![s] = @ + 1] /\ UNCHANGED queue
      BY <1>2, Appends DEF acquire
    <2>3. Due' = {r} /\ at'[r] = leg
      BY <2>1, MovedDue DEF MovedTo, DueSteps, StepOf
    <2>4. ReadyOK'
      BY <2>1, <2>2, <2>3 DEF ReadyOK, DueOne, StepOf
    <2>5. ASSUME NEW t \in Semaphore PROVE CountedAt(t)'
      <3>1. CASE t = s
        <4>1. Has(leg, s) /\ ~Has(at[r], s)
          BY <2>1 DEF Has, StepOf
        <4>2. /\ Taken(s)' = Taken(s) \cup {r} /\ Claimed(s)' = Claimed(s) \cup {r}
              /\ r \notin Taken(s)
          BY <2>1, <4>1, MovedSets
        <4>3. active'[s] = active[s] + 1 /\ queue'[s] = queue[s]
          BY <2>2 DEF RateInv, RateTypeOK
        <4> QED BY <1>1, <1>2, <3>1, <4>2, <4>3, ClaimTaken DEF RateInv
      <3>2. CASE t # s
        <4>1. (Has(leg, t) <=> Has(at[r], t)) /\ (WokenFor(leg, t) <=> WokenFor(at[r], t))
          BY <2>1, <3>2 DEF Has, WokenFor, StepOf
        <4>2. active'[t] = active[t] /\ queue'[t] = queue[t]
          BY <2>2, <3>2 DEF RateInv, RateTypeOK
        <4> QED BY <2>1, <4>1, <4>2, MovedElsewhere, SameClaims DEF RateInv
      <3> QED BY <3>1, <3>2
    <2>6. active' \in [Semaphore -> Nat] /\ ready' \in Seq(Request)
      BY <2>2 DEF RateInv, RateTypeOK
    <2> QED BY <2>1, <2>2, <2>4, <2>5, <2>6, Assemble
  <1>3. CASE ~(active[s] < limit(s))
    <2>1. PICK leg : /\ MovedTo(r, leg) /\ leg.step = StepOf(s, "queued", "hostQueued")
                     /\ leg.host = at[r].host /\ leg.host \in Host
      BY <1>3, StepMoved DEF acquire, Step, StepOf
    <2>2. /\ ready' = <<>> /\ queue' = [queue EXCEPT ![s] = Append(@, r)] /\ UNCHANGED active
      BY <1>3 DEF acquire
    <2>3. queue'[s] = Append(queue[s], r) /\ \A t \in Semaphore \ {s} : queue'[t] = queue[t]
      BY <2>2 DEF RateInv, RateTypeOK
    <2>4. RateTypeOK'
      BY <2>1, <2>2 DEF RateInv, RateTypeOK, MovedTo
    <2>5. ReadyOK'
      <3>1. Due' = {}
        BY <2>1, MovedDue DEF DueSteps, StepOf
      <3> QED BY <2>2, <3>1 DEF ReadyOK
    <2>6. at[r].step \notin {"queued", "hostQueued"}
      OBVIOUS
    <2>7. ASSUME NEW t \in Semaphore PROVE QueuedAt(t)'
      <3>1. CASE t = s
        <4>1. Waits(leg, s)
          BY <2>1 DEF Waits, StepOf
        <4> QED BY <2>1, <2>3, <2>6, <3>1, <4>1, QueueGrows DEF RateInv, RateTypeOK
      <3>2. CASE t # s
        BY <2>1, <2>3, <2>6, <3>2, QueueStays DEF RateInv, RateTypeOK
      <3> QED BY <3>1, <3>2
    <2>8. ASSUME NEW t \in Semaphore PROVE CountedAt(t)'
      <3>1. (Has(leg, t) <=> Has(at[r], t)) /\ (WokenFor(leg, t) <=> WokenFor(at[r], t))
        BY <2>1 DEF Has, WokenFor, StepOf
      <3>2. Taken(t)' = Taken(t) /\ Claimed(t)' = Claimed(t)
        BY <2>1, <3>1, MovedElsewhere
      <3>3. CASE t = s
        BY <1>1, <1>3, <2>2, <3>2, <3>3, ClaimAwaited DEF RateInv
      <3>4. CASE t # s
        BY <2>2, <2>3, <3>2, <3>4, SameClaims DEF RateInv
      <3> QED BY <3>3, <3>4
    <2> QED BY <2>1, <2>4, <2>5, <2>7, <2>8, HostedStays DEF RateInv
  <1> QED BY <1>2, <1>3

\* r frees a slot nobody waits for.
LEMMA FreeKeeps ==
    ASSUME RateInv, ready # <<>>, NEW r \in Request, r = Head(ready), NEW s \in Semaphore,
           IF s = Global THEN at[r].step = "freed" ELSE at[r].step = "landed" /\ at[r].host = s,
           giveBack(s), queue[s] = <<>>, wakeNobody(r, StepOf(s, "over", "freed")),
           UNCHANGED breaker
    PROVE  RateInv'
  <1>1. PICK leg : /\ MovedTo(r, leg) /\ leg.step = StepOf(s, "over", "freed")
                   /\ leg.host = at[r].host /\ leg.host \in Host
    BY StepMoved DEF wakeNobody, Step, StepOf
  <1>2. at'[r] = leg /\ Due' = Due /\ ready' = Append(Tail(ready), r) /\ UNCHANGED queue
    <2>1. r \in Due
      BY TurnFacts
    <2>2. leg.step \in DueSteps
      BY <1>1 DEF DueSteps, StepOf
    <2>3. Due' = Due \cup {r}
      BY <1>1, <2>2, MovedDue
    <2> QED BY <1>1, <2>1, <2>3 DEF MovedTo, wakeNobody
  <1>3. ReadyOK' /\ ready' \in Seq(Request)
    <2>1. CASE Tail(ready) = <<>> /\ Due = {r}
      <3>1. Append(<<>>, r) = <<r>> /\ <<r>> \in Seq(Request)
        BY Appends
      <3>2. ready' = <<r>> /\ <<r>> \in Seq(Request)
        BY <1>2, <2>1, <3>1, Zenon
      <3>3. Due' = {r} /\ at'[r].step \in {"over", "freed"}
        BY <1>1, <1>2, <2>1 DEF StepOf
      <3> QED BY <3>2, <3>3 DEF ReadyOK, DueOne
    <2>2. CASE \E b \in Request : /\ b # r /\ Tail(ready) = <<b>> /\ Due = {r, b}
                                  /\ s = Global /\ at[b].step = "hostGranted"
      <3>1. PICK b \in Request : /\ b # r /\ Tail(ready) = <<b>> /\ Due = {r, b}
                                 /\ s = Global /\ at[b].step = "hostGranted"
        BY <2>2
      <3>2. Append(<<b>>, r) = <<b, r>>
        BY Appends
      <3>3. <<b, r>> \in Seq(Request)
        OBVIOUS
      <3>4. ready' = <<b, r>> /\ ready' \in Seq(Request)
        BY <1>2, <3>1, <3>2, <3>3, Zenon
      <3>5. Due' = {b, r} /\ at'[b] = at[b] /\ at'[r].step = "over"
        BY <1>1, <1>2, <3>1 DEF StepOf, MovedTo
      <3> QED BY <3>1, <3>4, <3>5 DEF ReadyOK, DueTwo
    <2> QED BY <2>1, <2>2, TurnFacts
  <1>4. ASSUME NEW t \in Semaphore PROVE CountedAt(t)'
    <2>1. CASE t = s
      <3>1. ~Has(leg, s) /\ Has(at[r], s) /\ ~WokenFor(leg, s)
        BY <1>1 DEF Has, WokenFor, StepOf
      <3>2. /\ Taken(s)' = Taken(s) \ {r} /\ Claimed(s)' = Claimed(s) \ {r} /\ r \in Taken(s)
        BY <1>1, <3>1, MovedSets
      <3>3. active'[s] = (IF active[s] > 0 THEN active[s] - 1 ELSE 0) /\ queue'[s] = <<>>
        BY <1>2 DEF giveBack, RateInv, RateTypeOK
      <3> QED BY <2>1, <3>2, <3>3, ClaimFreed DEF RateInv
    <2>2. CASE t # s
      <3>1. (Has(leg, t) <=> Has(at[r], t)) /\ (WokenFor(leg, t) <=> WokenFor(at[r], t))
        BY <1>1, <2>2 DEF Has, WokenFor, StepOf
      <3>2. active'[t] = active[t] /\ queue'[t] = queue[t]
        BY <1>2, <2>2 DEF giveBack, RateInv, RateTypeOK
      <3> QED BY <1>1, <3>1, <3>2, MovedElsewhere, SameClaims DEF RateInv
    <2> QED BY <2>1, <2>2
  <1>5. active' \in [Semaphore -> Nat]
    BY DEF giveBack, RateInv, RateTypeOK
  <1> QED BY <1>1, <1>2, <1>3, <1>4, <1>5, Assemble DEF RateInv, RateTypeOK

\* r frees a slot and wakes the first in the queue, who claims it.
LEMMA WakeKeeps ==
    ASSUME RateInv, ready # <<>>, NEW r \in Request, r = Head(ready), NEW s \in Semaphore,
           IF s = Global THEN at[r].step = "freed" ELSE at[r].step = "landed" /\ at[r].host = s,
           giveBack(s), queue[s] # <<>>,
           wake(r, s, StepOf(s, "over", "freed"), Head(queue[s]), Tail(queue[s])),
           UNCHANGED breaker
    PROVE  RateInv'
  <1> DEFINE next == Head(queue[s])
             legN == [at[next] EXCEPT !.step = StepOf(s, "woken", "hostWoken")]
             legR == [at[r] EXCEPT !.step = StepOf(s, "over", "freed")]
  <1>1. /\ queue[s] \in Seq(Request) /\ next \in Request /\ Waits(at[next], s)
        /\ at \in [Request -> Leg] /\ next = queue[s][1] /\ 1 \in 1 .. Len(queue[s])
    <2>1. queue[s] \in Seq(Request) /\ at \in [Request -> Leg]
      BY DEF RateInv, RateTypeOK
    <2>2. next \in Request /\ next = queue[s][1] /\ 1 \in 1 .. Len(queue[s])
      BY <2>1, HeadTailProperties, LenProperties, EmptySeq
    <2> QED BY <2>1, <2>2 DEF RateInv, QueuedAt
  <1>2. next # r /\ at[next].step # "idle" /\ at[r].step # "idle"
    BY <1>1 DEF Waits
  <1>3. at[next].host \in Host /\ at[r].host \in Host
    BY <1>1, <1>2 DEF RateInv, Hosted
  <1>4. /\ legN \in Leg /\ legN.step = StepOf(s, "woken", "hostWoken") /\ legN.host = at[next].host
        /\ legR \in Leg /\ legR.step = StepOf(s, "over", "freed") /\ legR.host = at[r].host
    BY <1>1 DEF Leg, Step, StepOf
  <1>5. /\ at' \in [Request -> Leg] /\ at'[next] = legN /\ at'[r] = legR
        /\ \A q \in Request : q # r /\ q # next => at'[q] = at[q]
    <2>1. at' = [[at EXCEPT ![next] = legN] EXCEPT ![r] = legR]
      BY <1>1, <1>2 DEF wake
    <2> HIDE DEF next, legN, legR
    <2> QED BY <1>1, <1>2, <1>4, <2>1
  <1>6. ready' = Tail(ready) \o <<next, r>> /\ queue' = [queue EXCEPT ![s] = Tail(@)]
    BY DEF wake, RateInv, RateTypeOK
  <1> HIDE DEF next, legN, legR
  <1>7. Due' = Due \cup {next}
    <2>1. r \in Due
      BY TurnFacts
    <2>2. \A q \in Request : at'[q].step \in DueSteps <=> at[q].step \in DueSteps \/ q = next
      BY <1>2, <1>4, <1>5, <2>1 DEF DueSteps, StepOf, Due
    <2> QED BY <1>1, <2>2 DEF Due
  <1>8. next \notin Due
    BY <1>1 DEF Due, DueSteps, Waits
  <1>9. ReadyOK' /\ ready' \in Seq(Request)
    <2>1. CASE Tail(ready) = <<>> /\ Due = {r}
      <3>1. <<>> \o <<next, r>> = <<next, r>>
        BY <1>1, Concats
      <3>2. <<next, r>> \in Seq(Request)
        BY <1>1
      <3>3. ready' = <<next, r>> /\ ready' \in Seq(Request)
        BY <1>6, <2>1, <3>1, <3>2, Zenon
      <3>4. Due' = {next, r}
        BY <1>7, <2>1
      <3> QED BY <1>1, <1>2, <1>4, <1>5, <3>3, <3>4 DEF ReadyOK, DueTwo, StepOf
    <2>2. CASE \E b \in Request : /\ b # r /\ Tail(ready) = <<b>> /\ Due = {r, b}
                                  /\ s = Global /\ at[b].step = "hostGranted"
      <3>1. PICK b \in Request : /\ b # r /\ Tail(ready) = <<b>> /\ Due = {r, b}
                                 /\ s = Global /\ at[b].step = "hostGranted"
        BY <2>2
      <3>2. <<b>> \o <<next, r>> = <<b, next, r>>
        BY <1>1, Concats
      <3>3. <<b, next, r>> \in Seq(Request)
        BY <1>1
      <3>4. ready' = <<b, next, r>> /\ ready' \in Seq(Request)
        BY <1>6, <3>1, <3>2, <3>3, Zenon
      <3>5. Due' = {b, next, r} /\ b # next /\ at'[b] = at[b]
        BY <1>5, <1>7, <1>8, <3>1
      <3> QED BY <1>1, <1>2, <1>4, <1>5, <3>1, <3>4, <3>5 DEF ReadyOK, DueThree, StepOf
    <2> QED BY <2>1, <2>2, TurnFacts
  <1>10. active' \in [Semaphore -> Nat] /\ queue' \in [Semaphore -> Seq(Request)]
    <2>1. Tail(queue[s]) \in Seq(Request)
      BY <1>1, HeadTailProperties
    <2>2. queue' \in [Semaphore -> Seq(Request)]
      BY <1>6, <2>1 DEF RateInv, RateTypeOK
    <2>3. active' \in [Semaphore -> Nat]
      BY DEF giveBack, RateInv, RateTypeOK
    <2> QED BY <2>2, <2>3
  <1>11. RateTypeOK'
    BY <1>5, <1>9, <1>10 DEF RateInv, RateTypeOK
  <1>12. Hosted'
    BY <1>3, <1>4, <1>5 DEF RateInv, Hosted
  <1>13. ASSUME NEW t \in Semaphore PROVE QueuedAt(t)'
    <2>1. CASE t = s
      <3>1. /\ Len(queue'[s]) = Len(queue[s]) - 1 /\ Len(queue[s]) \in Nat
            /\ \A i \in 1 .. Len(queue'[s]) : queue'[s][i] = queue[s][i + 1]
        BY <1>1, <1>6, HeadTailProperties, LenProperties DEF RateInv, RateTypeOK
      <3>2. \A i \in 1 .. Len(queue'[s]) : i + 1 \in 1 .. Len(queue[s]) /\ i + 1 # 1
        BY <3>1
      <3>0. /\ \A i \in 1 .. Len(queue[s]) : queue[s][i] \in Request /\ Waits(at[queue[s][i]], s)
            /\ \A i, j \in 1 .. Len(queue[s]) : queue[s][i] = queue[s][j] => i = j
        BY <1>1, ElementOfSeq DEF RateInv, QueuedAt
      <3>3. ASSUME NEW i \in 1 .. Len(queue'[s])
            PROVE  queue'[s][i] \in Request /\ Waits(at[queue'[s][i]], s) /\ queue'[s][i] # next
        <4>1. queue'[s][i] = queue[s][i + 1] /\ i + 1 \in 1 .. Len(queue[s]) /\ i + 1 # 1
          BY <3>1, <3>2
        <4>2. queue[s][i + 1] # queue[s][1]
          BY <1>1, <3>0, <4>1
        <4> QED BY <1>1, <3>0, <4>1, <4>2
      <3>4. \A i \in 1 .. Len(queue'[s]) : Waits(at'[queue'[s][i]], s)
        BY <1>5, <3>3 DEF Waits
      <3>5. ASSUME NEW i \in 1 .. Len(queue'[s]), NEW j \in 1 .. Len(queue'[s]),
                   queue'[s][i] = queue'[s][j]
            PROVE  i = j
        <4>1. queue[s][i + 1] = queue[s][j + 1]
          BY <3>1, <3>5
        <4>2. i + 1 = j + 1
          BY <3>2, <3>0, <4>1
        <4> QED BY <4>2
      <3> QED BY <2>1, <3>4, <3>5 DEF QueuedAt, Waits
    <2>2. CASE t # s
      <3>1. queue'[t] = queue[t] /\ queue[t] \in Seq(Request)
        BY <1>6, <2>2 DEF RateInv, RateTypeOK
      <3>2. \A i \in 1 .. Len(queue[t]) : queue[t][i] \in Request /\ Waits(at[queue[t][i]], t)
        BY <3>1 DEF RateInv, QueuedAt
      <3>3. \A q \in Request : Waits(at[q], t) => at'[q] = at[q]
        BY <1>1, <1>5, <2>2 DEF Waits
      <3>4. \A i \in 1 .. Len(queue[t]) : Waits(at'[queue[t][i]], t)
        BY <3>2, <3>3
      <3> QED BY <3>1, <3>4 DEF RateInv, QueuedAt, Waits
    <2> QED BY <2>1, <2>2
  <1>14. ASSUME NEW t \in Semaphore PROVE CountedAt(t)'
    <2>1. /\ Taken(t)' = {q \in Request : Has(at'[q], t)}
          /\ Claimed(t)' = {q \in Request : Has(at'[q], t) \/ WokenFor(at'[q], t)}
      BY DEF Taken, Claimed, Has, WokenFor
    <2>2. CASE t = s
      <3>1. \A q \in Request : Has(at'[q], s) <=> Has(at[q], s) /\ q # r
        <4>1. ~Has(legR, s) /\ ~Has(legN, s) /\ ~Has(at[next], s)
          BY <1>1, <1>4 DEF Has, StepOf, Waits
        <4> QED BY <1>5, <4>1
      <3>2. \A q \in Request : WokenFor(at'[q], s) <=> WokenFor(at[q], s) \/ q = next
        <4>1. ~WokenFor(legR, s) /\ ~WokenFor(at[r], s) /\ WokenFor(legN, s)
          BY <1>1, <1>4 DEF WokenFor, StepOf, Waits
        <4> QED BY <1>2, <1>5, <4>1
      <3>3. Has(at[r], s) /\ ~WokenFor(at[r], s) /\ ~Has(at[next], s) /\ ~WokenFor(at[next], s)
        BY <1>1 DEF Has, WokenFor, Waits
      <3>4. /\ Taken(s)' = Taken(s) \ {r} /\ Claimed(s)' = (Claimed(s) \ {r}) \cup {next}
            /\ r \in Taken(s) /\ next \notin Claimed(s)
        BY <1>1, <1>2, <2>1, <2>2, <3>1, <3>2, <3>3 DEF Taken, Claimed
      <3>5. active'[s] = (IF active[s] > 0 THEN active[s] - 1 ELSE 0)
        BY DEF giveBack, RateInv, RateTypeOK
      <3> QED BY <2>2, <3>4, <3>5, ClaimPassedOn DEF RateInv
    <2>3. CASE t # s
      <3>1. (Has(legR, t) <=> Has(at[r], t)) /\ (WokenFor(legR, t) <=> WokenFor(at[r], t))
        BY <1>4, <2>3 DEF Has, WokenFor, StepOf
      <3>2. (Has(legN, t) <=> Has(at[next], t)) /\ (WokenFor(legN, t) <=> WokenFor(at[next], t))
        BY <1>1, <1>4, <2>3 DEF Has, WokenFor, StepOf, Waits
      <3>3. Taken(t)' = Taken(t) /\ Claimed(t)' = Claimed(t)
        BY <1>5, <2>1, <3>1, <3>2 DEF Taken, Claimed
      <3>4. active'[t] = active[t] /\ queue'[t] = queue[t]
        BY <1>6, <2>3 DEF giveBack, RateInv, RateTypeOK
      <3> QED BY <3>3, <3>4, SameClaims DEF RateInv
    <2> QED BY <2>2, <2>3
  <1> QED BY <1>9, <1>11, <1>12, <1>13, <1>14 DEF RateInv

-----------------------------------------------------------------------------
(* The theorems *)

LEMMA InitKeeps ==
    ASSUME RateInit PROVE RateInv
  <1>1. shut \in Breaker
    BY DEF shut, Breaker
  <1>2. RateTypeOK /\ Hosted /\ \A q \in Request : at[q].step = "idle"
    BY <1>1, ReturnedLeg DEF RateInit, RateTypeOK, Hosted
  <1>3. ReadyOK
    BY <1>2 DEF RateInit, ReadyOK, Due, DueSteps
  <1>4. ASSUME NEW s \in Semaphore PROVE QueuedAt(s)
    BY DEF RateInit, QueuedAt
  <1>5. ASSUME NEW s \in Semaphore PROVE CountedAt(s)
    <2>1. Taken(s) = {} /\ Claimed(s) = {}
      BY <1>2 DEF Taken, Claimed, Has, WokenFor
    <2> QED BY <2>1, FS_EmptySet, SemaphoreFacts DEF RateInit, CountedAt
  <1> QED BY <1>2, <1>3, <1>4, <1>5 DEF RateInv

\* schedule: nothing is due, and r asks for a slot of the whole process.
LEMMA ScheduleKeeps ==
    ASSUME RateInv, NEW r \in Request, schedule(r) PROVE RateInv'
  <1>1. Due = {} /\ at[r].step = "between"
    BY DEF RateInv, ReadyOK, DueOne, DueTwo, DueThree, schedule
  <1>2. breaker[at[r].host] \in Breaker
    BY <1>1 DEF RateInv, RateTypeOK, Hosted
  <1>3. breaker' \in [Host -> Breaker]
    BY <1>2, BreakerSteps DEF RateInv, RateTypeOK, schedule
  <1>4. acquire(r, Global, <<>>)
    BY DEF schedule
  <1> QED BY <1>1, <1>3, <1>4, AcquireKeeps, SemaphoreFacts

LEMMA ContinueAcquireKeeps ==
    ASSUME RateInv, ready # <<>>, NEW r \in Request, r = Head(ready),
           continueAcquire(r), UNCHANGED breaker
    PROVE  RateInv'
  <1>1. breaker' \in [Host -> Breaker]
    BY DEF RateInv, RateTypeOK
  <1>2. at[r].step # "idle" => at[r].host \in Semaphore /\ at[r].host # Global
    BY SemaphoreFacts DEF RateInv, Hosted
  <1>3. CASE at[r].step = "woken" /\ acquired(Global) /\ Moves(r, "granted")
             /\ ready' = Append(Tail(ready), r) /\ UNCHANGED queue
    BY <1>3, CountKeeps, SemaphoreFacts DEF StepOf
  <1>4. CASE at[r].step = "granted" /\ acquire(r, at[r].host, Tail(ready))
    <2>1. Tail(ready) = <<>> /\ Due = {r}
      BY <1>4, TurnFacts
    <2>2. acquire(r, at[r].host, <<>>)
      BY <1>4, <2>1
    <2> QED BY <1>1, <1>2, <1>4, <2>1, <2>2, AcquireKeeps
  <1>5. CASE at[r].step = "hostWoken" /\ acquired(at[r].host) /\ Moves(r, "hostGranted")
             /\ ready' = Append(Tail(ready), r) /\ UNCHANGED queue
    <2>1. Moves(r, StepOf(at[r].host, "granted", "hostGranted"))
      BY <1>2, <1>5 DEF StepOf
    <2> QED BY <1>2, <1>5, <2>1, CountKeeps
  <1>6. CASE at[r].step = "hostGranted" /\ (\E step \in {"waiting", "flying"} : Moves(r, step))
             /\ ready' = Tail(ready) /\ UNCHANGED <<active, queue>>
    BY <1>6, BeginKeeps
  <1> QED BY <1>3, <1>4, <1>5, <1>6 DEF continueAcquire

LEMMA ReleaseKeeps ==
    ASSUME RateInv, ready # <<>>, NEW r \in Request, r = Head(ready), NEW s \in Semaphore,
           IF s = Global THEN at[r].step = "freed" ELSE at[r].step = "landed" /\ at[r].host = s,
           release(r, s, StepOf(s, "over", "freed")), UNCHANGED breaker
    PROVE  RateInv'
  BY FreeKeeps, WakeKeeps DEF release

LEMMA ContinueReleaseKeeps ==
    ASSUME RateInv, ready # <<>>, NEW r \in Request, r = Head(ready),
           continueRelease(r), UNCHANGED breaker
    PROVE  RateInv'
  <1>1. at[r].step # "idle" => at[r].host \in Semaphore /\ at[r].host # Global
    BY SemaphoreFacts DEF RateInv, Hosted
  <1>2. CASE at[r].step = "landed" /\ release(r, at[r].host, "freed")
    <2>1. release(r, at[r].host, StepOf(at[r].host, "over", "freed"))
      BY <1>1, <1>2 DEF StepOf
    <2> QED BY <1>1, <1>2, <2>1, ReleaseKeeps
  <1>3. CASE at[r].step = "freed" /\ release(r, Global, "over")
    <2>1. release(r, Global, StepOf(Global, "over", "freed"))
      BY <1>3 DEF StepOf
    <2> QED BY <1>3, <2>1, ReleaseKeeps, SemaphoreFacts
  <1> QED BY <1>2, <1>3 DEF continueRelease

LEMMA StepKeeps ==
    ASSUME RateInv, [RateNext]_rateVars PROVE RateInv'
  <1>1. CASE continue
    <2> DEFINE r == Head(ready)
    <2>1. ready # <<>> /\ r \in Request
      BY <1>1, TurnFacts DEF continue
    <2>2. \/ continueAcquire(r) /\ UNCHANGED breaker
          \/ continueRelease(r) /\ UNCHANGED breaker
          \/ settle(r)
      BY <1>1 DEF continue
    <2> HIDE DEF r
    <2>3. r = Head(ready)
      BY DEF r
    <2> QED BY <2>1, <2>2, <2>3, ContinueAcquireKeeps, ContinueReleaseKeeps, SettleKeeps
  <1>2. ASSUME NEW r \in Request, RequestStep(r) PROVE RateInv'
    BY <1>2, DisallowedQuiet, RefuseQuiet, ScheduleKeeps, DepartQuiet, LandKeeps, ReadQuiet
       DEF RequestStep
  <1>3. ASSUME NEW r \in Request, NEW h \in Host, fetch(r, h) PROVE RateInv'
    BY <1>3, FetchQuiet
  <1>4. CASE RateTick
    BY <1>4, TickQuiet
  <1>5. CASE UNCHANGED rateVars
    <2>1. RateTypeOK' /\ Hosted'
      BY <1>5 DEF RateInv, RateTypeOK, Hosted, rateVars
    <2>2. ReadyOK'
      BY <1>5 DEF RateInv, ReadyOK, DueOne, DueTwo, DueThree, Due, rateVars
    <2>3. ASSUME NEW s \in Semaphore PROVE QueuedAt(s)' /\ CountedAt(s)'
      <3>1. QueuedAt(s)'
        BY <1>5 DEF RateInv, QueuedAt, Waits, rateVars
      <3>2. Taken(s)' = Taken(s) /\ Claimed(s)' = Claimed(s)
        BY <1>5 DEF Taken, Claimed, Has, WokenFor, rateVars
      <3> QED BY <1>5, <3>1, <3>2, SameClaims DEF RateInv, rateVars
    <2> QED BY <2>1, <2>2, <2>3 DEF RateInv
  <1> QED BY <1>1, <1>2, <1>3, <1>4, <1>5 DEF RateNext

\* The inductive invariant: slots are counted, queues hold who waits, and at most three
\* continuations are due (Semaphore.acquire, release and run, and what awaits them).
THEOREM SlotsAreCounted == RateSpec => []RateInv
  BY InitKeeps, StepKeeps, PTL DEF RateSpec

\* Every variable keeps its type: a semaphore's count never goes below zero.
THEOREM RateTypeCorrect == RateSpec => []RateTypeOK
  BY SlotsAreCounted, PTL DEF RateInv

\* However many requests there are: no more than globalConcurrency hold a slot of the
\* process, and no more than hostConcurrency are inside one host.
THEOREM InFlightIsBounded == RateSpec => []InFlightBounded
  <1>1. ASSUME RateInv PROVE InFlightBounded
    <2>1. ASSUME NEW s \in Semaphore PROVE Cardinality(Taken(s)) =< limit(s)
      BY <1>1, FinitelyMany, SemaphoreFacts DEF RateInv, CountedAt
    <2>2. Taken(Global) = Holding
      BY DEF Taken, Has, Holding, Within
    <2>3. ASSUME NEW h \in Host PROVE Taken(h) = Inside(h)
      BY SemaphoreFacts DEF Taken, Has, Inside, Within
    <2> QED BY <2>1, <2>2, <2>3, SemaphoreFacts DEF InFlightBounded, limit
  <1> QED BY <1>1, SlotsAreCounted, PTL

\* A freed slot is never forgotten while somebody waits for one (release and acquire).
THEOREM WakeupsAreNotLost == RateSpec => []NoLostWakeup
  <1>1. ASSUME RateInv PROVE NoLostWakeup
    <2> SUFFICES ASSUME NEW s \in Semaphore, queue[s] # <<>>
                 PROVE  active[s] + Cardinality(Woken(s)) >= limit(s)
      BY DEF NoLostWakeup
    <2>1. active[s] = Cardinality(Taken(s)) /\ Cardinality(Claimed(s)) = limit(s)
      BY <1>1 DEF RateInv, CountedAt
    <2>2. Woken(s) = {r \in Request : WokenFor(at[r], s)}
      BY DEF Woken, WokenFor, Within
    <2>3. Claimed(s) = Taken(s) \cup Woken(s) /\ Woken(s) \subseteq Claimed(s)
      BY <2>2 DEF Claimed, Taken
    <2>4. IsFiniteSet(Taken(s)) /\ IsFiniteSet(Woken(s))
      BY <2>3, FinitelyMany, FS_Subset
    <2>5. Cardinality(Taken(s) \cup Woken(s))
             = Cardinality(Taken(s)) + Cardinality(Woken(s)) - Cardinality(Taken(s) \cap Woken(s))
      BY <2>4, FS_Union
    <2>6. Taken(s) \cap Woken(s) = {}
      BY <2>2 DEF Taken, Has, WokenFor
    <2>7. Cardinality(Taken(s)) \in Nat /\ Cardinality(Woken(s)) \in Nat
      BY <2>4, FS_CardinalityType
    <2>8. Cardinality(Taken(s) \cap Woken(s)) = 0
      BY <2>6, FS_EmptySet
    <2>9. Cardinality(Claimed(s)) = Cardinality(Taken(s)) + Cardinality(Woken(s))
      BY <2>3, <2>5, <2>7, <2>8
    <2> QED BY <2>1, <2>7, <2>9
  <1> QED BY <1>1, SlotsAreCounted, PTL
-----------------------------------------------------------------------------
(* The abstract semaphores: each step of the transport is one of SlotPool, or none *)

Claims(leg, s) == Has(leg, s) \/ WokenFor(leg, s)
SlotsOf == [s \in Semaphore |-> Holders(s)]

\* FiniteSets comes with SlotPool a second time.
LEMMA CountsAlike == \A S : Slots!Cardinality(S) = Cardinality(S)
  BY DEF Cardinality, Slots!Cardinality

LEMMA HoldersAre ==
    ASSUME NEW s \in Semaphore
    PROVE  /\ Holders(s) = {q \in Request : Claims(at[q], s)} /\ Holders(s) = Claimed(s)
           /\ Holders(s)' = {q \in Request : Claims(at'[q], s)}
  <1>1. Holders(s) = {q \in Request : Claims(at[q], s)}
    <2>1. CASE s = Global
      BY <2>1 DEF Holders, Holding, Woken, Within, Claims, Has, WokenFor
    <2>2. CASE s # Global
      BY <2>2 DEF Holders, Inside, Woken, Within, Claims, Has, WokenFor
    <2> QED BY <2>1, <2>2
  <1>2. Holders(s)' = {q \in Request : Claims(at'[q], s)}
    <2>1. CASE s = Global
      BY <2>1 DEF Holders, Holding, Woken, Within, Claims, Has, WokenFor
    <2>2. CASE s # Global
      BY <2>2 DEF Holders, Inside, Woken, Within, Claims, Has, WokenFor
    <2> QED BY <2>1, <2>2
  <1>3. Holders(s) = Claimed(s)
    BY <1>1 DEF Claimed, Claims
  <1> QED BY <1>1, <1>2, <1>3

\* A step after which everybody has, and waits for, what it had and waited for.
LEMMA SameSlots ==
    ASSUME queue' = queue,
           \A q \in Request, s \in Semaphore : Claims(at'[q], s) <=> Claims(at[q], s)
    PROVE  SlotsOf' = SlotsOf /\ queue' = queue
  <1>1. ASSUME NEW s \in Semaphore PROVE Holders(s)' = Holders(s)
    BY HoldersAre
  <1>2. Semaphore' = Semaphore
    BY DEF Semaphore
  <1> QED BY <1>1, <1>2 DEF SlotsOf

\* One that moves r alone.
LEMMA SameSlotsMoved ==
    ASSUME queue' = queue, NEW r \in Request, NEW leg, MovedTo(r, leg),
           \A s \in Semaphore : Claims(leg, s) <=> Claims(at[r], s)
    PROVE  SlotsOf' = SlotsOf /\ queue' = queue
  BY SameSlots DEF MovedTo

\* Only the holders of one semaphore change.
LEMMA SlotsChange ==
    ASSUME NEW s \in Semaphore,
           \A q \in Request, t \in Semaphore \ {s} : Claims(at'[q], t) <=> Claims(at[q], t)
    PROVE  SlotsOf' = [SlotsOf EXCEPT ![s] = Holders(s)']
  <1>1. ASSUME NEW t \in Semaphore, t # s PROVE Holders(t)' = Holders(t)
    BY <1>1, HoldersAre
  <1>2. Semaphore' = Semaphore
    BY DEF Semaphore
  <1> QED BY <1>1, <1>2 DEF SlotsOf

\* A request that has nothing to do with a host's slots.
LEMMA OnlyOfProcess ==
    ASSUME RateInv, NEW r \in Request, \A h \in Host : ~Claims(at[r], h) /\ ~Waits(at[r], h)
    PROVE  Slots!OnlyInRoot(r)
  <1> SUFFICES ASSUME NEW s \in Semaphore, Slots!In(r, s), s # Global PROVE FALSE
    BY DEF Slots!OnlyInRoot
  <1>1. s \in Host
    BY DEF Semaphore
  <1>2. r \notin Holders(s)
    BY <1>1, HoldersAre
  <1>3. \A i \in 1 .. Len(queue[s]) : queue[s][i] # r
    BY <1>1 DEF RateInv, QueuedAt
  <1> QED BY <1>2, <1>3 DEF Slots!In

LEMMA AskOfProcess ==
    ASSUME RateInv, NEW r \in Request, at[r].step = "between"
    PROVE  Slots!MayAsk(r, Global)
  <1>1. \A s \in Semaphore : ~Claims(at[r], s) /\ ~Waits(at[r], s)
    BY DEF Claims, Has, WokenFor, Waits
  <1>2. Slots!OnlyInRoot(r)
    BY <1>1, OnlyOfProcess, SemaphoreFacts
  <1>3. ~Slots!In(r, Global)
    BY <1>1, HoldersAre, SemaphoreFacts DEF Slots!In, RateInv, QueuedAt
  <1> QED BY <1>2, <1>3 DEF Slots!MayAsk

LEMMA AskOfHost ==
    ASSUME RateInv, NEW r \in Request, at[r].step = "granted", NEW h \in Host
    PROVE  Slots!MayAsk(r, h)
  <1>1. \A t \in Host : ~Claims(at[r], t) /\ ~Waits(at[r], t)
    BY SemaphoreFacts DEF Claims, Has, WokenFor, Waits
  <1>2. Slots!OnlyInRoot(r)
    BY <1>1, OnlyOfProcess
  <1>3. r \in Holders(Global) /\ h # Global
    BY HoldersAre, SemaphoreFacts DEF Claims, Has
  <1> QED BY <1>2, <1>3, SemaphoreFacts DEF Slots!MayAsk

LEMMA LeaveWhatOneHas ==
    ASSUME RateInv, NEW r \in Request, NEW s \in Semaphore,
           IF s = Global THEN at[r].step = "freed" ELSE at[r].step = "landed" /\ at[r].host = s
    PROVE  Slots!MayLeave(r, s)
  <1>1. r \in Holders(s)
    BY HoldersAre DEF Claims, Has
  <1>2. s = Global => Slots!OnlyInRoot(r)
    BY OnlyOfProcess, SemaphoreFacts DEF Claims, Has, WokenFor, Waits
  <1> QED BY <1>1, <1>2 DEF Slots!MayLeave

\* Asking: nobody was woken, so a slot is free or every slot is somebody's.
LEMMA AcquireEnters ==
    ASSUME RateInv, NEW r \in Request, NEW s \in Semaphore, Due \subseteq {r},
           IF s = Global THEN at[r].step = "between" ELSE at[r].step = "granted" /\ at[r].host = s,
           acquire(r, s, <<>>)
    PROVE  Slots!Enter(r, s) \/ Slots!Join(r, s)
  <1>1. Slots!MayAsk(r, s)
    BY AskOfProcess, AskOfHost DEF Semaphore
  <1>2. Claimed(s) = Taken(s) /\ CountedAt(s) /\ Holders(s) = Claimed(s)
    <2>1. \A q \in Request : ~WokenFor(at[q], s)
      BY DEF WokenFor, Due, DueSteps
    <2>2. Claimed(s) = Taken(s)
      BY <2>1 DEF Claimed, Taken
    <2> QED BY <2>2, HoldersAre DEF RateInv
  <1>3. CASE active[s] < limit(s)
    <2>1. PICK leg : MovedTo(r, leg) /\ leg.step = StepOf(s, "granted", "hostGranted")
                     /\ leg.host = at[r].host /\ leg.host \in Host
      BY <1>3, StepMoved DEF acquire, Step, StepOf
    <2>2. Cardinality(Holders(s)) < limit(s) /\ queue[s] = <<>> /\ queue' = queue
      BY <1>2, <1>3, FinitelyMany, SemaphoreFacts DEF CountedAt, acquire
    <2>3. Claims(leg, s)
      BY <2>1 DEF Claims, Has, StepOf
    <2>4. \A t \in Semaphore \ {s} : Claims(leg, t) <=> Claims(at[r], t)
      BY <2>1 DEF Claims, Has, WokenFor, StepOf
    <2>5. SlotsOf' = [SlotsOf EXCEPT ![s] = Holders(s)']
      BY <2>1, <2>4, SlotsChange DEF MovedTo
    <2>6. Holders(s)' = Holders(s) \cup {r}
      BY <2>1, <2>3, HoldersAre DEF MovedTo
    <2> QED BY <1>1, <2>2, <2>5, <2>6, CountsAlike DEF Slots!Enter, SlotsOf
  <1>4. CASE ~(active[s] < limit(s))
    <2>1. PICK leg : MovedTo(r, leg) /\ leg.step = StepOf(s, "queued", "hostQueued")
                     /\ leg.host = at[r].host /\ leg.host \in Host
      BY <1>4, StepMoved DEF acquire, Step, StepOf
    <2>2. Cardinality(Holders(s)) = limit(s)
      BY <1>2, <1>4, FinitelyMany, SemaphoreFacts DEF CountedAt
    <2>3. queue' = [queue EXCEPT ![s] = Append(@, r)]
      BY <1>4 DEF acquire
    <2>4. \A t \in Semaphore : Claims(leg, t) <=> Claims(at[r], t)
      BY <2>1 DEF Claims, Has, WokenFor, StepOf
    <2>5. \A q \in Request, t \in Semaphore : Claims(at'[q], t) <=> Claims(at[q], t)
      BY <2>1, <2>4 DEF MovedTo
    <2>6. Holders(s)' = Holders(s) /\ SlotsOf' = [SlotsOf EXCEPT ![s] = Holders(s)']
      BY <2>5, SlotsChange, HoldersAre
    <2>7. SlotsOf' = SlotsOf
      BY <2>6 DEF SlotsOf
    <2> QED BY <1>1, <2>2, <2>3, <2>7, CountsAlike DEF Slots!Join, SlotsOf
  <1> QED BY <1>3, <1>4

\* Giving back: the slot is free, or at once that of whoever waited longest.
LEMMA ReleaseLeaves ==
    ASSUME RateInv, NEW r \in Request, NEW s \in Semaphore,
           IF s = Global THEN at[r].step = "freed" ELSE at[r].step = "landed" /\ at[r].host = s,
           release(r, s, StepOf(s, "over", "freed"))
    PROVE  Slots!Leave(r, s) \/ Slots!HandOver(r, s)
  <1>1. Slots!MayLeave(r, s)
    BY LeaveWhatOneHas
  <1>2. CASE queue[s] = <<>>
    <2>1. Moves(r, StepOf(s, "over", "freed")) /\ queue' = queue
      BY <1>2 DEF release, wakeNobody
    <2>2. PICK leg : MovedTo(r, leg) /\ leg.step = StepOf(s, "over", "freed")
                     /\ leg.host = at[r].host /\ leg.host \in Host
      BY <2>1, StepMoved DEF Step, StepOf
    <2>3. ~Claims(leg, s)
      BY <2>2 DEF Claims, Has, WokenFor, StepOf
    <2>4. \A t \in Semaphore \ {s} : Claims(leg, t) <=> Claims(at[r], t)
      BY <2>2 DEF Claims, Has, WokenFor, StepOf
    <2>5. SlotsOf' = [SlotsOf EXCEPT ![s] = Holders(s)']
      BY <2>2, <2>4, SlotsChange DEF MovedTo
    <2>6. Holders(s)' = Holders(s) \ {r}
      BY <2>2, <2>3, HoldersAre DEF MovedTo
    <2> QED BY <1>1, <1>2, <2>1, <2>5, <2>6 DEF Slots!Leave, SlotsOf
  <1>3. CASE queue[s] # <<>>
    <2> DEFINE next == Head(queue[s])
               legN == [at[next] EXCEPT !.step = StepOf(s, "woken", "hostWoken")]
               legR == [at[r] EXCEPT !.step = StepOf(s, "over", "freed")]
    <2>1. /\ next \in Request /\ Waits(at[next], s) /\ at \in [Request -> Leg]
          /\ queue \in [Semaphore -> Seq(Request)]
      <3>1. queue \in [Semaphore -> Seq(Request)] /\ at \in [Request -> Leg]
        BY DEF RateInv, RateTypeOK
      <3>2. next \in Request /\ next = queue[s][1] /\ 1 \in 1 .. Len(queue[s])
        BY <1>3, <3>1, HeadTailProperties, LenProperties, EmptySeq
      <3> QED BY <3>1, <3>2 DEF RateInv, QueuedAt
    <2>2. next # r
      BY <2>1 DEF Waits
    <2>3. /\ queue' = [queue EXCEPT ![s] = Tail(@)]
          /\ at'[r] = legR /\ at'[next] = legN
          /\ \A q \in Request : q # r /\ q # next => at'[q] = at[q]
      BY <1>3, <2>1, <2>2 DEF release, wake
    <2>4. /\ legN.step = StepOf(s, "woken", "hostWoken") /\ legN.host = at[next].host
          /\ legR.step = StepOf(s, "over", "freed") /\ legR.host = at[r].host
      BY <2>1 DEF Leg
    <2> HIDE DEF next, legN, legR
    <2>5. Claims(legN, s) /\ ~Claims(legR, s)
      BY <2>1, <2>4 DEF Claims, Has, WokenFor, Waits, StepOf
    <2>6. \A t \in Semaphore \ {s} : /\ Claims(legN, t) <=> Claims(at[next], t)
                                     /\ Claims(legR, t) <=> Claims(at[r], t)
      BY <2>1, <2>4 DEF Claims, Has, WokenFor, Waits, StepOf
    <2>7. \A q \in Request, t \in Semaphore \ {s} : Claims(at'[q], t) <=> Claims(at[q], t)
      BY <2>3, <2>6
    <2>8. SlotsOf' = [SlotsOf EXCEPT ![s] = Holders(s)']
      BY <2>7, SlotsChange
    <2>9. Holders(s)' = (Holders(s) \ {r}) \cup {next}
      <3>1. \A q \in Request :
               Claims(at'[q], s) <=> (q # r /\ Claims(at[q], s)) \/ q = next
        BY <2>2, <2>3, <2>5
      <3> QED BY <2>1, <3>1, HoldersAre
    <2>10. next = Head(queue[s])
      BY DEF next
    <2> QED BY <1>1, <1>3, <2>3, <2>8, <2>9, <2>10 DEF Slots!HandOver, SlotsOf
  <1> QED BY <1>2, <1>3

\* Steps of one request that are about no slot.
LEMMA AloofStep ==
    ASSUME RateInv, NEW r \in Request,
           \/ \E h \in Host : fetch(r, h)
           \/ disallowed(r) \/ refuse(r) \/ depart(r) \/ land(r) \/ readCapped(r) \/ settle(r)
    PROVE  SlotsOf' = SlotsOf /\ queue' = queue
  <1>1. CASE \E h \in Host : fetch(r, h)
    <2>1. at[r].step = "idle" /\ at'[r].step = "between" /\ queue' = queue
          /\ \A q \in Request \ {r} : at'[q] = at[q]
      BY <1>1 DEF fetch, RateInv, RateTypeOK
    <2> QED BY <2>1, SameSlots DEF Claims, Has, WokenFor
  <1>2. CASE disallowed(r) \/ refuse(r) \/ readCapped(r)
    <2>1. at[r].step \in {"between", "reading"} /\ at'[r].step = "idle" /\ queue' = queue
          /\ \A q \in Request \ {r} : at'[q] = at[q]
      BY <1>2, ReturnedLeg DEF disallowed, refuse, readCapped, RateInv, RateTypeOK
    <2> QED BY <2>1, SameSlots DEF Claims, Has, WokenFor
  <1>3. CASE depart(r) \/ land(r)
    <2>1. PICK step \in {"flying", "landed"} : Moves(r, step) /\ queue' = queue
      BY <1>3 DEF depart, land
    <2>2. at[r].step \in {"waiting", "flying"}
      BY <1>3 DEF depart, land
    <2>3. PICK leg : MovedTo(r, leg) /\ leg.step = step /\ leg.host = at[r].host
      BY <2>1, <2>2, StepMoved DEF Step
    <2> QED BY <2>1, <2>2, <2>3, SameSlotsMoved DEF Claims, Has, WokenFor
  <1>4. CASE settle(r)
    <2>1. PICK leg : MovedTo(r, leg) /\ leg.step \in {"idle", "between", "reading"}
      BY <1>4, SettlesTo
    <2>2. at[r].step = "over" /\ queue' = queue
      BY <1>4 DEF settle
    <2> QED BY <2>1, <2>2, SameSlotsMoved DEF Claims, Has, WokenFor
  <1> QED BY <1>1, <1>2, <1>3, <1>4

\* A woken request counts the slot that is already its own; one that has both slots
\* begins its exchange.
LEMMA CountedStep ==
    ASSUME RateInv, NEW r \in Request, NEW step \in Step, Moves(r, step), queue' = queue,
           \/ at[r].step = "woken" /\ step = "granted"
           \/ at[r].step = "hostWoken" /\ step = "hostGranted"
           \/ at[r].step = "hostGranted" /\ step \in {"waiting", "flying"}
    PROVE  SlotsOf' = SlotsOf /\ queue' = queue
  <1>1. PICK leg : MovedTo(r, leg) /\ leg.step = step /\ leg.host = at[r].host
    BY StepMoved
  <1>2. \A s \in Semaphore : Claims(leg, s) <=> Claims(at[r], s)
    BY <1>1 DEF Claims, Has, WokenFor
  <1> QED BY <1>1, <1>2, SameSlotsMoved

LEMMA InTurn ==
    ASSUME RateInv, RateNext
    PROVE  \/ \E r \in Request, s \in Semaphore :
                 Slots!Enter(r, s) \/ Slots!Join(r, s) \/ Slots!Leave(r, s) \/ Slots!HandOver(r, s)
           \/ SlotsOf' = SlotsOf /\ queue' = queue
  <1>1. CASE continue
    <2> DEFINE r == Head(ready)
    <2>1. ready # <<>> /\ r \in Request
      BY <1>1, TurnFacts DEF continue
    <2>2. continueAcquire(r) \/ continueRelease(r) \/ settle(r)
      BY <1>1 DEF continue
    <2> HIDE DEF r
    <2>3. r = Head(ready)
      BY DEF r
    <2>4. at[r].step # "idle" => at[r].host \in Semaphore /\ at[r].host # Global
      BY <2>1, SemaphoreFacts DEF RateInv, Hosted
    <2>5. CASE at[r].step = "granted" /\ acquire(r, at[r].host, Tail(ready))
      <3>1. Tail(ready) = <<>> /\ Due = {r}
        BY <2>1, <2>3, <2>5, TurnFacts
      <3> QED BY <2>1, <2>4, <2>5, <3>1, AcquireEnters
    <2>6. CASE at[r].step \in {"woken", "hostWoken", "hostGranted"} /\ continueAcquire(r)
      <3>1. \E step \in Step :
               /\ Moves(r, step) /\ queue' = queue
               /\ \/ at[r].step = "woken" /\ step = "granted"
                  \/ at[r].step = "hostWoken" /\ step = "hostGranted"
                  \/ at[r].step = "hostGranted" /\ step \in {"waiting", "flying"}
        BY <2>6 DEF continueAcquire, Step
      <3> QED BY <2>1, <3>1, CountedStep
    <2>7. CASE continueRelease(r)
      <3>1. CASE at[r].step = "landed" /\ release(r, at[r].host, "freed")
        <4>1. release(r, at[r].host, StepOf(at[r].host, "over", "freed"))
          BY <2>4, <3>1 DEF StepOf
        <4> QED BY <2>1, <2>4, <3>1, <4>1, ReleaseLeaves
      <3>2. CASE at[r].step = "freed" /\ release(r, Global, "over")
        <4>1. release(r, Global, StepOf(Global, "over", "freed"))
          BY <3>2 DEF StepOf
        <4> QED BY <2>1, <3>2, <4>1, ReleaseLeaves, SemaphoreFacts
      <3> QED BY <2>7, <3>1, <3>2 DEF continueRelease
    <2>8. CASE settle(r)
      BY <2>1, <2>8, AloofStep
    <2>9. continueAcquire(r) =>
             \/ at[r].step = "granted" /\ acquire(r, at[r].host, Tail(ready))
             \/ at[r].step \in {"woken", "hostWoken", "hostGranted"}
      BY DEF continueAcquire
    <2> QED BY <2>2, <2>5, <2>6, <2>7, <2>8, <2>9
  <1>2. ASSUME NEW r \in Request, schedule(r) PROVE Slots!Enter(r, Global) \/ Slots!Join(r, Global)
    <2>1. Due = {} /\ at[r].step = "between" /\ acquire(r, Global, <<>>)
      BY <1>2 DEF RateInv, ReadyOK, DueOne, DueTwo, DueThree, schedule
    <2> QED BY <2>1, AcquireEnters, SemaphoreFacts
  <1>3. CASE RateTick
    BY <1>3, SameSlots DEF RateTick
  <1> QED BY <1>1, <1>2, <1>3, AloofStep, SemaphoreFacts DEF RateNext, RequestStep

\* What the callers of the two-level semaphores may count on (Semaphore.acquire and
\* release under RateController.schedule), for any number of requests, hosts and slots:
\* nobody waits while a slot is free, a slot given back goes to who has waited longest,
\* and a host's slot is held within one of the process, so waiting is never circular.
THEOREM SlotsGoInTurn == RateSpec => SlotsInTurn
  <1>1. RateInit => Slots!Init
    <2> SUFFICES ASSUME RateInit PROVE Slots!Init
      OBVIOUS
    <2>1. ASSUME NEW s \in Semaphore PROVE Holders(s) = {}
      <3>1. \A q \in Request : at[q].step = "idle"
        BY ReturnedLeg DEF RateInit
      <3> QED BY <3>1, HoldersAre DEF Claims, Has, WokenFor
    <2> QED BY <2>1 DEF RateInit, Slots!Init
  <1>2. RateInv /\ [RateNext]_rateVars
           => [Slots!Next]_<<[s \in Semaphore |-> Holders(s)], queue>>
    <2> SUFFICES ASSUME RateInv, [RateNext]_rateVars
                 PROVE  [Slots!Next]_<<SlotsOf, queue>>
      BY DEF SlotsOf
    <2>1. CASE RateNext
      BY <2>1, InTurn DEF Slots!Next, Slots!vars, SlotsOf
    <2>2. CASE UNCHANGED rateVars
      BY <2>2, SameSlots DEF rateVars
    <2> QED BY <2>1, <2>2
  <1> QED BY <1>1, <1>2, SlotsAreCounted, PTL DEF RateSpec, SlotsInTurn, Slots!Spec, Slots!vars
=============================================================================
