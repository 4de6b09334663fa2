------------------------------ MODULE SlotPool ------------------------------
(***************************************************************************)
(* What the callers of nested semaphores may count on, without counters,   *)
(* wake-ups or turns: a slot is somebody's or free; nobody waits while one *)
(* is free; a slot that is given back goes, in the same moment, to who has *)
(* waited longest; a slot of a branch is asked for, and given back, while  *)
(* one of the root is held, so waiting never goes round in a circle.       *)
(***************************************************************************)
EXTENDS Naturals, Sequences, FiniteSets

CONSTANTS
    Client,
    Pool,       \* the pools of slots
    Root,       \* the pool all clients share; the others are its branches
    limit(_)    \* the slots of each

VARIABLES
    holders,    \* whose the slots of a pool are
    line        \* who waits for one, in the order of asking

vars == <<holders, line>>

In(c, p) == c \in holders[p] \/ \E i \in 1 .. Len(line[p]) : line[p][i] = c
OnlyInRoot(c) == \A p \in Pool : In(c, p) => p = Root

Init ==
    /\ holders = [p \in Pool |-> {}]
    /\ line = [p \in Pool |-> <<>>]

MayAsk(c, p) ==
    /\ OnlyInRoot(c)
    /\ IF p = Root THEN ~In(c, Root) ELSE c \in holders[Root]

MayLeave(c, p) ==
    /\ c \in holders[p]
    /\ p = Root => OnlyInRoot(c)

Enter(c, p) ==
    /\ MayAsk(c, p)
    /\ line[p] = <<>> /\ Cardinality(holders[p]) < limit(p)
    /\ holders' = [holders EXCEPT ![p] = @ \cup {c}]
    /\ UNCHANGED line

Join(c, p) ==
    /\ MayAsk(c, p)
    /\ Cardinality(holders[p]) = limit(p)
    /\ line' = [line EXCEPT ![p] = Append(@, c)]
    /\ UNCHANGED holders

Leave(c, p) ==
    /\ MayLeave(c, p)
    /\ line[p] = <<>>
    /\ holders' = [holders EXCEPT ![p] = @ \ {c}]
    /\ UNCHANGED line

HandOver(c, p) ==
    /\ MayLeave(c, p)
    /\ line[p] # <<>>
    /\ holders' = [holders EXCEPT ![p] = (@ \ {c}) \cup {Head(line[p])}]
    /\ line' = [line EXCEPT ![p] = Tail(@)]

Next ==
    /\ vars # vars'
    /\ \E p \in Pool, c \in Client :
          Enter(c, p) \/ Join(c, p) \/ Leave(c, p) \/ HandOver(c, p)

Spec == Init /\ [][Next]_vars
=============================================================================
