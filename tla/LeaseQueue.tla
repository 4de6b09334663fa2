----------------------------- MODULE LeaseQueue -----------------------------
(***************************************************************************)
(* What the header of crawlQueue.js promises of the queue, without leases, *)
(* documents or clocks: a task is open until a worker that is working on   *)
(* it, and nobody else, settles it; two workers never work on one task; a  *)
(* worker that dies leaves its tasks open; done is done, while a task that *)
(* is shelved may be added again.                                          *)
(***************************************************************************)
CONSTANTS Worker, Task

VARIABLES
    status,     \* "none", "open", "shelved" (over for now) or "done"
    workingOn   \* the tasks each worker is working on

vars == <<status, workingOn>>

Free(t) == \A w \in Worker : t \notin workingOn[w]

Init ==
    /\ status = [t \in Task |-> "none"]
    /\ workingOn = [w \in Worker |-> {}]

Add(t) ==
    /\ status[t] \in {"none", "shelved"}
    /\ Free(t)
    /\ status' = [status EXCEPT ![t] = "open"]
    /\ UNCHANGED workingOn

Take(w, t) ==
    /\ status[t] = "open"
    /\ Free(t)
    /\ workingOn' = [workingOn EXCEPT ![w] = @ \cup {t}]
    /\ UNCHANGED status

\* The worker leaves the task open, finishes it for good, or shelves it.
Return(w, t, outcome) ==
    /\ t \in workingOn[w]
    /\ workingOn' = [workingOn EXCEPT ![w] = @ \ {t}]
    /\ status' = [status EXCEPT ![t] = outcome]

Die(w) ==
    /\ workingOn' = [workingOn EXCEPT ![w] = {}]
    /\ UNCHANGED status

Next ==
    \/ \E t \in Task : Add(t)
    \/ \E w \in Worker, t \in Task : Take(w, t)
    \/ \E w \in Worker, t \in Task, outcome \in {"open", "done", "shelved"} : Return(w, t, outcome)
    \/ \E w \in Worker : Die(w)

\* A step changes something, which TLC finds out first.
Step == vars # vars' /\ Next

Spec == Init /\ [][Step]_vars
=============================================================================
