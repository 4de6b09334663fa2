--------------------------- MODULE PlacementDrive ---------------------------
(***************************************************************************)
(* The placement drives of a college and the outcomes recorded against     *)
(* them (db.js, collegeRoutes.js), as kept in MongoDB.  An outcome is      *)
(* found, merged and saved, or created when none was found; nothing in the *)
(* collection makes a pair of a drive and a student unique.  Deleting a    *)
(* drive deletes its document first and its outcomes after.                *)
(***************************************************************************)
EXTENDS Naturals, Sequences, FiniteSets

CONSTANTS
    Drive,     \* drives by id; an id is never used again
    Student,   \* students of the college
    Recorder,  \* slots for requests that record outcomes
    Remover,   \* slots for requests that delete a drive
    NoDrive,
    MaxRows    \* bound: rows ever created

ASSUME PlacementAssumption == NoDrive \notin Drive /\ MaxRows \in Nat

VARIABLES
    stored,     \* the drives there are
    deleted,    \* the drives there were
    rows,       \* the outcome rows in the order of their creation
    recording,  \* what each recorder has in hand
    removing,   \* the drive whose outcomes a remover has still to delete
    reached,    \* history: the deepest stage recorded since the pair was last removed
    tidy        \* no two recorders have the same pair in hand

driveVars == <<stored, deleted, rows, recording, removing, reached, tidy>>

\* stageOrder, and a stage that is not on it: no step forward.
StageOrder == <<"applied", "interviewed", "offered">>
Stage == {"rejected"} \cup {StageOrder[i] : i \in DOMAIN StageOrder}
depth(stage) == CHOOSE n \in 0 .. Len(StageOrder) :
                   IF stage = "rejected" THEN n = 0 ELSE n > 0 /\ StageOrder[n] = stage

\* A row is a set, empty once it is deleted, so that its place stays its identity.
Row == [drive : Drive, student : Student, stage : Stage, furthest : Stage]
Pair(row, d, s) == row.drive = d /\ row.student = s
rowsOf(d, s) == {i \in DOMAIN rows : \E row \in rows[i] : Pair(row, d, s)}

\* at: 0 between two entries of a request, the row found, Len(rows) + 1 for none.
Holding(d) == [drive |-> d, found |-> {}, at |-> 0, next |-> {}]
Nothing == Holding(NoDrive)

DriveInit ==
    /\ stored = {}
    /\ deleted = {}
    /\ rows = <<>>
    /\ recording = [r \in Recorder |-> Nothing]
    /\ removing = [m \in Remover |-> NoDrive]
    /\ reached = [d \in Drive |-> [s \in Student |-> 0]]
    /\ tidy \in BOOLEAN

-----------------------------------------------------------------------------
(* Recording outcomes *)

createPlacementDrive(d) ==
    /\ d \notin stored \cup deleted
    /\ stored' = stored \cup {d}
    /\ UNCHANGED <<deleted, rows, recording, removing, reached, tidy>>

\* The route looks the drive up once, before the first entry.
beginOutcomes(r, d) ==
    /\ recording[r] = Nothing
    /\ d \in stored
    /\ recording' = [recording EXCEPT ![r] = Holding(d)]
    /\ UNCHANGED <<stored, deleted, rows, removing, reached, tidy>>

findOutcome(r, s, stage) ==
    LET d == recording[r].drive
        mine == rowsOf(d, s)
        first == CHOOSE i \in mine : \A j \in mine : i =< j
    IN
    /\ d # NoDrive /\ recording[r].next = {}
    /\ tidy => \A q \in Recorder : \A e \in recording[q].next :
                  ~(recording[q].drive = d /\ e.student = s)
    /\ recording' = [recording EXCEPT ![r] =
          [drive |-> d,
           found |-> IF mine = {} THEN {} ELSE rows[first],
           at    |-> IF mine = {} THEN 0 ELSE first,
           next  |-> {[student |-> s, stage |-> stage]}]]
    /\ UNCHANGED <<stored, deleted, rows, removing, reached, tidy>>

\* Mutant: the furthest stage is the current one.
furthestCurrent(found, stage) == stage

\* furthestStage only ever moves forward.
furthest(found, stage) ==
    IF \E row \in found : depth(stage) =< depth(row.furthest)
    THEN (CHOOSE row \in found : TRUE).furthest ELSE stage

mergeOutcome(found, d, e) ==
    [drive |-> d, student |-> e.student, stage |-> e.stage,
     furthest |-> furthest(found, e.stage)]

Deeper(d, e) ==
    [reached EXCEPT ![d][e.student] = IF depth(e.stage) > @ THEN depth(e.stage) ELSE @]

\* A row found is saved, unless it was deleted meanwhile: save throws and the rest
\* of the entries is not recorded.  None found: one is created.
putOutcome(r) ==
    LET d == recording[r].drive
        i == recording[r].at
        found == recording[r].found
    IN
    \E e \in recording[r].next :
        \/ /\ i # 0 /\ rows[i] # {}
           /\ rows' = [rows EXCEPT ![i] = {mergeOutcome(found, d, e)}]
           /\ reached' = Deeper(d, e)
           /\ recording' = [recording EXCEPT ![r] = Holding(d)]
           /\ UNCHANGED <<stored, deleted, removing, tidy>>
        \/ /\ i # 0 /\ rows[i] = {}
           /\ recording' = [recording EXCEPT ![r] = Nothing]
           /\ UNCHANGED <<stored, deleted, rows, removing, reached, tidy>>
        \/ /\ i = 0 /\ Len(rows) < MaxRows
           /\ rows' = Append(rows, {mergeOutcome({}, d, e)})
           /\ reached' = Deeper(d, e)
           /\ recording' = [recording EXCEPT ![r] = Holding(d)]
           /\ UNCHANGED <<stored, deleted, removing, tidy>>

\* The entries are recorded, or the process dies.
endOutcomes(r) ==
    /\ recording[r] # Nothing
    /\ recording' = [recording EXCEPT ![r] = Nothing]
    /\ UNCHANGED <<stored, deleted, rows, removing, reached, tidy>>

-----------------------------------------------------------------------------
(* Removing them *)

removePlacementOutcome(d, s) ==
    /\ rowsOf(d, s) # {}
    /\ rows' = [rows EXCEPT ![CHOOSE i \in rowsOf(d, s) : \A j \in rowsOf(d, s) : i =< j] = {}]
    /\ reached' = [reached EXCEPT ![d][s] = 0]
    /\ UNCHANGED <<stored, deleted, recording, removing, tidy>>

deletePlacementDrive(m, d) ==
    /\ removing[m] = NoDrive
    /\ d \in stored \cup deleted
    /\ stored' = stored \ {d}
    /\ deleted' = deleted \cup {d}
    /\ removing' = [removing EXCEPT ![m] = d]
    /\ UNCHANGED <<rows, recording, reached, tidy>>

keptWithout(row, d) == IF \E o \in row : o.drive = d THEN {} ELSE row

deleteOutcomes(m) ==
    /\ removing[m] # NoDrive
    /\ rows' = [i \in DOMAIN rows |-> keptWithout(rows[i], removing[m])]
    /\ reached' = [reached EXCEPT ![removing[m]] = [s \in Student |-> 0]]
    /\ removing' = [removing EXCEPT ![m] = NoDrive]
    /\ UNCHANGED <<stored, deleted, recording, tidy>>

\* The process dies between the two deletes.
dieRemoving(m) ==
    /\ removing[m] # NoDrive
    /\ removing' = [removing EXCEPT ![m] = NoDrive]
    /\ UNCHANGED <<stored, deleted, rows, recording, reached, tidy>>

DriveNext ==
    \/ \E d \in Drive : createPlacementDrive(d)
    \/ \E r \in Recorder :
          \/ \E d \in Drive : beginOutcomes(r, d)
          \/ \E s \in Student, stage \in Stage : findOutcome(r, s, stage)
          \/ putOutcome(r)
          \/ endOutcomes(r)
    \/ \E d \in Drive, s \in Student : removePlacementOutcome(d, s)
    \/ \E m \in Remover :
          \/ \E d \in Drive : deletePlacementDrive(m, d)
          \/ deleteOutcomes(m) \/ dieRemoving(m)

DriveSpec == DriveInit /\ [][DriveNext]_driveVars

-----------------------------------------------------------------------------
(* Properties *)

\* "One record per (driveId, studentId)" and "furthestStage only ever moves forward"
\* (db.js): while no two requests record the same pair at once, the funnel counts a
\* student at most once, at the deepest stage recorded since the pair was removed,
\* whatever removals and deletions of drives come between a find and its save.
FunnelKeepsGround ==
    tidy => \A d \in Drive, s \in Student :
               /\ Cardinality(rowsOf(d, s)) =< 1
               /\ \A i \in rowsOf(d, s) : \A row \in rows[i] :
                     depth(row.furthest) = reached[d][s]
=============================================================================
