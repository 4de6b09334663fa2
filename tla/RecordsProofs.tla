---------------------------- MODULE RecordsProofs ----------------------------
(***************************************************************************)
(* Proofs about the records that requests rewrite (MCRecords), for any     *)
(* number of students, links, drives, accounts and overlapping requests.   *)
(*                                                                         *)
(* Team projects: a lost update may undo a submission or a tick, but it    *)
(* never separates a link from its history entry, and never ticks a module *)
(* its owner did not.  The inductive invariant says so of every copy a     *)
(* request holds and of every patch, not only of the document.  While      *)
(* saves do not overlap, the badge is the verdict about the link shown.    *)
(*                                                                         *)
(* Placement drives: while no two requests have one pair in hand, what a   *)
(* request found of its pair is all there is of it, or was deleted since.  *)
(*                                                                         *)
(* Accounts: a purge empties the collections in order, and only of an      *)
(* account whose grace window was over, whatever its length.               *)
(***************************************************************************)
EXTENDS TeamProject, PlacementDrive, AccountDeletion,
        FiniteSetTheorems, WellFoundedInduction, SequenceTheorems, TLAPS

LastOf(history) == IF history = <<>> THEN NoLink ELSE history[Len(history)]

\* A project whose history ends in its link and whose done modules are of `who'.
Sound(p, who) ==
    /\ p \in Project
    /\ p.link = LastOf(p.history)
    /\ \A m \in Member : p.progress[m] = "done" => m \in who

\* A patch that keeps a project sound.
SoundPatch(patch, who) ==
    /\ IsPatch(patch)
    /\ "link" \in DOMAIN patch => patch.link = LastOf(patch.history)
    /\ "progress" \in DOMAIN patch =>
          \A m \in Member : patch.progress[m] = "done" => m \in who

TeamInv ==
    /\ TeamTypeOK
    /\ \A p \in project : Sound(p, ticked)
    /\ \A r \in Request : /\ \A p \in request[r].read : Sound(p, ticked)
                          /\ SoundPatch(request[r].patch, ticked)

-----------------------------------------------------------------------------
(* Patches *)

LEMMA NoPatchSound ==
    ASSUME NEW who PROVE SoundPatch(NoPatch, who)
  BY DEF SoundPatch, NoPatch, IsPatch

LEMMA MergeSound ==
    ASSUME NEW who, NEW doc, NEW patch, Sound(doc, who), SoundPatch(patch, who)
    PROVE  Sound(Merge(doc, patch), who)
  <1> DEFINE new == Merge(doc, patch)
  <1>1. doc \in Project /\ DOMAIN doc = {"link", "history", "verdict", "progress"}
    BY DEF Sound, Project
  <1>2. \A f \in {"link", "history", "verdict", "progress"} :
           new[f] = IF f \in DOMAIN patch THEN patch[f] ELSE doc[f]
    BY <1>1 DEF Merge
  <1>3. new = [link |-> new.link, history |-> new.history,
               verdict |-> new.verdict, progress |-> new.progress]
    BY <1>1 DEF Merge
  <1> HIDE DEF new
  <1>4. CASE patch = NoPatch
    <2>1. DOMAIN patch = {}
      BY <1>4 DEF NoPatch
    <2>2. /\ new.link = doc.link /\ new.history = doc.history
          /\ new.verdict = doc.verdict /\ new.progress = doc.progress
      BY <1>2, <2>1
    <2> QED BY <1>1, <1>3, <2>2 DEF Sound, Project, new
  <1>5. CASE patch \in [link : Link, history : Seq(Link), verdict : {{}}]
    <2>1. DOMAIN patch = {"link", "history", "verdict"}
      BY <1>5
    <2>2. /\ new.link = patch.link /\ new.history = patch.history
          /\ new.verdict = {} /\ new.progress = doc.progress
      BY <1>2, <1>5, <2>1
    <2>3. patch.link = LastOf(patch.history) /\ patch.link \in Link
          /\ patch.history \in Seq(Link)
      BY <1>5, <2>1 DEF SoundPatch
    <2> QED BY <1>1, <1>3, <2>2, <2>3 DEF Sound, Project, BadgeVerdict, new
  <1>6. CASE patch \in [verdict : BadgeVerdict]
    <2>1. DOMAIN patch = {"verdict"} /\ patch.verdict \in BadgeVerdict
      BY <1>6
    <2>2. /\ new.link = doc.link /\ new.history = doc.history
          /\ new.verdict = patch.verdict /\ new.progress = doc.progress
      BY <1>2, <2>1
    <2> QED BY <1>1, <1>3, <2>1, <2>2 DEF Sound, Project, new
  <1>7. CASE patch \in [progress : [Member -> Module]]
    <2>1. DOMAIN patch = {"progress"} /\ patch.progress \in [Member -> Module]
      BY <1>7
    <2>2. /\ new.link = doc.link /\ new.history = doc.history
          /\ new.verdict = doc.verdict /\ new.progress = patch.progress
      BY <1>2, <2>1
    <2>3. \A m \in Member : patch.progress[m] = "done" => m \in who
      BY <2>1 DEF SoundPatch
    <2> QED BY <1>1, <1>3, <2>1, <2>2, <2>3 DEF Sound, Project, new
  <1> QED BY <1>4, <1>5, <1>6, <1>7 DEF SoundPatch, IsPatch

\* The history a submission leaves ends in the link submitted.
LEMMA SubmissionSound ==
    ASSUME NEW who, NEW p \in Project, NEW l \in Link
    PROVE  SoundPatch(submission(p, l), who)
  <1> DEFINE n == Len(p.history)
             recent == IF n < Kept THEN p.history ELSE SubSeq(p.history, n + 2 - Kept, n)
  <1>1. p.history \in Seq(Link) /\ n \in Nat
    BY DEF Project
  <1>2. recent \in Seq(Link)
    <2>1. CASE n < Kept
      BY <1>1, <2>1
    <2>2. CASE ~(n < Kept)
      <3>1. n + 2 - Kept \in 1 .. n + 1
        BY <1>1, <2>2, TeamAssumption
      <3>2. SubSeq(p.history, n + 2 - Kept, n) \in Seq(Link)
        BY <1>1, <3>1, SubSeqProperties
      <3> QED BY <2>2, <3>2
    <2> QED BY <2>1, <2>2
  <1> HIDE DEF recent
  <1>3. /\ Append(recent, l) \in Seq(Link)
        /\ Len(Append(recent, l)) = Len(recent) + 1
        /\ Append(recent, l)[Len(recent) + 1] = l
        /\ Append(recent, l) # <<>>
    BY <1>2, AppendProperties
  <1>4. submission(p, l) = [link |-> l, history |-> Append(recent, l), verdict |-> {}]
    BY DEF submission, recent
  <1>5. LastOf(Append(recent, l)) = l
    BY <1>3 DEF LastOf
  <1> QED BY <1>3, <1>4, <1>5 DEF SoundPatch, IsPatch

-----------------------------------------------------------------------------
(* Steps *)

LEMMA TeamInitInv == TeamInit => TeamInv
  <1> SUFFICES ASSUME TeamInit PROVE TeamInv
    OBVIOUS
  <1> DEFINE first == [link |-> NoLink, history |-> <<>>, verdict |-> {},
                       progress |-> [m \in Member |-> "todo"]]
  <1>1. project = {first}
    BY DEF TeamInit
  <1>2. first \in Project
    BY EmptySeq DEF Project, BadgeVerdict, Module
  <1>3. Sound(first, ticked)
    BY <1>2 DEF Sound, LastOf
  <1>4. IsCopy(project) /\ IsCopy({})
    BY <1>1, <1>2 DEF IsCopy
  <1>5. \A r \in Request : /\ request[r].at = "idle" /\ request[r].read = {}
                           /\ request[r].patch = NoPatch
    BY DEF TeamInit, Idle
  <1>6. TeamTypeOK
    BY <1>4, <1>5, NoPatchSound DEF TeamTypeOK, TeamInit, SoundPatch
  <1> QED BY <1>1, <1>3, <1>5, <1>6, NoPatchSound DEF TeamInv

\* What a step does to the requests: one of them holds sound things again.
LEMMA HoldInv ==
    ASSUME TeamInv, NEW r \in Request,
           NEW at \in {"idle", "checking", "updating", "saving"}, NEW read, NEW patch,
           IsCopy(read), \A p \in read : Sound(p, ticked'), SoundPatch(patch, ticked'),
           Hold(r, at, read, patch),
           ticked \subseteq ticked', ticked' \subseteq Member,
           UNCHANGED <<project, calm>>
    PROVE  TeamInv'
  <1>1. DOMAIN request = Request
    BY DEF TeamInv, TeamTypeOK
  <1>2. /\ DOMAIN request' = Request
        /\ request'[r].at = at /\ request'[r].read = read /\ request'[r].patch = patch
        /\ \A q \in Request : q # r => request'[q] = request[q]
    BY <1>1 DEF Hold
  <1>3. \A p : Sound(p, ticked) => Sound(p, ticked')
    BY DEF Sound
  <1>4. \A e : SoundPatch(e, ticked) => SoundPatch(e, ticked')
    BY DEF SoundPatch
  <1>5. TeamTypeOK'
    <2>1. IsPatch(patch)
      BY DEF SoundPatch
    <2> QED BY <1>2, <2>1 DEF TeamInv, TeamTypeOK
  <1>6. \A p \in project' : Sound(p, ticked')
    BY <1>3 DEF TeamInv
  <1>7. ASSUME NEW q \in Request
        PROVE  (\A p \in request'[q].read : Sound(p, ticked')) /\ SoundPatch(request'[q].patch, ticked')
    <2>1. CASE q = r
      BY <1>2, <2>1
    <2>2. CASE q # r
      BY <1>2, <1>3, <1>4, <2>2 DEF TeamInv
    <2> QED BY <2>1, <2>2
  <1> QED BY <1>5, <1>6, <1>7 DEF TeamInv

LEMMA AskInv ==
    ASSUME TeamInv, NEW r \in Request, NEW patch, Ask(r, patch), SoundPatch(patch, ticked'),
           ticked \subseteq ticked', ticked' \subseteq Member
    PROVE  TeamInv'
  <1>1. IsCopy({})
    BY DEF IsCopy
  <1> QED BY <1>1, HoldInv DEF Ask

LEMMA SaveDocInv ==
    ASSUME TeamInv, NEW r \in Request, SaveDoc(r)
    PROVE  TeamInv'
  <1>1. /\ project' = IF project = {} THEN {}
                      ELSE {Merge(doc, request[r].patch) : doc \in request[r].read}
        /\ request' = [request EXCEPT ![r] = Idle]
        /\ UNCHANGED <<ticked, calm>>
    BY DEF SaveDoc
  <1>2. /\ IsCopy(request[r].read) /\ SoundPatch(request[r].patch, ticked)
        /\ \A p \in request[r].read : Sound(Merge(p, request[r].patch), ticked)
    BY MergeSound DEF TeamInv, TeamTypeOK
  <1>3. (\A p \in project' : Sound(p, ticked)) /\ IsCopy(project')
    BY <1>1, <1>2 DEF IsCopy, Sound
  <1>4. /\ DOMAIN request' = Request /\ request'[r] = Idle
        /\ \A q \in Request : q # r => request'[q] = request[q]
    BY <1>1 DEF TeamInv, TeamTypeOK
  <1>5. Idle.at = "idle" /\ Idle.read = {} /\ SoundPatch(Idle.patch, ticked) /\ IsCopy({})
    BY NoPatchSound DEF Idle, IsCopy
  <1>6. TeamTypeOK'
    BY <1>1, <1>3, <1>4, <1>5 DEF TeamInv, TeamTypeOK, SoundPatch
  <1>7. \A q \in Request : /\ \A p \in request'[q].read : Sound(p, ticked)
                           /\ SoundPatch(request'[q].patch, ticked)
    BY <1>4, <1>5 DEF TeamInv
  <1> QED BY <1>1, <1>3, <1>6, <1>7 DEF TeamInv, Sound, SoundPatch

LEMMA RequestIdleInv ==
    ASSUME TeamInv, NEW r \in Request, request' = [request EXCEPT ![r] = Idle],
           UNCHANGED <<project, ticked, calm>>
    PROVE  TeamInv'
  <1>1. Hold(r, "idle", {}, NoPatch) /\ IsCopy({})
    BY DEF Hold, Idle, IsCopy
  <1>2. ticked \subseteq Member
    BY DEF TeamInv, TeamTypeOK
  <1> QED BY <1>1, <1>2, NoPatchSound, HoldInv

LEMMA FindDocInv ==
    ASSUME TeamInv, NEW r \in Request, FindDoc(r)
    PROVE  TeamInv'
  <1>1. CASE project = {}
    BY <1>1, RequestIdleInv DEF FindDoc
  <1>2. CASE project # {}
    <2>1. Hold(r, "saving", project, request[r].patch) /\ UNCHANGED <<project, ticked, calm>>
      BY <1>2 DEF FindDoc
    <2>2. ticked \subseteq Member /\ IsCopy(project)
      BY DEF TeamInv, TeamTypeOK
    <2>3. /\ \A p \in project : Sound(p, ticked')
          /\ SoundPatch(request[r].patch, ticked')
      BY <2>1 DEF TeamInv
    <2> QED BY <2>1, <2>2, <2>3, HoldInv
  <1> QED BY <1>1, <1>2

LEMMA SubmitInv ==
    ASSUME TeamInv, NEW r \in Request, NEW l \in Link, submitTeamProjectLink(r, l)
    PROVE  TeamInv'
  <1>1. PICK p \in project : Ask(r, submission(p, l))
    BY DEF submitTeamProjectLink
  <1>2. p \in Project /\ ticked' = ticked /\ ticked \subseteq Member
    BY DEF TeamInv, Sound, TeamTypeOK, submitTeamProjectLink
  <1>3. SoundPatch(submission(p, l), ticked')
    BY <1>2, SubmissionSound
  <1> QED BY <1>1, <1>2, <1>3, AskInv

LEMMA PatchModuleInv ==
    ASSUME TeamInv, NEW r \in Request, NEW m \in Member, NEW owner \in Member,
           NEW status \in Module, patchModule(r, m, owner, status)
    PROVE  TeamInv'
  <1>1. PICK p \in project : Ask(r, [progress |-> [p.progress EXCEPT ![owner] = status]])
    BY DEF patchModule
  <1>2. Sound(p, ticked) /\ ticked \subseteq Member
    BY DEF TeamInv, TeamTypeOK
  <1>3. PICK e : e = [progress |-> [p.progress EXCEPT ![owner] = status]]
    OBVIOUS
  <1>4. /\ owner = m
        /\ ticked' = IF status = "done" THEN ticked \cup {m} ELSE ticked
    BY DEF patchModule, owned
  <1>5. /\ e.progress \in [Member -> Module] /\ DOMAIN e = {"progress"}
        /\ \A o \in Member : o # owner => e.progress[o] = p.progress[o]
        /\ e.progress[owner] = status
        /\ e \in [progress : [Member -> Module]]
    BY <1>2, <1>3 DEF Sound, Project
  <1>6. SoundPatch(e, ticked')
    <2>1. \A o \in Member : e.progress[o] = "done" => o \in ticked'
      BY <1>2, <1>4, <1>5 DEF Sound
    <2> QED BY <1>5, <2>1 DEF SoundPatch, IsPatch
  <1> QED BY <1>1, <1>2, <1>3, <1>4, <1>6, AskInv

LEMMA SyncCommitsInv ==
    ASSUME TeamInv, NEW r \in Request, syncCommits(r)
    PROVE  TeamInv'
  <1>1. PICK p \in project : Ask(r, [progress |-> p.progress])
    BY DEF syncCommits
  <1>2. Sound(p, ticked) /\ ticked \subseteq Member /\ ticked' = ticked
    BY DEF TeamInv, TeamTypeOK, syncCommits
  <1>3. PICK e : e = [progress |-> p.progress]
    OBVIOUS
  <1>4. e.progress = p.progress /\ DOMAIN e = {"progress"}
        /\ e \in [progress : [Member -> Module]]
    BY <1>2, <1>3 DEF Sound, Project
  <1>5. SoundPatch(e, ticked')
    BY <1>2, <1>4 DEF SoundPatch, IsPatch, Sound
  <1> QED BY <1>1, <1>2, <1>3, <1>5, AskInv

LEMMA PatchProjectInv ==
    ASSUME TeamInv, NEW r \in Request, patchProject(r)
    PROVE  TeamInv'
  <1>1. Ask(r, NoPatch) /\ ticked' = ticked /\ ticked \subseteq Member
    BY DEF patchProject, TeamInv, TeamTypeOK
  <1>2. SoundPatch(NoPatch, ticked')
    BY NoPatchSound
  <1> QED BY <1>1, <1>2, AskInv

LEMMA VerifyReadInv ==
    ASSUME TeamInv, NEW r \in Request, verifyRead(r)
    PROVE  TeamInv'
  <1>1. Hold(r, "checking", project, NoPatch) /\ UNCHANGED <<project, ticked, calm>>
    BY DEF verifyRead
  <1>2. SoundPatch(NoPatch, ticked')
    BY NoPatchSound
  <1>3. /\ \A p \in project : Sound(p, ticked')
        /\ IsCopy(project) /\ ticked \subseteq Member
    BY <1>1 DEF TeamInv, TeamTypeOK, Sound
  <1> QED BY <1>1, <1>2, <1>3, HoldInv

LEMMA VerifyEndInv ==
    ASSUME TeamInv, NEW r \in Request, verifyEnd(r)
    PROVE  TeamInv'
  <1>1. PICK p \in request[r].read : Hold(r, "updating", {}, [verdict |-> {p.link}])
    BY DEF verifyEnd
  <1>2. /\ Sound(p, ticked) /\ UNCHANGED <<project, ticked, calm>>
        /\ ticked \subseteq Member /\ IsCopy({})
    BY DEF TeamInv, TeamTypeOK, verifyEnd, IsCopy
  <1>3. PICK e : e = [verdict |-> {p.link}]
    OBVIOUS
  <1>4. e \in [verdict : BadgeVerdict] /\ DOMAIN e = {"verdict"}
    BY <1>2, <1>3 DEF Sound, Project, BadgeVerdict
  <1>5. SoundPatch(e, ticked')
    BY <1>4 DEF SoundPatch, IsPatch
  <1> QED BY <1>1, <1>2, <1>3, <1>5, HoldInv

LEMMA DeleteInv ==
    ASSUME TeamInv, deleteTeamProject
    PROVE  TeamInv'
  BY DEF deleteTeamProject, TeamInv, TeamTypeOK, IsCopy, Sound, SoundPatch

\* The invariant holds in every state of every behaviour.
LEMMA TeamInvariance == TeamSpec => []TeamInv
  <1>1. TeamInv /\ [TeamNext]_teamVars => TeamInv'
    <2> SUFFICES ASSUME TeamInv, [TeamNext]_teamVars PROVE TeamInv'
      OBVIOUS
    <2>1. CASE UNCHANGED teamVars
      BY <2>1 DEF teamVars, TeamInv, TeamTypeOK, Sound, SoundPatch
    <2>2. CASE deleteTeamProject
      BY <2>2, DeleteInv
    <2>3. ASSUME NEW r \in Request, Serve(r) PROVE TeamInv'
      <3>1. CASE Drop(r)
        BY <3>1, RequestIdleInv DEF Drop
      <3> QED BY <2>3, <3>1, FindDocInv, SaveDocInv, SubmitInv, PatchModuleInv,
                 SyncCommitsInv, PatchProjectInv, VerifyReadInv, VerifyEndInv DEF Serve
    <2> QED BY <2>1, <2>2, <2>3 DEF TeamNext
  <1> QED BY <1>1, TeamInitInv, PTL DEF TeamSpec

\* The link a project shows is the last entry of its history, whichever saves are
\* lost or come late.
THEOREM HistoryIsTheSubmission == TeamSpec => []HistoryTellsSubmission
  <1>1. TeamInv => HistoryTellsSubmission
    BY DEF TeamInv, Sound, LastOf, HistoryTellsSubmission
  <1> QED BY <1>1, TeamInvariance, PTL

\* A module that shows as done was marked done by its owner, whoever saved last.
THEOREM TicksAreByOwners == TeamSpec => []TicksAreTheOwners
  <1>1. TeamInv => TicksAreTheOwners
    BY DEF TeamInv, Sound, TicksAreTheOwners
  <1> QED BY <1>1, TeamInvariance, PTL
-----------------------------------------------------------------------------
(* The badge.  In calm behaviours saves come one at a time, each over the       *)
(* project as it is, and submissions and checks exclude each other; so the link *)
(* a check read is the link its verdict is saved over.                          *)

Submits(held) == "link" \in DOMAIN held.patch
Checks(held) ==
    \/ held.at = "checking"
    \/ "verdict" \in DOMAIN held.patch /\ ~Submits(held)

\* What a check holds is about the link that is submitted.
CheckFits(held) ==
    /\ held.at = "checking" => \A p \in project, d \in held.read : d.link = p.link
    /\ "verdict" \in DOMAIN held.patch /\ ~Submits(held) =>
          \A p \in project : held.patch.verdict \subseteq {p.link}

BadgeInv ==
    /\ \A p \in project : p.verdict \subseteq {p.link}
    /\ \A r, q \in Request : ~(Submits(request[r]) /\ Checks(request[q]))
    /\ \A r, q \in Request : request[r].at = "saving" /\ request[q].at = "saving" => r = q
    /\ \A r \in Request : request[r].at = "saving" => project = {} \/ request[r].read = project
    /\ \A r \in Request : CheckFits(request[r])

LEMMA SlotsByWhatTheyHold ==
    /\ Submitting = {r \in Request : Submits(request[r])}
    /\ Checking = {r \in Request : Checks(request[r])}
  BY DEF Submitting, Checking, Submits, Checks

\* A step that changes what one request holds and leaves the project alone.
LEMMA HoldBadge ==
    ASSUME TeamInv, BadgeInv, NEW r \in Request,
           NEW at, NEW read, NEW patch, Hold(r, at, read, patch), project' = project,
           NEW new, new = [at |-> at, read |-> read, patch |-> patch],
           ~(Submits(new) /\ Checks(new)),
           Submits(new) => Submits(request[r]) \/ Checking = {},
           Checks(new) => Checks(request[r]) \/ Submitting = {},
           at = "saving" => read = project /\ \A q \in Request : request[q].at # "saving",
           CheckFits(new)
    PROVE  BadgeInv'
  <1>1. /\ request'[r] = new /\ new.at = at /\ new.read = read /\ new.patch = patch
        /\ \A q \in Request : q # r => request'[q] = request[q]
    BY DEF Hold, TeamInv, TeamTypeOK
  <1>2. ASSUME NEW a \in Request, NEW b \in Request, Submits(request'[a]), Checks(request'[b])
        PROVE  FALSE
    <2>1. CASE a = r /\ b = r
      BY <1>1, <1>2, <2>1
    <2>2. CASE a = r /\ b # r
      <3>1. Submits(new) /\ Checks(request[b])
        BY <1>1, <1>2, <2>2
      <3> QED BY <3>1, SlotsByWhatTheyHold DEF BadgeInv
    <2>3. CASE a # r /\ b = r
      <3>1. Submits(request[a]) /\ Checks(new)
        BY <1>1, <1>2, <2>3
      <3> QED BY <3>1, SlotsByWhatTheyHold DEF BadgeInv
    <2>4. CASE a # r /\ b # r
      BY <1>1, <1>2, <2>4 DEF BadgeInv
    <2> QED BY <2>1, <2>2, <2>3, <2>4
  <1>3. \A a, b \in Request : request'[a].at = "saving" /\ request'[b].at = "saving" => a = b
    BY <1>1 DEF BadgeInv
  <1>4. \A a \in Request : request'[a].at = "saving" => project' = {} \/ request'[a].read = project'
    BY <1>1 DEF BadgeInv
  <1>5. \A a \in Request : CheckFits(request[a])'
    BY <1>1 DEF BadgeInv, CheckFits
  <1> QED BY <1>2, <1>3, <1>4, <1>5 DEF BadgeInv

LEMMA SaveDocBadge ==
    ASSUME TeamInv, BadgeInv, NEW r \in Request, SaveDoc(r)
    PROVE  BadgeInv'
  <1>1. /\ request[r].at = "saving"
        /\ project' = IF project = {} THEN {}
                      ELSE {Merge(doc, request[r].patch) : doc \in request[r].read}
    BY DEF SaveDoc
  <1>2. /\ request'[r] = Idle
        /\ \A q \in Request : q # r => request'[q] = request[q]
    BY DEF SaveDoc, TeamInv, TeamTypeOK
  <1>3. ~Submits(Idle) /\ ~Checks(Idle) /\ Idle.at = "idle" /\ "verdict" \notin DOMAIN Idle.patch
    BY DEF Submits, Checks, Idle, NoPatch
  <1>4. \A q \in Request : q # r => request[q].at # "saving"
    BY <1>1 DEF BadgeInv
  <1>5. \A a, b \in Request : ~(Submits(request'[a]) /\ Checks(request'[b]))
    BY <1>2, <1>3 DEF BadgeInv
  <1>6. \A q \in Request : request'[q].at # "saving"
    BY <1>2, <1>3, <1>4
  <1>7. CASE project = {}
    BY <1>1, <1>2, <1>3, <1>5, <1>6, <1>7 DEF BadgeInv, CheckFits
  <1>8. CASE project # {}
    <2> DEFINE patch == request[r].patch
    <2>1. PICK doc : project = {doc} /\ doc \in Project
      BY <1>8 DEF TeamInv, TeamTypeOK, IsCopy
    <2> DEFINE new == Merge(doc, patch)
    <2>2. project' = {new}
      BY <1>1, <1>8, <2>1 DEF BadgeInv
    <2>3. /\ new.link = IF "link" \in DOMAIN patch THEN patch.link ELSE doc.link
          /\ new.verdict = IF "verdict" \in DOMAIN patch THEN patch.verdict ELSE doc.verdict
      BY <2>1 DEF Merge, Project
    <2>4. IsPatch(patch)
      BY DEF TeamInv, TeamTypeOK
    <2> HIDE DEF new
    <2>5. CASE "link" \in DOMAIN patch
      <3>1. patch \in [link : Link, history : Seq(Link), verdict : {{}}]
        BY <2>4, <2>5 DEF IsPatch, NoPatch
      <3>2. new.verdict = {}
        BY <2>3, <3>1
      <3>3. \A q \in Request : ~Checks(request[q])
        BY <2>5 DEF BadgeInv, Submits
      <3>4. \A q \in Request : CheckFits(request[q])'
        BY <1>2, <1>3, <3>3 DEF CheckFits, Checks
      <3> QED BY <1>5, <1>6, <2>2, <3>2, <3>4 DEF BadgeInv
    <2>6. CASE "link" \notin DOMAIN patch
      <3>1. new.link = doc.link
        BY <2>3, <2>6
      <3>2. new.verdict \subseteq {new.link}
        BY <2>1, <2>3, <2>6, <3>1 DEF BadgeInv, CheckFits, Submits
      <3>3. \A q \in Request : CheckFits(request[q])'
        BY <1>2, <1>3, <2>1, <2>2, <3>1 DEF BadgeInv, CheckFits, Submits
      <3> QED BY <1>5, <1>6, <2>2, <3>2, <3>3 DEF BadgeInv
    <2> QED BY <2>5, <2>6
  <1> QED BY <1>7, <1>8

LEMMA RequestIdleBadge ==
    ASSUME TeamInv, BadgeInv, NEW r \in Request, request' = [request EXCEPT ![r] = Idle],
           project' = project
    PROVE  BadgeInv'
  <1>1. Hold(r, "idle", {}, NoPatch)
    BY DEF Hold, Idle
  <1>2. PICK new : new = [at |-> "idle", read |-> {}, patch |-> NoPatch]
    OBVIOUS
  <1>3. ~Submits(new) /\ ~Checks(new) /\ CheckFits(new)
    BY <1>2 DEF Submits, Checks, CheckFits, NoPatch
  <1> QED BY <1>1, <1>2, <1>3, HoldBadge

LEMMA FindDocBadge ==
    ASSUME TeamInv, BadgeInv, calm, NEW r \in Request, FindDoc(r)
    PROVE  BadgeInv'
  <1>1. CASE project = {}
    BY <1>1, RequestIdleBadge DEF FindDoc
  <1>2. CASE project # {}
    <2>1. /\ Hold(r, "saving", project, request[r].patch) /\ project' = project
          /\ request[r].at = "updating"
          /\ \A q \in Request : request[q].at # "saving"
      BY <1>2 DEF FindDoc
    <2>2. PICK new : new = [at |-> "saving", read |-> project, patch |-> request[r].patch]
      OBVIOUS
    <2>3. /\ Submits(new) <=> Submits(request[r])
          /\ Checks(new) <=> Checks(request[r])
          /\ ~(Submits(request[r]) /\ Checks(request[r]))
      BY <2>1, <2>2 DEF Submits, Checks, BadgeInv
    <2>4. CheckFits(new)
      BY <2>2 DEF CheckFits, BadgeInv, Submits
    <2> QED BY <2>1, <2>2, <2>3, <2>4, HoldBadge
  <1> QED BY <1>1, <1>2

\* A patch that carries no verdict, asked for by a request that submits only while
\* nobody checks.
LEMMA AskBadge ==
    ASSUME TeamInv, BadgeInv, NEW r \in Request, NEW patch, Ask(r, patch),
           "link" \in DOMAIN patch => Checking = {},
           "verdict" \in DOMAIN patch => "link" \in DOMAIN patch
    PROVE  BadgeInv'
  <1>1. PICK new : new = [at |-> "updating", read |-> {}, patch |-> patch]
    OBVIOUS
  <1>2. (Submits(new) => Checking = {}) /\ ~Checks(new) /\ CheckFits(new)
    BY <1>1 DEF Submits, Checks, CheckFits
  <1> QED BY <1>1, <1>2, HoldBadge DEF Ask

LEMMA AsksBadge ==
    ASSUME TeamInv, BadgeInv, calm, NEW r \in Request,
           \/ \E l \in Link : submitTeamProjectLink(r, l)
           \/ \E m, owner \in Member, status \in Module : patchModule(r, m, owner, status)
           \/ syncCommits(r) \/ patchProject(r)
    PROVE  BadgeInv'
  <1>1. ASSUME NEW l \in Link, submitTeamProjectLink(r, l) PROVE BadgeInv'
    <2>1. PICK p \in project : Ask(r, submission(p, l)) /\ Checking = {}
      BY <1>1 DEF submitTeamProjectLink
    <2>2. "link" \in DOMAIN submission(p, l)
      BY DEF submission
    <2> QED BY <2>1, <2>2, AskBadge
  <1>2. ASSUME NEW progress, Ask(r, [progress |-> progress]) PROVE BadgeInv'
    <2>1. PICK e : e = [progress |-> progress]
      OBVIOUS
    <2>2. "link" \notin DOMAIN e /\ "verdict" \notin DOMAIN e
      BY <2>1
    <2> QED BY <1>2, <2>1, <2>2, AskBadge
  <1>3. CASE patchProject(r)
    BY <1>3, AskBadge DEF patchProject, NoPatch
  <1> QED BY <1>1, <1>2, <1>3 DEF patchModule, syncCommits

LEMMA VerifyReadBadge ==
    ASSUME TeamInv, BadgeInv, calm, NEW r \in Request, verifyRead(r)
    PROVE  BadgeInv'
  <1>1. Hold(r, "checking", project, NoPatch) /\ project' = project /\ Submitting = {}
    BY DEF verifyRead
  <1>2. PICK new : new = [at |-> "checking", read |-> project, patch |-> NoPatch]
    OBVIOUS
  <1>3. ~Submits(new) /\ "verdict" \notin DOMAIN new.patch
    BY <1>2 DEF Submits, NoPatch
  <1>4. CheckFits(new)
    BY <1>2, <1>3 DEF CheckFits, TeamInv, TeamTypeOK, IsCopy
  <1> QED BY <1>1, <1>2, <1>3, <1>4, HoldBadge

LEMMA VerifyEndBadge ==
    ASSUME TeamInv, BadgeInv, NEW r \in Request, verifyEnd(r)
    PROVE  BadgeInv'
  <1>1. PICK p \in request[r].read : Hold(r, "updating", {}, [verdict |-> {p.link}])
    BY DEF verifyEnd
  <1>2. request[r].at = "checking" /\ project' = project
    BY DEF verifyEnd
  <1>3. PICK e : e = [verdict |-> {p.link}]
    OBVIOUS
  <1>4. PICK new : new = [at |-> "updating", read |-> {}, patch |-> e]
    OBVIOUS
  <1>5. ~Submits(new) /\ Checks(request[r])
    BY <1>2, <1>3, <1>4 DEF Submits, Checks
  <1>6. CheckFits(new)
    BY <1>2, <1>3, <1>4 DEF CheckFits, BadgeInv
  <1> QED BY <1>1, <1>2, <1>3, <1>4, <1>5, <1>6, HoldBadge

LEMMA DeleteBadge ==
    ASSUME BadgeInv, deleteTeamProject
    PROVE  BadgeInv'
  BY DEF deleteTeamProject, BadgeInv, CheckFits

LEMMA BadgeInvariance == TeamSpec => [](calm => BadgeInv)
  <1>1. TeamInit => BadgeInv
    <2> SUFFICES ASSUME TeamInit PROVE BadgeInv
      OBVIOUS
    <2>1. \A r \in Request : request[r] = Idle
      BY DEF TeamInit
    <2>2. ~Submits(Idle) /\ ~Checks(Idle) /\ Idle.at = "idle" /\ CheckFits(Idle)
      BY DEF Submits, Checks, Idle, NoPatch, CheckFits
    <2>3. \A p \in project : p.verdict = {}
      BY DEF TeamInit
    <2> QED BY <2>1, <2>2, <2>3 DEF BadgeInv
  <1>2. TeamInv /\ (calm => BadgeInv) /\ [TeamNext]_teamVars => (calm => BadgeInv)'
    <2> SUFFICES ASSUME TeamInv, calm => BadgeInv, [TeamNext]_teamVars, calm'
                 PROVE  BadgeInv'
      OBVIOUS
    <2>1. calm /\ BadgeInv
      BY DEF TeamNext, Serve, FindDoc, SaveDoc, submitTeamProjectLink, patchModule, syncCommits,
         patchProject, verifyRead, verifyEnd, Drop, deleteTeamProject, Ask, teamVars
    <2>2. CASE UNCHANGED teamVars
      BY <2>1, <2>2 DEF teamVars, BadgeInv, CheckFits
    <2>3. ASSUME NEW r \in Request, Serve(r) PROVE BadgeInv'
      <3>1. CASE Drop(r)
        BY <2>1, <3>1, RequestIdleBadge DEF Drop
      <3> QED BY <2>1, <2>3, <3>1, FindDocBadge, SaveDocBadge, AsksBadge, VerifyReadBadge,
                 VerifyEndBadge DEF Serve
    <2> QED BY <2>1, <2>2, <2>3, DeleteBadge DEF TeamNext
  <1> QED BY <1>1, <1>2, TeamInvariance, PTL DEF TeamSpec

\* In calm behaviours a verdict shown is about the link that is submitted.
THEOREM BadgesAreCurrent == TeamSpec => []BadgeIsCurrent
  <1>1. (calm => BadgeInv) => BadgeIsCurrent
    BY DEF BadgeInv, BadgeIsCurrent
  <1> QED BY <1>1, BadgeInvariance, PTL

-----------------------------------------------------------------------------
(* Placement drives *)

Entry == [student : Student, stage : Stage]
Hand == [drive : Drive \cup {NoDrive}, found : SUBSET Row, at : Nat, next : SUBSET Entry]

DriveTypeOK ==
    /\ stored \subseteq Drive
    /\ deleted \subseteq Drive
    /\ rows \in Seq(SUBSET Row)
    /\ recording \in [Recorder -> Hand]
    /\ removing \in [Remover -> Drive \cup {NoDrive}]
    /\ reached \in [Drive -> [Student -> Nat]]
    /\ tidy \in BOOLEAN

\* A place holds one row at most, and no two places rows of one pair.
RowsApart ==
    \A i, j \in DOMAIN rows : \A x \in rows[i], y \in rows[j] :
       (x.drive = y.drive /\ x.student = y.student) => (i = j /\ x = y)

\* A pair's row is at the deepest stage recorded; a pair with none has nothing recorded.
RowsReached ==
    /\ \A i \in DOMAIN rows : \A x \in rows[i] : depth(x.furthest) = reached[x.drive][x.student]
    /\ \A d \in Drive, s \in Student : reached[d][s] # 0 => rowsOf(d, s) # {}

\* What a recorder found is all there is of the pair, as it is, or was deleted since.
FoundHolds(h) ==
    \A e \in h.next :
       /\ h.drive \in Drive
       /\ \A f \in h.next : f = e
       /\ rowsOf(h.drive, e.student) \subseteq {h.at}
       /\ h.at = 0 => h.found = {}
       /\ h.at # 0 => /\ h.at \in DOMAIN rows
                      /\ rows[h.at] \in {{}, h.found}
                      /\ \E x \in h.found : h.found = {x} /\ Pair(x, h.drive, e.student)

PairsApart ==
    \A r, q \in Recorder : \A e \in recording[r].next, f \in recording[q].next :
       (recording[r].drive = recording[q].drive /\ e.student = f.student) => r = q

DriveInv ==
    /\ DriveTypeOK
    /\ \A r \in Recorder : \A e \in recording[r].next :
          recording[r].drive \in Drive /\ \A f \in recording[r].next : f = e
    /\ \A i \in DOMAIN rows : \A x, y \in rows[i] : x = y
    /\ \A r \in Recorder : recording[r].at # 0 => recording[r].at \in DOMAIN rows
    /\ tidy => /\ RowsApart
               /\ RowsReached
               /\ \A r \in Recorder : FoundHolds(recording[r])
               /\ PairsApart

LEMMA DepthIsNat ==
    ASSUME NEW stage \in Stage PROVE depth(stage) \in Nat
  <1> DEFINE P(n) == IF stage = "rejected" THEN n = 0 ELSE n > 0 /\ StageOrder[n] = stage
  <1>1. Len(StageOrder) = 3 /\ DOMAIN StageOrder = 1 .. 3
    BY DEF StageOrder
  <1>2. \E n \in 0 .. 3 : P(n)
    <2>1. CASE stage = "rejected"
      BY <2>1
    <2>2. CASE stage # "rejected"
      <3>1. PICK i \in 1 .. 3 : stage = StageOrder[i]
        BY <2>2, <1>1 DEF Stage
      <3>2. i \in 0 .. 3 /\ i > 0
        OBVIOUS
      <3> QED BY <3>1, <3>2, <2>2
    <2> QED BY <2>1, <2>2
  <1>3. depth(stage) = CHOOSE n \in 0 .. 3 : P(n)
    BY <1>1 DEF depth
  <1> HIDE DEF P
  <1>4. depth(stage) \in 0 .. 3
    BY <1>2, <1>3
  <1> QED BY <1>4

\* The furthest stage of nothing found, and of the one row found.
LEMMA FurthestAfter ==
    ASSUME NEW stage \in Stage, NEW x \in Row
    PROVE  /\ furthest({}, stage) = stage
           /\ furthest({x}, stage) \in Stage
           /\ depth(furthest({x}, stage)) =
                 IF depth(stage) > depth(x.furthest) THEN depth(stage) ELSE depth(x.furthest)
  <1>1. furthest({}, stage) = stage
    BY DEF furthest
  <1>2. (CHOOSE row \in {x} : TRUE) = x
    OBVIOUS
  <1>3. furthest({x}, stage) = IF depth(stage) =< depth(x.furthest) THEN x.furthest ELSE stage
    BY <1>2 DEF furthest
  <1>4. x.furthest \in Stage
    BY DEF Row
  <1>5. depth(stage) \in Nat /\ depth(x.furthest) \in Nat
    BY <1>4, DepthIsNat
  <1> QED BY <1>1, <1>3, <1>4, <1>5

LEMMA FurthestIsStage ==
    ASSUME NEW found \in SUBSET Row, NEW stage \in Stage
    PROVE  furthest(found, stage) \in Stage
  <1>1. CASE found = {}
    BY <1>1 DEF furthest
  <1>2. CASE found # {}
    <2>1. (CHOOSE row \in found : TRUE) \in found
      BY <1>2
    <2>2. (CHOOSE row \in found : TRUE).furthest \in Stage
      BY <2>1 DEF Row
    <2> QED BY <2>2 DEF furthest
  <1> QED BY <1>1, <1>2

LEMMA MergeIsRow ==
    ASSUME NEW found \in SUBSET Row, NEW d \in Drive, NEW e \in Entry
    PROVE  /\ mergeOutcome(found, d, e) \in Row
           /\ mergeOutcome(found, d, e).drive = d
           /\ mergeOutcome(found, d, e).student = e.student
           /\ mergeOutcome(found, d, e).furthest = furthest(found, e.stage)
  <1>1. e.student \in Student /\ e.stage \in Stage
    BY DEF Entry
  <1>2. furthest(found, e.stage) \in Stage
    BY <1>1, FurthestIsStage
  <1> QED BY <1>1, <1>2 DEF mergeOutcome, Row

LEMMA HoldingIsHand ==
    ASSUME NEW d \in Drive \cup {NoDrive} PROVE Holding(d) \in Hand /\ Holding(d).next = {} /\ Holding(d).at = 0
  BY DEF Holding, Hand

LEMMA RowsOfAre ==
    ASSUME NEW d, NEW s PROVE rowsOf(d, s) \subseteq DOMAIN rows
  BY DEF rowsOf

\* Set down: a recorder that lets go of what it has in hand, no row changed.
LEMMA LetGo ==
    ASSUME DriveInv, NEW r \in Recorder, NEW d \in Drive \cup {NoDrive},
           recording' = [recording EXCEPT ![r] = Holding(d)],
           UNCHANGED <<rows, reached, tidy>>,
           stored' \subseteq Drive, deleted' \subseteq Drive,
           removing' \in [Remover -> Drive \cup {NoDrive}]
    PROVE  DriveInv'
  <1> DEFINE h == Holding(d)
  <1>1. h \in Hand /\ h.next = {} /\ h.at = 0
    BY HoldingIsHand
  <1> HIDE DEF h
  <1>2. recording' = [recording EXCEPT ![r] = h]
    BY DEF h
  <1>3. recording \in [Recorder -> Hand]
    BY DEF DriveInv, DriveTypeOK
  <1>4. DriveTypeOK'
    BY <1>1, <1>2 DEF DriveInv, DriveTypeOK
  <1>5. \A q \in Recorder : recording'[q] = IF q = r THEN h ELSE recording[q]
    BY <1>2, <1>3
  <1>6. \A d0, s0 : rowsOf(d0, s0)' = rowsOf(d0, s0)
    BY DEF rowsOf
  <1>7. tidy' => RowsApart' /\ RowsReached'
    BY <1>6 DEF DriveInv, RowsApart, RowsReached
  <1>8. \A q \in Recorder : tidy' => FoundHolds(recording[q])'
    <2> SUFFICES ASSUME NEW q \in Recorder, tidy' PROVE FoundHolds(recording[q])'
      OBVIOUS
    <2>1. CASE q = r
      BY <2>1, <1>1, <1>5 DEF FoundHolds
    <2>2. CASE q # r
      <3>1. FoundHolds(recording[q])
        BY DEF DriveInv
      <3> QED BY <2>2, <3>1, <1>5, <1>6 DEF FoundHolds
    <2> QED BY <2>1, <2>2
  <1>9. tidy' => PairsApart'
    BY <1>1, <1>5 DEF DriveInv, PairsApart
  <1>10. \A q \in Recorder : \A e \in recording'[q].next :
            recording'[q].drive \in Drive /\ \A f \in recording'[q].next : f = e
    BY <1>1, <1>5 DEF DriveInv
  <1>11. \A q \in Recorder : recording'[q].at # 0 => recording'[q].at \in DOMAIN rows'
    BY <1>1, <1>5 DEF DriveInv
  <1> QED BY <1>4, <1>7, <1>8, <1>9, <1>10, <1>11 DEF DriveInv

\* A set of places has a first one: an interval 1 .. k is well-founded under inclusion.
LEMMA FirstPlace ==
    ASSUME NEW T \in SUBSET Nat, T # {}
    PROVE  (CHOOSE i \in T : \A j \in T : i =< j) \in T
  <1> DEFINE Before == {1 .. k : k \in T}
  <1>1. Before \subseteq FiniteSubsetsOf(Nat) /\ Before # {}
    <2>1. \A k \in Nat : IsFiniteSet(1 .. k)
      BY FS_Interval
    <2>2. Before \subseteq FiniteSubsetsOf(Nat)
      <3> SUFFICES ASSUME NEW k \in T PROVE 1 .. k \in FiniteSubsetsOf(Nat)
        OBVIOUS
      <3> QED BY <2>1 DEF FiniteSubsetsOf
    <2>3. PICK k \in T : TRUE
      OBVIOUS
    <2>4. 1 .. k \in Before
      OBVIOUS
    <2> QED BY <2>2, <2>4
  <1>2. \E x \in Before : \A y \in Before : ~(<<y, x>> \in StrictSubsetOrdering(Nat))
    <2> HIDE DEF Before
    <2>1. IsWellFoundedOn(StrictSubsetOrdering(Nat), FiniteSubsetsOf(Nat))
      BY FS_StrictSubsetOrderingWellFounded
    <2> QED BY <1>1, <2>1, WFMin, Zenon
  <1>3. PICK i \in T : \A j \in T : ~(<<1 .. j, 1 .. i>> \in StrictSubsetOrdering(Nat))
    BY <1>2, Zenon
  <1>4. ASSUME NEW j \in T PROVE i =< j
    <2>1. SUFFICES ASSUME j < i PROVE FALSE
      OBVIOUS
    <2>2. i \in 1 .. i /\ i \notin 1 .. j /\ (1 .. j) \subseteq (1 .. i)
      BY <2>1
    <2>3. <<1 .. j, 1 .. i>> \in StrictSubsetOrdering(Nat)
      BY <2>2 DEF StrictSubsetOrdering
    <2> QED BY <2>3, <1>3
  <1> QED BY <1>4

LEMMA FindKeepsInv ==
    ASSUME DriveInv, NEW r \in Recorder, NEW s \in Student, NEW stage \in Stage,
           findOutcome(r, s, stage)
    PROVE  DriveInv'
  <1> DEFINE d == recording[r].drive
             mine == rowsOf(d, s)
             first == CHOOSE i \in mine : \A j \in mine : i =< j
             found == IF mine = {} THEN {} ELSE rows[first]
             at == IF mine = {} THEN 0 ELSE first
             e == [student |-> s, stage |-> stage]
             h == [drive |-> d, found |-> found, at |-> at, next |-> {e}]
  <1>1. /\ recording \in [Recorder -> Hand] /\ rows \in Seq(SUBSET Row)
        /\ d \in Drive \cup {NoDrive} /\ d # NoDrive
    <2>1. recording \in [Recorder -> Hand] /\ rows \in Seq(SUBSET Row)
      BY DEF DriveInv, DriveTypeOK
    <2>2. recording[r] \in Hand
      BY <2>1
    <2> QED BY <2>1, <2>2 DEF Hand, findOutcome
  <1>2. d \in Drive
    BY <1>1
  <1>3. mine \in SUBSET Nat /\ mine \subseteq DOMAIN rows
    BY <1>1 DEF rowsOf
  <1>4. mine # {} => first \in mine
    <2> HIDE DEF mine
    <2> QED BY <1>3, FirstPlace
  <1>5. found \in SUBSET Row /\ at \in Nat /\ (at # 0 <=> mine # {}) /\ (at # 0 => at \in DOMAIN rows)
    <2>1. DOMAIN rows = 1 .. Len(rows) /\ Len(rows) \in Nat
      BY <1>1
    <2> HIDE DEF mine, first
    <2>2. CASE mine = {}
      BY <2>2
    <2>3. CASE mine # {}
      <3>0. first \in 1 .. Len(rows)
        BY <1>3, <1>4, <2>1, <2>3
      <3>1. first \in 1 .. Len(rows) /\ rows[first] \in SUBSET Row
        BY <1>1, <3>0, ElementOfSeq
      <3> QED BY <2>1, <2>3, <3>1
    <2> QED BY <2>2, <2>3
  <1>6. e \in Entry /\ e.student = s
    BY DEF Entry
  <1>7. recording' = [recording EXCEPT ![r] = h]
    BY DEF findOutcome
  <1>8. UNCHANGED <<stored, deleted, rows, removing, reached, tidy>>
    BY DEF findOutcome
  <1>9. tidy => \A q \in Recorder : \A f \in recording[q].next :
                   ~(recording[q].drive = d /\ f.student = s)
    BY DEF findOutcome
  <1>10. tidy => FoundHolds(h)
    <2> SUFFICES ASSUME tidy PROVE FoundHolds(h)
      OBVIOUS
    <2>1. mine \subseteq {at}
      <3> SUFFICES ASSUME NEW i \in mine, NEW j \in mine PROVE i = j
        BY <1>4
      <3>1. PICK x \in rows[i] : Pair(x, d, s)
        BY DEF rowsOf
      <3>2. PICK y \in rows[j] : Pair(y, d, s)
        BY DEF rowsOf
      <3>3. RowsApart
        BY DEF DriveInv
      <3> QED BY <1>3, <3>1, <3>2, <3>3 DEF RowsApart, Pair
    <2>2. ASSUME at # 0
          PROVE  rows[at] = found /\ \E x \in found : found = {x} /\ Pair(x, d, s)
      <3>1. at = first /\ first \in mine /\ found = rows[first]
        BY <1>4, <1>5, <2>2
      <3>2. PICK x \in rows[first] : Pair(x, d, s)
        BY <3>1 DEF rowsOf
      <3>3. \A y \in rows[first] : y = x
        BY <3>1, <1>3 DEF DriveInv
      <3> QED BY <3>1, <3>2, <3>3
    <2>3. at = 0 => found = {}
      BY <1>5
    <2> HIDE DEF mine, first, found, at, d, e
    <2>4. /\ h.drive = d /\ h.found = found /\ h.at = at /\ h.next = {e}
      OBVIOUS
    <2> HIDE DEF h
    <2> QED BY <1>2, <1>5, <1>6, <2>1, <2>2, <2>3, <2>4 DEF FoundHolds, mine
  <1>11. h \in Hand /\ h.drive = d /\ h.at = at /\ h.next = {e}
    <2> HIDE DEF mine, first, found, at, d, e
    <2> QED BY <1>2, <1>5, <1>6 DEF Hand
  <1> HIDE DEF h, d, mine, first, found, at, e
  <1>12. \A q \in Recorder : recording'[q] = IF q = r THEN h ELSE recording[q]
    BY <1>1, <1>7
  <1>13. DriveTypeOK'
    BY <1>7, <1>8, <1>11 DEF DriveInv, DriveTypeOK
  <1>14. \A d0, s0 : rowsOf(d0, s0)' = rowsOf(d0, s0)
    BY <1>8 DEF rowsOf
  <1>15. tidy' => RowsApart' /\ RowsReached'
    BY <1>8, <1>14 DEF DriveInv, RowsApart, RowsReached
  <1>16. \A q \in Recorder : tidy' => FoundHolds(recording[q])'
    <2> SUFFICES ASSUME NEW q \in Recorder, tidy' PROVE FoundHolds(recording[q])'
      OBVIOUS
    <2>1. CASE q = r
      BY <2>1, <1>8, <1>10, <1>12, <1>14 DEF FoundHolds
    <2>2. CASE q # r
      <3>1. FoundHolds(recording[q])
        BY <1>8 DEF DriveInv
      <3> QED BY <2>2, <3>1, <1>8, <1>12, <1>14 DEF FoundHolds
    <2> QED BY <2>1, <2>2
  <1>17. tidy' => PairsApart'
    BY <1>6, <1>8, <1>9, <1>11, <1>12 DEF DriveInv, PairsApart
  <1>18. \A q \in Recorder : \A f \in recording'[q].next :
            recording'[q].drive \in Drive /\ \A g \in recording'[q].next : g = f
    BY <1>2, <1>11, <1>12 DEF DriveInv
  <1>19. \A q \in Recorder : recording'[q].at # 0 => recording'[q].at \in DOMAIN rows'
    BY <1>5, <1>8, <1>11, <1>12 DEF DriveInv
  <1> QED BY <1>8, <1>13, <1>15, <1>16, <1>17, <1>18, <1>19 DEF DriveInv

LEMMA RowsTyped ==
    ASSUME NEW n \in Nat, NEW f \in [1 .. n -> SUBSET Row] PROVE f \in Seq(SUBSET Row)
  BY SeqDef

LEMMA RowAppended ==
    ASSUME NEW f \in Seq(SUBSET Row), NEW row \in SUBSET Row
    PROVE  /\ Append(f, row) \in Seq(SUBSET Row)
           /\ Len(Append(f, row)) = Len(f) + 1
           /\ Append(f, row)[Len(f) + 1] = row
           /\ \A j \in 1 .. Len(f) : Append(f, row)[j] = f[j]
  BY AppendProperties

\* Rows removed, nothing written: what recorders found stays or is gone.
LEMMA RowsRemoved ==
    ASSUME DriveInv, UNCHANGED <<recording, tidy>>,
           stored' \subseteq Drive, deleted' \subseteq Drive,
           removing' \in [Remover -> Drive \cup {NoDrive}],
           reached' \in [Drive -> [Student -> Nat]],
           rows' = [i \in DOMAIN rows |-> rows'[i]],
           \A i \in DOMAIN rows : rows'[i] \in {{}, rows[i]},
           tidy => RowsReached'
    PROVE  DriveInv'
  <1>1. DOMAIN rows' = DOMAIN rows /\ \A i \in DOMAIN rows : rows'[i] \subseteq rows[i]
    OBVIOUS
  <1>2. rows' \in Seq(SUBSET Row)
    <2>1. rows \in Seq(SUBSET Row)
      BY DEF DriveInv, DriveTypeOK
    <2>2. Len(rows) \in Nat /\ DOMAIN rows = 1 .. Len(rows)
      BY <2>1
    <2>3. \A i \in 1 .. Len(rows) : rows[i] \in SUBSET Row
      BY <2>1, ElementOfSeq
    <2>4. rows' \in [1 .. Len(rows) -> SUBSET Row]
      BY <1>1, <2>2, <2>3
    <2> QED BY <2>2, <2>4, RowsTyped
  <1>3. DriveTypeOK'
    BY <1>2 DEF DriveInv, DriveTypeOK
  <1>4. \A d, s : rowsOf(d, s)' \subseteq rowsOf(d, s)
    BY <1>1 DEF rowsOf
  <1>5. tidy' => RowsApart'
    BY <1>1 DEF DriveInv, RowsApart
  <1>6. ASSUME NEW q \in Recorder, tidy' PROVE FoundHolds(recording[q])'
    <2>1. FoundHolds(recording[q])
      BY <1>6 DEF DriveInv
    <2> QED BY <2>1, <1>1, <1>4 DEF FoundHolds
  <1>7. tidy' => PairsApart'
    BY DEF DriveInv, PairsApart
  <1>8. \A i \in DOMAIN rows' : \A x, y \in rows'[i] : x = y
    BY <1>1 DEF DriveInv
  <1> QED BY <1>1, <1>3, <1>5, <1>6, <1>7, <1>8 DEF DriveInv

LEMMA RemoveKeepsInv ==
    ASSUME DriveInv, NEW d \in Drive, NEW s \in Student, removePlacementOutcome(d, s)
    PROVE  DriveInv'
  <1> DEFINE i == CHOOSE i \in rowsOf(d, s) : \A j \in rowsOf(d, s) : i =< j
  <1>1. /\ rows \in Seq(SUBSET Row) /\ reached \in [Drive -> [Student -> Nat]]
        /\ removing \in [Remover -> Drive \cup {NoDrive}]
        /\ stored \subseteq Drive /\ deleted \subseteq Drive
    BY DEF DriveInv, DriveTypeOK
  <1>2. i \in rowsOf(d, s)
    <2>1. rowsOf(d, s) \in SUBSET Nat /\ rowsOf(d, s) # {}
      BY <1>1 DEF rowsOf, removePlacementOutcome
    <2> QED BY <2>1, FirstPlace
  <1>3. /\ rows' = [rows EXCEPT ![i] = {}]
        /\ reached' = [reached EXCEPT ![d][s] = 0]
        /\ UNCHANGED <<stored, deleted, recording, removing, tidy>>
    BY DEF removePlacementOutcome
  <1> HIDE DEF i
  <1>4. reached' \in [Drive -> [Student -> Nat]]
    BY <1>1, <1>3
  <1>5. \A d0 \in Drive, s0 \in Student :
           reached'[d0][s0] = IF d0 = d /\ s0 = s THEN 0 ELSE reached[d0][s0]
    BY <1>1, <1>3
  <1>6. rows' = [j \in DOMAIN rows |-> rows'[j]] /\ \A j \in DOMAIN rows : rows'[j] = IF j = i THEN {} ELSE rows[j]
    BY <1>1, <1>3
  <1>7. \A j \in DOMAIN rows : rows'[j] \in {{}, rows[j]}
    BY <1>6
  <1>8. ASSUME tidy PROVE RowsReached'
    <2>1. RowsApart /\ RowsReached /\ \A j \in DOMAIN rows : \A x, y \in rows[j] : x = y
      BY <1>8 DEF DriveInv
    <2>2. i \in DOMAIN rows
      BY <1>2 DEF rowsOf
    <2>3. PICK x \in rows[i] : Pair(x, d, s)
      BY <1>2 DEF rowsOf
    <2>4. ASSUME NEW j \in DOMAIN rows', NEW y \in rows'[j]
          PROVE  depth(y.furthest) = reached'[y.drive][y.student]
      <3>1. j \in DOMAIN rows /\ j # i /\ y \in rows[j]
        BY <1>6
      <3>2. ~(y.drive = d /\ y.student = s)
        BY <2>1, <2>2, <2>3, <3>1 DEF RowsApart, Pair
      <3>3. y \in Row
        BY <1>1, <3>1, ElementOfSeq
      <3>4. y.drive \in Drive /\ y.student \in Student
        BY <3>3 DEF Row
      <3> QED BY <1>5, <2>1, <3>1, <3>2, <3>4 DEF RowsReached
    <2>5. ASSUME NEW d0 \in Drive, NEW s0 \in Student, reached'[d0][s0] # 0
          PROVE  rowsOf(d0, s0)' # {}
      <3>1. ~(d0 = d /\ s0 = s) /\ reached[d0][s0] # 0
        BY <1>5, <2>5
      <3>2. PICK j \in rowsOf(d0, s0) : TRUE
        BY <2>1, <3>1 DEF RowsReached
      <3>3. PICK y \in rows[j] : Pair(y, d0, s0)
        BY <3>2 DEF rowsOf
      <3>4. j # i /\ j \in DOMAIN rows
        BY <2>1, <2>3, <3>1, <3>2, <3>3 DEF Pair, rowsOf
      <3>5. j \in DOMAIN rows' /\ y \in rows'[j]
        BY <1>6, <3>3, <3>4
      <3> QED BY <3>3, <3>5 DEF rowsOf
    <2> QED BY <2>4, <2>5 DEF RowsReached
  <1> QED BY <1>1, <1>3, <1>4, <1>6, <1>7, <1>8, RowsRemoved

LEMMA DeleteKeepsInv ==
    ASSUME DriveInv, NEW m \in Remover, deleteOutcomes(m)
    PROVE  DriveInv'
  <1> DEFINE d == removing[m]
  <1>1. /\ rows \in Seq(SUBSET Row) /\ reached \in [Drive -> [Student -> Nat]]
        /\ removing \in [Remover -> Drive \cup {NoDrive}]
        /\ stored \subseteq Drive /\ deleted \subseteq Drive
    BY DEF DriveInv, DriveTypeOK
  <1>2. /\ rows' = [j \in DOMAIN rows |-> keptWithout(rows[j], d)]
        /\ reached' = [reached EXCEPT ![d] = [s \in Student |-> 0]]
        /\ removing' = [removing EXCEPT ![m] = NoDrive]
        /\ UNCHANGED <<stored, deleted, recording, tidy>>
    BY DEF deleteOutcomes
  <1>3. d \in Drive
    BY <1>1 DEF deleteOutcomes
  <1> HIDE DEF d
  <1>4. removing' \in [Remover -> Drive \cup {NoDrive}]
    BY <1>1, <1>2
  <1>5. reached' \in [Drive -> [Student -> Nat]]
    <2>1. [s \in Student |-> 0] \in [Student -> Nat]
      OBVIOUS
    <2> QED BY <1>1, <1>2, <2>1
  <1>6. \A d0 \in Drive, s0 \in Student :
           reached'[d0][s0] = IF d0 = d THEN 0 ELSE reached[d0][s0]
    BY <1>1, <1>2, <1>3
  <1>7. /\ rows' = [j \in DOMAIN rows |-> rows'[j]]
        /\ \A j \in DOMAIN rows : rows'[j] = keptWithout(rows[j], d)
    BY <1>2
  <1>8. \A j \in DOMAIN rows : rows'[j] \in {{}, rows[j]}
    BY <1>7 DEF keptWithout
  <1>9. ASSUME tidy PROVE RowsReached'
    <2>1. RowsReached
      BY <1>9 DEF DriveInv
    <2>2. \A j \in DOMAIN rows : \A x, y \in rows[j] : x = y
      BY DEF DriveInv
    <2>3. ASSUME NEW j \in DOMAIN rows', NEW y \in rows'[j]
          PROVE  depth(y.furthest) = reached'[y.drive][y.student]
      <3>1. j \in DOMAIN rows /\ y \in rows[j] /\ y.drive # d
        BY <1>7, <2>3 DEF keptWithout
      <3>2. y \in Row
        BY <1>1, <3>1, ElementOfSeq
      <3>3. y.drive \in Drive /\ y.student \in Student
        BY <3>2 DEF Row
      <3> QED BY <1>6, <2>1, <3>1, <3>3 DEF RowsReached
    <2>4. ASSUME NEW d0 \in Drive, NEW s0 \in Student, reached'[d0][s0] # 0
          PROVE  rowsOf(d0, s0)' # {}
      <3>1. d0 # d /\ reached[d0][s0] # 0
        BY <1>6, <2>4
      <3>2. PICK j \in rowsOf(d0, s0) : TRUE
        BY <2>1, <3>1 DEF RowsReached
      <3>3. j \in DOMAIN rows
        BY <3>2 DEF rowsOf
      <3>4. PICK y \in rows[j] : Pair(y, d0, s0)
        BY <3>2 DEF rowsOf
      <3>5. rows'[j] = rows[j]
        BY <1>7, <2>2, <3>1, <3>3, <3>4 DEF keptWithout, Pair
      <3>6. j \in DOMAIN rows' /\ y \in rows'[j]
        BY <1>7, <3>3, <3>4, <3>5
      <3> QED BY <3>4, <3>6 DEF rowsOf
    <2> QED BY <2>3, <2>4 DEF RowsReached
  <1> QED BY <1>1, <1>2, <1>4, <1>5, <1>7, <1>8, <1>9, RowsRemoved

\* The deepest stage of one pair moves on, of no other.
LEMMA DeeperIs ==
    ASSUME reached \in [Drive -> [Student -> Nat]], NEW d \in Drive, NEW e \in Entry
    PROVE  /\ Deeper(d, e) \in [Drive -> [Student -> Nat]]
           /\ \A d0 \in Drive, s0 \in Student :
                 Deeper(d, e)[d0][s0] =
                    IF d0 = d /\ s0 = e.student
                    THEN IF depth(e.stage) > reached[d][s0] THEN depth(e.stage) ELSE reached[d][s0]
                    ELSE reached[d0][s0]
  <1> DEFINE s == e.student
             n == IF depth(e.stage) > reached[d][s] THEN depth(e.stage) ELSE reached[d][s]
  <1>1. s \in Student /\ depth(e.stage) \in Nat
    BY DepthIsNat DEF Entry
  <1>2. n \in Nat
    BY <1>1
  <1>3. Deeper(d, e) = [reached EXCEPT ![d][s] = n]
    BY <1>1 DEF Deeper
  <1> HIDE DEF s
  <1>4. n = IF depth(e.stage) > reached[d][s] THEN depth(e.stage) ELSE reached[d][s]
    OBVIOUS
  <1> HIDE DEF n
  <1>5. \A d0 \in Drive, s0 \in Student :
           Deeper(d, e)[d0][s0] = IF d0 = d /\ s0 = s THEN n ELSE reached[d0][s0]
    BY <1>1, <1>3
  <1>6. Deeper(d, e) \in [Drive -> [Student -> Nat]]
    BY <1>1, <1>2, <1>3
  <1> QED BY <1>4, <1>5, <1>6 DEF s

LEMMA SaveKeepsInv ==
    ASSUME DriveInv, NEW r \in Recorder, NEW e \in recording[r].next,
           recording[r].at # 0, rows[recording[r].at] # {},
           rows' = [rows EXCEPT ![recording[r].at] =
                       {mergeOutcome(recording[r].found, recording[r].drive, e)}],
           reached' = Deeper(recording[r].drive, e),
           recording' = [recording EXCEPT ![r] = Holding(recording[r].drive)],
           UNCHANGED <<stored, deleted, removing, tidy>>
    PROVE  DriveInv'
  <1> DEFINE d == recording[r].drive
             i == recording[r].at
             s == e.student
             x == mergeOutcome(recording[r].found, d, e)
             h == Holding(d)
  <1>1. /\ rows \in Seq(SUBSET Row) /\ reached \in [Drive -> [Student -> Nat]]
        /\ recording \in [Recorder -> Hand]
    BY DEF DriveInv, DriveTypeOK
  <1>2. /\ recording[r].found \in SUBSET Row /\ i \in Nat /\ e \in Entry /\ i \in DOMAIN rows
        /\ d \in Drive
    <2>1. recording[r] \in Hand
      BY <1>1
    <2> QED BY <2>1 DEF DriveInv, Hand
  <1>3. s \in Student /\ e.stage \in Stage
    BY <1>2 DEF Entry
  <1>4. x \in Row /\ x.drive = d /\ x.student = s
    BY <1>2, MergeIsRow
  <1>5. h \in Hand /\ h.next = {} /\ h.at = 0
    BY <1>2, HoldingIsHand
  <1>6. \A d0 \in Drive, s0 \in Student :
           reached'[d0][s0] =
              IF d0 = d /\ s0 = s
              THEN IF depth(e.stage) > reached[d][s0] THEN depth(e.stage) ELSE reached[d][s0]
              ELSE reached[d0][s0]
    BY <1>1, <1>2, DeeperIs
  <1>7. reached' \in [Drive -> [Student -> Nat]]
    BY <1>1, <1>2, DeeperIs
  <1>8. /\ rows' = [rows EXCEPT ![i] = {x}] /\ recording' = [recording EXCEPT ![r] = h]
    OBVIOUS
  <1>9. tidy => \E x0 \in Row :
           /\ rows[i] = {x0} /\ x0.drive = d /\ x0.student = s
           /\ x.furthest = furthest({x0}, e.stage)
    <2> SUFFICES ASSUME tidy PROVE \E x0 \in Row :
           /\ rows[i] = {x0} /\ x0.drive = d /\ x0.student = s
           /\ x.furthest = furthest({x0}, e.stage)
      OBVIOUS
    <2>1. FoundHolds(recording[r])
      BY DEF DriveInv
    <2>2. rows[i] = recording[r].found
      BY <2>1 DEF FoundHolds
    <2>3. PICK x0 \in recording[r].found : recording[r].found = {x0} /\ Pair(x0, d, s)
      BY <2>1 DEF FoundHolds
    <2>4. x.furthest = furthest(recording[r].found, e.stage)
      BY <1>2, MergeIsRow
    <2>5. x0 \in Row
      BY <1>2, <2>3
    <2>6. x.furthest = furthest({x0}, e.stage)
      BY <2>3, <2>4
    <2> QED BY <2>2, <2>3, <2>5, <2>6 DEF Pair
  <1> HIDE DEF x, h, i, d, s
  <1>10. DOMAIN rows' = DOMAIN rows /\ \A j \in DOMAIN rows : rows'[j] = IF j = i THEN {x} ELSE rows[j]
    BY <1>1, <1>8
  <1>11. \A q \in Recorder : recording'[q] = IF q = r THEN h ELSE recording[q]
    BY <1>1, <1>8
  <1>12. DriveTypeOK'
    <2>1. {x} \in SUBSET Row
      BY <1>4
    <2>2. rows' \in Seq(SUBSET Row)
      <3>1. Len(rows) \in Nat /\ DOMAIN rows = 1 .. Len(rows)
        BY <1>1
      <3>2. \A j \in 1 .. Len(rows) : rows[j] \in SUBSET Row
        BY <1>1, ElementOfSeq
      <3>3. rows' = [j \in 1 .. Len(rows) |-> rows'[j]]
        BY <1>8, <3>1
      <3>4. \A j \in 1 .. Len(rows) : rows'[j] \in SUBSET Row
        BY <1>10, <2>1, <3>1, <3>2
      <3>5. rows' \in [1 .. Len(rows) -> SUBSET Row]
        BY <3>3, <3>4
      <3> QED BY <3>1, <3>5, RowsTyped
    <2> QED BY <1>5, <1>7, <1>8, <2>2 DEF DriveInv, DriveTypeOK
  <1>13. \A q \in Recorder : \A f \in recording'[q].next :
            recording'[q].drive \in Drive /\ \A g \in recording'[q].next : g = f
    BY <1>5, <1>11 DEF DriveInv
  <1>14. \A j \in DOMAIN rows' : \A y, z \in rows'[j] : y = z
    BY <1>10 DEF DriveInv
  <1>15. \A q \in Recorder : recording'[q].at # 0 => recording'[q].at \in DOMAIN rows'
    BY <1>5, <1>10, <1>11 DEF DriveInv
  <1>16. ASSUME tidy
         PROVE  RowsApart' /\ RowsReached' /\ (\A q \in Recorder : FoundHolds(recording[q])') /\ PairsApart'
    <2>1. PICK x0 \in Row : /\ rows[i] = {x0} /\ x0.drive = d /\ x0.student = s
                            /\ x.furthest = furthest({x0}, e.stage)
      BY <1>9, <1>16
    <2>2. RowsApart /\ RowsReached /\ PairsApart
      BY <1>16 DEF DriveInv
    <2>3. \A d0, s0 : rowsOf(d0, s0)' = rowsOf(d0, s0)
      <3> SUFFICES ASSUME NEW d0, NEW s0, NEW j \in DOMAIN rows
                   PROVE  (\E y \in rows'[j] : Pair(y, d0, s0)) <=> (\E y \in rows[j] : Pair(y, d0, s0))
        BY <1>10 DEF rowsOf
      <3> QED BY <1>4, <1>10, <2>1 DEF Pair
    <2>4. RowsApart'
      <3> SUFFICES ASSUME NEW j \in DOMAIN rows, NEW k \in DOMAIN rows, NEW y \in rows'[j], NEW z \in rows'[k],
                          y.drive = z.drive, y.student = z.student
                   PROVE  j = k /\ y = z
        BY <1>10 DEF RowsApart
      <3>1. \E y0 \in rows[j] : y0.drive = y.drive /\ y0.student = y.student
        BY <1>4, <1>10, <2>1
      <3>2. \E z0 \in rows[k] : z0.drive = z.drive /\ z0.student = z.student
        BY <1>4, <1>10, <2>1
      <3>3. j = k
        BY <2>2, <3>1, <3>2 DEF RowsApart
      <3> QED BY <1>10, <1>14, <3>3
    <2>5. depth(x.furthest) = reached'[d][s]
      <3>1. depth(x0.furthest) = reached[d][s]
        BY <1>2, <2>1, <2>2 DEF RowsReached
      <3>2. depth(x.furthest) = IF depth(e.stage) > depth(x0.furthest) THEN depth(e.stage) ELSE depth(x0.furthest)
        BY <1>3, <2>1, FurthestAfter
      <3> QED BY <1>2, <1>3, <1>6, <3>1, <3>2
    <2>6. ASSUME NEW j \in DOMAIN rows', NEW y \in rows'[j]
          PROVE  depth(y.furthest) = reached'[y.drive][y.student]
      <3>1. CASE j = i
        BY <1>2, <1>4, <1>10, <2>5, <3>1
      <3>2. CASE j # i
        <4>1. j \in DOMAIN rows /\ y \in rows[j]
          BY <1>10, <3>2
        <4>2. ~(y.drive = d /\ y.student = s)
          BY <1>2, <2>1, <2>2, <3>2, <4>1 DEF RowsApart
        <4>3. y \in Row
          BY <1>1, <4>1, ElementOfSeq
        <4>4. y.drive \in Drive /\ y.student \in Student
          BY <4>3 DEF Row
        <4> QED BY <1>6, <2>2, <4>1, <4>2, <4>4 DEF RowsReached
      <3> QED BY <3>1, <3>2
    <2>7. ASSUME NEW d0 \in Drive, NEW s0 \in Student, reached'[d0][s0] # 0
          PROVE  rowsOf(d0, s0)' # {}
      <3>1. CASE d0 = d /\ s0 = s
        <4>1. i \in rowsOf(d, s)
          BY <1>2, <2>1 DEF rowsOf, Pair
        <4> QED BY <2>3, <3>1, <4>1
      <3>2. CASE ~(d0 = d /\ s0 = s)
        BY <1>6, <2>2, <2>3, <2>7, <3>2 DEF RowsReached
      <3> QED BY <3>1, <3>2
    <2>8. ASSUME NEW q \in Recorder PROVE FoundHolds(recording[q])'
      <3>1. CASE q = r
        BY <1>5, <1>11, <3>1 DEF FoundHolds
      <3>2. CASE q # r
        <4>1. FoundHolds(recording[q])
          BY <1>16 DEF DriveInv
        <4>2. ASSUME NEW f \in recording[q].next, recording[q].at = i PROVE FALSE
          <5>1. rows[i] = recording[q].found /\ \E z \in recording[q].found : Pair(z, recording[q].drive, f.student)
            BY <2>1, <4>1, <4>2 DEF FoundHolds, i
          <5>2. recording[q].drive = d /\ f.student = s
            BY <2>1, <5>1 DEF Pair
          <5> QED BY <2>2, <3>2, <5>2 DEF PairsApart, d, s
        <4> QED BY <1>10, <1>11, <2>3, <3>2, <4>1, <4>2 DEF FoundHolds
      <3> QED BY <3>1, <3>2
    <2>9. PairsApart'
      BY <1>5, <1>11, <2>2 DEF PairsApart
    <2>10. RowsReached'
      BY <2>6, <2>7 DEF RowsReached
    <2> QED BY <2>4, <2>8, <2>9, <2>10
  <1> QED BY <1>12, <1>13, <1>14, <1>15, <1>16 DEF DriveInv

LEMMA CreateKeepsInv ==
    ASSUME DriveInv, NEW r \in Recorder, NEW e \in recording[r].next,
           recording[r].at = 0,
           rows' = Append(rows, {mergeOutcome({}, recording[r].drive, e)}),
           reached' = Deeper(recording[r].drive, e),
           recording' = [recording EXCEPT ![r] = Holding(recording[r].drive)],
           UNCHANGED <<stored, deleted, removing, tidy>>
    PROVE  DriveInv'
  <1> DEFINE d == recording[r].drive
             n == Len(rows) + 1
             s == e.student
             x == mergeOutcome({}, d, e)
             h == Holding(d)
  <1>1. /\ rows \in Seq(SUBSET Row) /\ reached \in [Drive -> [Student -> Nat]]
        /\ recording \in [Recorder -> Hand]
    BY DEF DriveInv, DriveTypeOK
  <1>2. e \in Entry /\ d \in Drive
    <2>1. recording[r] \in Hand
      BY <1>1
    <2> QED BY <2>1 DEF DriveInv, Hand
  <1>3. s \in Student /\ e.stage \in Stage
    BY <1>2 DEF Entry
  <1>4. x \in Row /\ x.drive = d /\ x.student = s /\ x.furthest = e.stage
    <2>1. x \in Row /\ x.drive = d /\ x.student = s /\ x.furthest = furthest({}, e.stage)
      BY <1>2, MergeIsRow
    <2>2. furthest({}, e.stage) = e.stage
      BY DEF furthest
    <2> QED BY <2>1, <2>2
  <1>5. h \in Hand /\ h.next = {} /\ h.at = 0
    BY <1>2, HoldingIsHand
  <1>6. \A d0 \in Drive, s0 \in Student :
           reached'[d0][s0] =
              IF d0 = d /\ s0 = s
              THEN IF depth(e.stage) > reached[d][s] THEN depth(e.stage) ELSE reached[d][s]
              ELSE reached[d0][s0]
    BY <1>1, <1>2, DeeperIs
  <1>7. reached' \in [Drive -> [Student -> Nat]]
    BY <1>1, <1>2, DeeperIs
  <1>8. /\ rows' = Append(rows, {x}) /\ recording' = [recording EXCEPT ![r] = h]
    OBVIOUS
  <1> HIDE DEF x, h, d, s
  <1>9. {x} \in SUBSET Row
    BY <1>4
  <1>10. /\ rows' \in Seq(SUBSET Row) /\ DOMAIN rows' = DOMAIN rows \cup {n} /\ n \notin DOMAIN rows
         /\ n # 0 /\ rows'[n] = {x} /\ \A j \in DOMAIN rows : rows'[j] = rows[j]
    <2>1. Len(rows) \in Nat /\ DOMAIN rows = 1 .. Len(rows)
      BY <1>1
    <2>2. rows' \in Seq(SUBSET Row) /\ Len(rows') = n /\ rows'[n] = {x}
          /\ \A j \in 1 .. Len(rows) : rows'[j] = rows[j]
      BY <1>1, <1>8, <1>9, RowAppended DEF n
    <2>3. DOMAIN rows' = 1 .. n
      BY <2>2
    <2> QED BY <2>1, <2>2, <2>3
  <1> HIDE DEF n
  <1>11. \A q \in Recorder : recording'[q] = IF q = r THEN h ELSE recording[q]
    BY <1>1, <1>8
  <1>12. DriveTypeOK'
    BY <1>5, <1>7, <1>8, <1>10 DEF DriveInv, DriveTypeOK
  <1>13. \A q \in Recorder : \A f \in recording'[q].next :
            recording'[q].drive \in Drive /\ \A g \in recording'[q].next : g = f
    BY <1>5, <1>11 DEF DriveInv
  <1>14. \A j \in DOMAIN rows' : \A y, z \in rows'[j] : y = z
    BY <1>10 DEF DriveInv
  <1>15. \A q \in Recorder : recording'[q].at # 0 => recording'[q].at \in DOMAIN rows'
    BY <1>5, <1>10, <1>11 DEF DriveInv
  <1>16. ASSUME tidy
         PROVE  RowsApart' /\ RowsReached' /\ (\A q \in Recorder : FoundHolds(recording[q])') /\ PairsApart'
    <2>1. RowsApart /\ RowsReached /\ PairsApart
      BY <1>16 DEF DriveInv
    <2>2. rowsOf(d, s) = {}
      <3>1. FoundHolds(recording[r])
        BY <1>16 DEF DriveInv
      <3>2. rowsOf(d, s) \subseteq {0}
        BY <3>1 DEF FoundHolds, d, s
      <3>3. 0 \notin DOMAIN rows
        BY <1>1
      <3> QED BY <3>2, <3>3 DEF rowsOf
    <2>3. \A j \in DOMAIN rows : \A y \in rows[j] : ~(y.drive = d /\ y.student = s)
      BY <2>2 DEF rowsOf, Pair
    <2>4. \A d0, s0 : rowsOf(d0, s0)' = rowsOf(d0, s0) \cup IF d0 = d /\ s0 = s THEN {n} ELSE {}
      <3> TAKE d0, s0
      <3>1. \A j \in DOMAIN rows : (\E y \in rows'[j] : Pair(y, d0, s0)) <=> (\E y \in rows[j] : Pair(y, d0, s0))
        BY <1>10
      <3>2. (\E y \in rows'[n] : Pair(y, d0, s0)) <=> (d0 = d /\ s0 = s)
        BY <1>4, <1>10 DEF Pair
      <3>3. CASE d0 = d /\ s0 = s
        BY <1>10, <3>1, <3>2, <3>3 DEF rowsOf
      <3>4. CASE ~(d0 = d /\ s0 = s)
        BY <1>10, <3>1, <3>2, <3>4 DEF rowsOf
      <3> QED BY <3>3, <3>4
    <2>5. RowsApart'
      <3> SUFFICES ASSUME NEW j \in DOMAIN rows', NEW k \in DOMAIN rows', NEW y \in rows'[j], NEW z \in rows'[k],
                          y.drive = z.drive, y.student = z.student
                   PROVE  j = k /\ y = z
        BY DEF RowsApart
      <3>1. CASE j # n /\ k # n
        BY <1>10, <2>1, <3>1 DEF RowsApart
      <3>2. CASE j = n /\ k = n
        BY <1>10, <3>2
      <3>3. CASE j = n /\ k # n
        BY <1>4, <1>10, <2>3, <3>3
      <3>4. CASE j # n /\ k = n
        BY <1>4, <1>10, <2>3, <3>4
      <3> QED BY <3>1, <3>2, <3>3, <3>4
    <2>6. depth(x.furthest) = reached'[d][s]
      <3>1. reached[d][s] = 0
        BY <1>2, <1>3, <2>1, <2>2 DEF RowsReached
      <3>2. depth(e.stage) \in Nat
        BY <1>3, DepthIsNat
      <3> QED BY <1>2, <1>3, <1>4, <1>6, <3>1, <3>2
    <2>7. ASSUME NEW j \in DOMAIN rows', NEW y \in rows'[j]
          PROVE  depth(y.furthest) = reached'[y.drive][y.student]
      <3>1. CASE j = n
        BY <1>4, <1>10, <2>6, <3>1
      <3>2. CASE j # n
        <4>1. j \in DOMAIN rows /\ y \in rows[j]
          BY <1>10, <3>2
        <4>2. ~(y.drive = d /\ y.student = s)
          BY <2>3, <4>1
        <4>3. y \in Row
          BY <1>1, <4>1, ElementOfSeq
        <4>4. y.drive \in Drive /\ y.student \in Student
          BY <4>3 DEF Row
        <4> QED BY <1>6, <2>1, <4>1, <4>2, <4>4 DEF RowsReached
      <3> QED BY <3>1, <3>2
    <2>8. ASSUME NEW d0 \in Drive, NEW s0 \in Student, reached'[d0][s0] # 0
          PROVE  rowsOf(d0, s0)' # {}
      <3>1. CASE d0 = d /\ s0 = s
        BY <2>4, <3>1
      <3>2. CASE ~(d0 = d /\ s0 = s)
        BY <1>6, <2>1, <2>4, <2>8, <3>2 DEF RowsReached
      <3> QED BY <3>1, <3>2
    <2>9. ASSUME NEW q \in Recorder PROVE FoundHolds(recording[q])'
      <3>1. CASE q = r
        BY <1>5, <1>11, <3>1 DEF FoundHolds
      <3>2. CASE q # r
        <4>1. FoundHolds(recording[q])
          BY <1>16 DEF DriveInv
        <4>2. \A f \in recording[q].next : ~(recording[q].drive = d /\ f.student = s)
          BY <2>1, <3>2 DEF PairsApart, d, s
        <4>3. \A f \in recording[q].next : rowsOf(recording[q].drive, f.student)' = rowsOf(recording[q].drive, f.student)
          BY <1>11, <2>4, <3>2, <4>2
        <4>4. recording'[q] = recording[q]
          BY <1>11, <3>2
        <4>5. ASSUME NEW f \in recording[q].next, recording[q].at # 0
              PROVE  /\ recording[q].at \in DOMAIN rows'
                     /\ rows'[recording[q].at] \in {{}, recording[q].found}
          BY <1>10, <4>1, <4>5 DEF FoundHolds
        <4>6. ASSUME NEW f \in recording[q].next
              PROVE  /\ recording[q].drive \in Drive
                     /\ \A g \in recording[q].next : g = f
                     /\ rowsOf(recording[q].drive, f.student)' \subseteq {recording[q].at}
                     /\ recording[q].at = 0 => recording[q].found = {}
                     /\ recording[q].at # 0 =>
                           \E y \in recording[q].found :
                              recording[q].found = {y} /\ Pair(y, recording[q].drive, f.student)
          BY <4>1, <4>3 DEF FoundHolds
        <4> QED BY <4>4, <4>5, <4>6 DEF FoundHolds
      <3> QED BY <3>1, <3>2
    <2>10. PairsApart'
      BY <1>5, <1>11, <2>1 DEF PairsApart
    <2>11. RowsReached'
      BY <2>7, <2>8 DEF RowsReached
    <2> QED BY <2>5, <2>9, <2>10, <2>11
  <1> QED BY <1>12, <1>13, <1>14, <1>15, <1>16 DEF DriveInv

-----------------------------------------------------------------------------
LEMMA DriveInvInit == DriveInit => DriveInv
  <1> SUFFICES ASSUME DriveInit PROVE DriveInv
    OBVIOUS
  <1>1. Nothing \in Hand /\ Nothing.next = {} /\ Nothing.at = 0
    BY HoldingIsHand DEF Nothing
  <1>2. \A r \in Recorder : recording[r] = Nothing
    BY DEF DriveInit
  <1>3. DriveTypeOK
    <2>1. recording \in [Recorder -> Hand]
      BY <1>1 DEF DriveInit
    <2>2. rows \in Seq(SUBSET Row)
      BY DEF DriveInit
    <2>3. reached \in [Drive -> [Student -> Nat]]
      BY DEF DriveInit
    <2> QED BY <2>1, <2>2, <2>3 DEF DriveInit, DriveTypeOK
  <1>4. DOMAIN rows = {}
    BY DEF DriveInit
  <1>5. RowsApart /\ RowsReached
    BY <1>4 DEF RowsApart, RowsReached, DriveInit
  <1>6. \A r \in Recorder : FoundHolds(recording[r])
    BY <1>1, <1>2 DEF FoundHolds
  <1>7. PairsApart
    BY <1>1, <1>2 DEF PairsApart
  <1> QED BY <1>1, <1>2, <1>3, <1>4, <1>5, <1>6, <1>7 DEF DriveInv

LEMMA DriveInvStep == DriveInv /\ [DriveNext]_driveVars => DriveInv'
  <1> SUFFICES ASSUME DriveInv, [DriveNext]_driveVars PROVE DriveInv'
    OBVIOUS
  <1>1. /\ stored \subseteq Drive /\ deleted \subseteq Drive
        /\ removing \in [Remover -> Drive \cup {NoDrive}]
        /\ reached \in [Drive -> [Student -> Nat]]
        /\ recording \in [Recorder -> Hand]
        /\ rows = [i \in DOMAIN rows |-> rows[i]]
        /\ tidy => RowsReached
    BY DEF DriveInv, DriveTypeOK
  <1>2. ASSUME NEW d \in Drive, createPlacementDrive(d) PROVE DriveInv'
    <2>1. /\ stored' \subseteq Drive /\ deleted' \subseteq Drive
          /\ UNCHANGED <<rows, recording, removing, reached, tidy>>
      BY <1>1, <1>2 DEF createPlacementDrive
    <2>2. tidy => RowsReached'
      BY <1>1, <2>1 DEF RowsReached, rowsOf
    <2> QED BY <1>1, <2>1, <2>2, RowsRemoved
  <1>3. ASSUME NEW r \in Recorder, NEW d \in Drive, beginOutcomes(r, d) PROVE DriveInv'
    BY <1>1, <1>3, LetGo DEF beginOutcomes
  <1>4. ASSUME NEW r \in Recorder, NEW s \in Student, NEW stage \in Stage, findOutcome(r, s, stage)
        PROVE  DriveInv'
    BY <1>4, FindKeepsInv
  <1>5. ASSUME NEW r \in Recorder, putOutcome(r) PROVE DriveInv'
    <2>1. PICK e \in recording[r].next :
            \/ /\ recording[r].at # 0 /\ rows[recording[r].at] # {}
               /\ rows' = [rows EXCEPT ![recording[r].at] =
                              {mergeOutcome(recording[r].found, recording[r].drive, e)}]
               /\ reached' = Deeper(recording[r].drive, e)
               /\ recording' = [recording EXCEPT ![r] = Holding(recording[r].drive)]
               /\ UNCHANGED <<stored, deleted, removing, tidy>>
            \/ /\ recording' = [recording EXCEPT ![r] = Nothing]
               /\ UNCHANGED <<stored, deleted, rows, removing, reached, tidy>>
            \/ /\ recording[r].at = 0
               /\ rows' = Append(rows, {mergeOutcome({}, recording[r].drive, e)})
               /\ reached' = Deeper(recording[r].drive, e)
               /\ recording' = [recording EXCEPT ![r] = Holding(recording[r].drive)]
               /\ UNCHANGED <<stored, deleted, removing, tidy>>
      BY <1>5, Zenon DEF putOutcome
    <2>2. CASE /\ recording' = [recording EXCEPT ![r] = Nothing]
               /\ UNCHANGED <<stored, deleted, rows, removing, reached, tidy>>
      BY <1>1, <2>2, LetGo DEF Nothing
    <2> QED BY <2>1, <2>2, SaveKeepsInv, CreateKeepsInv
  <1>6. ASSUME NEW r \in Recorder, endOutcomes(r) PROVE DriveInv'
    BY <1>1, <1>6, LetGo DEF endOutcomes, Nothing
  <1>7. ASSUME NEW d \in Drive, NEW s \in Student, removePlacementOutcome(d, s) PROVE DriveInv'
    BY <1>7, RemoveKeepsInv
  <1>8. ASSUME NEW m \in Remover, NEW d \in Drive, deletePlacementDrive(m, d) PROVE DriveInv'
    <2>1. /\ stored' \subseteq Drive /\ deleted' \subseteq Drive
          /\ removing' \in [Remover -> Drive \cup {NoDrive}]
          /\ UNCHANGED <<rows, recording, reached, tidy>>
      BY <1>1, <1>8 DEF deletePlacementDrive
    <2>2. tidy => RowsReached'
      BY <1>1, <2>1 DEF RowsReached, rowsOf
    <2> QED BY <1>1, <2>1, <2>2, RowsRemoved
  <1>9. ASSUME NEW m \in Remover, deleteOutcomes(m) PROVE DriveInv'
    BY <1>9, DeleteKeepsInv
  <1>10. ASSUME NEW m \in Remover, dieRemoving(m) PROVE DriveInv'
    <2>1. /\ removing' \in [Remover -> Drive \cup {NoDrive}]
          /\ UNCHANGED <<stored, deleted, rows, recording, reached, tidy>>
      BY <1>1, <1>10 DEF dieRemoving
    <2>2. tidy => RowsReached'
      BY <1>1, <2>1 DEF RowsReached, rowsOf
    <2> QED BY <1>1, <2>1, <2>2, RowsRemoved
  <1>11. CASE UNCHANGED driveVars
    <2>1. UNCHANGED <<stored, deleted, rows, recording, removing, reached, tidy>>
      BY <1>11 DEF driveVars
    <2>2. tidy => RowsReached'
      BY <1>1, <2>1 DEF RowsReached, rowsOf
    <2> QED BY <1>1, <2>1, <2>2, RowsRemoved
  <1> QED BY <1>2, <1>3, <1>4, <1>5, <1>6, <1>7, <1>8, <1>9, <1>10, <1>11, Zenon DEF DriveNext

\* The rows of a drive and what every recorder found of them, in every behaviour.
THEOREM FoundIsCurrent == DriveSpec => []DriveInv
  <1> QED BY DriveInvInit, DriveInvStep, PTL DEF DriveSpec

\* While no two requests have the same pair in hand, the funnel counts a student at
\* most once, at the deepest stage recorded since the pair was removed: no removal or
\* deletion between the find and the save of an outcome loses ground.
THEOREM FunnelsKeepGround == DriveSpec => []FunnelKeepsGround
  <1>1. ASSUME DriveInv PROVE FunnelKeepsGround
    <2> SUFFICES ASSUME tidy, NEW d \in Drive, NEW s \in Student
                 PROVE  /\ Cardinality(rowsOf(d, s)) =< 1
                        /\ \A i \in rowsOf(d, s) : \A row \in rows[i] :
                              depth(row.furthest) = reached[d][s]
      BY DEF FunnelKeepsGround
    <2>1. RowsApart /\ RowsReached /\ \A i \in DOMAIN rows : \A x, y \in rows[i] : x = y
      BY <1>1 DEF DriveInv
    <2>2. \A i, j \in rowsOf(d, s) : i = j
      BY <2>1 DEF rowsOf, Pair, RowsApart
    <2>3. Cardinality(rowsOf(d, s)) =< 1
      <3>1. CASE rowsOf(d, s) = {}
        BY <3>1, FS_EmptySet
      <3>2. CASE rowsOf(d, s) # {}
        <4>1. PICK i : rowsOf(d, s) = {i}
          BY <2>2, <3>2
        <4> QED BY <4>1, FS_Singleton
      <3> QED BY <3>1, <3>2
    <2>4. ASSUME NEW i \in rowsOf(d, s), NEW row \in rows[i] PROVE depth(row.furthest) = reached[d][s]
      BY <2>1 DEF rowsOf, Pair, RowsReached
    <2> QED BY <2>3, <2>4
  <1> QED BY <1>1, FoundIsCurrent, PTL

-----------------------------------------------------------------------------
(* Accounts *)

\* A schedule that stands is the window last promised; a sign-in that was not begun
\* before the last request knows of a schedule that stands; what a sweep has picked
\* stays lapsed if nobody uses it; and a sweep that has come to a collection has
\* emptied those before it, of an account nobody uses meanwhile.
ScheduleIsPromise ==
    \A a \in Account : user[a].graceLeft # Never => window[a] = user[a].graceLeft
ReadsKnowSchedule ==
    \A l \in Login \ early : \A r \in signing[l] :
        r.doc.graceLeft = Never => user[r.of].graceLeft = Never
PickedStayLapsed == quiet => \A a \in Account : Purging(a) => window[a] = 0
Emptied ==
    \A s \in Sweep :
        sweep[s].of # NoAccount =>
          /\ sweep[s].at \in 1 .. Collections + 1
          /\ quiet => \A c \in data[sweep[s].of] : c >= sweep[s].at
AcctInv == /\ AcctTypeOK /\ ScheduleIsPromise /\ ReadsKnowSchedule /\ PickedStayLapsed
           /\ PurgeIsComplete /\ Emptied

LEMMA AcctInitInv == AcctInit => AcctInv
  BY AccountAssumption
  DEF AcctInit, AcctInv, AcctTypeOK, ScheduleIsPromise, ReadsKnowSchedule, PickedStayLapsed,
      PurgeIsComplete, Emptied, Unborn, Asleep, UserDoc, SweepState, Purging, expired, There, Never, Collection

LEMMA DayLessType ==
    ASSUME NEW doc \in UserDoc
    PROVE  /\ DayLess(doc) \in UserDoc
           /\ DayLess(doc).there = doc.there
           /\ DayLess(doc).graceLeft = Never <=> doc.graceLeft = Never
  BY AccountAssumption DEF DayLess, UserDoc, Never

LEMMA SignedInType ==
    ASSUME NEW now \in UserDoc, NEW read \in UserDoc
    PROVE  /\ signedIn(now, read) \in UserDoc
           /\ signedIn(now, read).there = now.there
           /\ signedIn(now, read).graceLeft \in {now.graceLeft, Never}
           /\ read.graceLeft # Never => signedIn(now, read).graceLeft = Never
  BY AccountAssumption DEF signedIn, UserDoc, Never

LEMMA UpsertReadInv == ASSUME AcctInv, NEW l \in Login, NEW a \in Account, upsertRead(l, a)
                       PROVE  AcctInv'
  <1>1. AcctTypeOK' BY DEF AcctInv, AcctTypeOK, upsertRead, promiseVars
  <1>2. ReadsKnowSchedule'
    BY DEF AcctInv, AcctTypeOK, ReadsKnowSchedule, upsertRead, promiseVars
  <1> QED BY <1>1, <1>2 DEF AcctInv, upsertRead, promiseVars, ScheduleIsPromise, PickedStayLapsed,
                            PurgeIsComplete, Emptied, Purging

LEMMA UpsertPutInv ==
    ASSUME AcctInv, NEW l \in Login, upsertPut(l)
    PROVE  AcctInv'
  <1>1. PICK r \in signing[l] :
           /\ quiet => ~Purging(r.of)
           /\ IF There(r.of)
              THEN /\ user' = [user EXCEPT ![r.of] = signedIn(@, r.doc)]
                   /\ window' = IF l \in early THEN window
                                ELSE [window EXCEPT ![r.of] = Never]
              ELSE UNCHANGED <<user, window>>
    BY DEF upsertPut
  <1>2. /\ UNCHANGED <<data, sweep, quiet>>
        /\ signing' = [signing EXCEPT ![l] = {}]
        /\ early' = early \ {l}
    BY DEF upsertPut
  <1>3. r.of \in Account /\ r.doc \in UserDoc /\ user[r.of] \in UserDoc
    BY DEF AcctInv, AcctTypeOK
  <1>4. /\ signing'[l] = {}
        /\ \A k \in Login : k # l => signing'[k] = signing[k]
    BY <1>2 DEF AcctInv, AcctTypeOK
  <1>5. CASE ~There(r.of)
    <2>1. UNCHANGED <<user, window>>
      BY <1>1, <1>5
    <2>2. AcctTypeOK'
      BY <1>2, <2>1 DEF AcctInv, AcctTypeOK
    <2>3. ReadsKnowSchedule'
      BY <1>2, <1>4, <2>1 DEF AcctInv, ReadsKnowSchedule
    <2> QED BY <1>2, <2>1, <2>2, <2>3
            DEF AcctInv, ScheduleIsPromise, PickedStayLapsed, PurgeIsComplete, Emptied, Purging
  <1>6. CASE There(r.of)
    <2>1. /\ user' = [user EXCEPT ![r.of] = signedIn(user[r.of], r.doc)]
          /\ window' = IF l \in early THEN window ELSE [window EXCEPT ![r.of] = Never]
      BY <1>1, <1>6
    <2>2. /\ signedIn(user[r.of], r.doc) \in UserDoc
          /\ signedIn(user[r.of], r.doc).there = user[r.of].there
          /\ signedIn(user[r.of], r.doc).graceLeft \in {user[r.of].graceLeft, Never}
          /\ r.doc.graceLeft # Never => signedIn(user[r.of], r.doc).graceLeft = Never
      BY <1>3, SignedInType
    <2>3. AcctTypeOK'
      BY <1>2, <1>3, <2>1, <2>2, AccountAssumption DEF AcctInv, AcctTypeOK, Never
    <2>4. \A a \in Account :
             /\ user'[a].there = user[a].there
             /\ user'[a].graceLeft \in {user[a].graceLeft, Never}
             /\ a # r.of => window'[a] = window[a]
      BY <2>1, <2>2 DEF AcctInv, AcctTypeOK
    <2>5. l \notin early => user'[r.of].graceLeft = Never
      <3>1. user'[r.of] = signedIn(user[r.of], r.doc)
        BY <1>3, <2>1 DEF AcctInv, AcctTypeOK
      <3>2. l \notin early /\ r.doc.graceLeft = Never => user[r.of].graceLeft = Never
        BY DEF AcctInv, ReadsKnowSchedule
      <3> QED BY <2>2, <3>1, <3>2
    <2>6. l \in early => window' = window
      BY <2>1
    <2>7. ScheduleIsPromise'
      BY <2>4, <2>5, <2>6 DEF AcctInv, ScheduleIsPromise
    <2>8. ReadsKnowSchedule'
      BY <1>2, <1>4, <2>4 DEF AcctInv, AcctTypeOK, ReadsKnowSchedule
    <2>9. PickedStayLapsed'
      BY <1>1, <1>2, <2>4 DEF AcctInv, PickedStayLapsed, Purging
    <2>10. PurgeIsComplete' /\ Emptied'
      BY <1>2, <2>4 DEF AcctInv, PurgeIsComplete, Emptied
    <2> QED BY <2>3, <2>7, <2>8, <2>9, <2>10 DEF AcctInv
  <1> QED BY <1>5, <1>6

LEMMA UserStepInv ==
    ASSUME AcctInv, NEW a \in Account,
           create(a) \/ \E c \in Collection : store(a, c)
    PROVE  AcctInv'
  <1>1. CASE create(a)
    <2>1. AcctTypeOK'
      BY <1>1 DEF create, AcctInv, AcctTypeOK, UserDoc, promiseVars
    <2>2. /\ \A b \in Account : /\ user'[b].graceLeft = user[b].graceLeft
                                /\ user'[b].there = "gone" => user[b].there = "gone"
          /\ UNCHANGED <<data, signing, sweep, window, early, quiet>>
      BY <1>1 DEF create, AcctInv, AcctTypeOK, UserDoc, promiseVars
    <2>3. ReadsKnowSchedule'
      BY <2>2 DEF AcctInv, AcctTypeOK, ReadsKnowSchedule
    <2> QED
      BY <2>1, <2>2, <2>3 DEF AcctInv, ScheduleIsPromise, PickedStayLapsed, PurgeIsComplete,
                              Emptied, Purging
  <1>2. ASSUME NEW c \in Collection, store(a, c) PROVE AcctInv'
    <2>1. AcctTypeOK'
      BY <1>2 DEF store, AcctInv, AcctTypeOK, promiseVars
    <2>2. /\ quiet => There(a) /\ ~Purging(a)
          /\ data' = [data EXCEPT ![a] = @ \cup {c}]
          /\ UNCHANGED <<user, signing, sweep, window, early, quiet>>
      BY <1>2 DEF store, promiseVars
    <2>3. PurgeIsComplete'
      BY <2>2 DEF AcctInv, AcctTypeOK, PurgeIsComplete, There
    <2>4. Emptied'
      BY <2>2 DEF AcctInv, AcctTypeOK, Emptied, Purging
    <2> QED
      BY <2>1, <2>2, <2>3, <2>4
      DEF AcctInv, ScheduleIsPromise, ReadsKnowSchedule, PickedStayLapsed, Purging
  <1> QED BY <1>1, <1>2

LEMMA SoftDeleteInv ==
    ASSUME AcctInv, NEW a \in Account, NEW s \in Sweep, softDelete(a, s)
    PROVE  AcctInv'
  <1>1. AcctTypeOK'
    <2>1. sweep' \in [Sweep -> SweepState]
      BY AccountAssumption DEF softDelete, AcctInv, AcctTypeOK, SweepState, Asleep
    <2>2. user' \in [Account -> UserDoc] /\ window' \in [Account -> 0 .. Never]
      <3>1. CASE There(a)
        <4>1. /\ user' = [user EXCEPT ![a].graceLeft = GRACE]
              /\ window' = [window EXCEPT ![a] = GRACE]
          BY <3>1 DEF softDelete
        <4>2. [user[a] EXCEPT !.graceLeft = GRACE] \in UserDoc /\ GRACE \in 0 .. Never
          BY AccountAssumption DEF AcctInv, AcctTypeOK, UserDoc, Never
        <4> QED BY <4>1, <4>2 DEF AcctInv, AcctTypeOK
      <3>2. CASE ~There(a)
        BY <3>2 DEF softDelete, AcctInv, AcctTypeOK, promiseVars
      <3> QED BY <3>1, <3>2
    <2>3. early' \subseteq Login
      BY DEF softDelete, AcctInv, AcctTypeOK, promiseVars
    <2> QED BY <2>1, <2>2, <2>3 DEF softDelete, AcctInv, AcctTypeOK
  <1>2. /\ sweep' = [sweep EXCEPT ![s].doing = "looking"]
        /\ sweep[s] = Asleep
        /\ quiet => ~Purging(a)
        /\ UNCHANGED <<data, signing, quiet>>
    BY DEF softDelete
  <1>3. \A b \in Account : user'[b].there = user[b].there /\ (b # a => window'[b] = window[b])
    BY DEF softDelete, AcctInv, AcctTypeOK, UserDoc, promiseVars
  <1>4. ScheduleIsPromise'
    BY DEF softDelete, AcctInv, AcctTypeOK, UserDoc, promiseVars, ScheduleIsPromise
  <1>5. ReadsKnowSchedule'
    <2>1. CASE There(a)
      <3>1. /\ \A b \in Account : b # a => user'[b] = user[b]
            /\ early' = early \cup {l \in Login : \E r \in signing[l] : r.of = a}
        BY <2>1 DEF softDelete, AcctInv, AcctTypeOK
      <3> QED BY <1>2, <3>1 DEF AcctInv, AcctTypeOK, ReadsKnowSchedule
    <2>2. CASE ~There(a)
      BY <2>2, <1>2 DEF softDelete, promiseVars, AcctInv, ReadsKnowSchedule
    <2> QED BY <2>1, <2>2
  <1>6. sweep'[s].of = NoAccount /\ sweep'[s].victims = {}
    BY <1>2 DEF AcctInv, AcctTypeOK, Asleep
  <1>7. \A t \in Sweep : t # s => sweep'[t] = sweep[t]
    BY <1>2 DEF AcctInv, AcctTypeOK
  <1>8. \A b \in Account : Purging(b)' => Purging(b)
    BY <1>6, <1>7, AccountAssumption DEF Purging
  <1>9. PickedStayLapsed'
    BY <1>2, <1>3, <1>8 DEF AcctInv, PickedStayLapsed
  <1>10. PurgeIsComplete' /\ Emptied'
    BY <1>2, <1>3, <1>6, <1>7 DEF AcctInv, PurgeIsComplete, Emptied
  <1> QED BY <1>1, <1>4, <1>5, <1>9, <1>10 DEF AcctInv

\* What a sweep would pick has lapsed.
LEMMA ExpiredPromise ==
    ASSUME ScheduleIsPromise, NEW a \in Account, expired(a)
    PROVE  window[a] = 0
  BY AccountAssumption DEF ScheduleIsPromise, expired, Never

LEMMA FindVictimsInv ==
    ASSUME AcctInv, NEW s \in Sweep, findVictims(s)
    PROVE  AcctInv'
  <1>1. PICK victims \in SUBSET {a \in Account : expired(a)} :
          sweep' = [sweep EXCEPT ![s] =
                      IF victims = {} THEN Asleep
                      ELSE [doing |-> "purging", victims |-> victims, of |-> NoAccount, at |-> 0]]
    BY DEF findVictims
  <1>3. UNCHANGED <<user, data, signing, window, early, quiet>>
    BY DEF findVictims, promiseVars
  <1>4. /\ sweep'[s] \in SweepState
        /\ sweep'[s].of = NoAccount
        /\ sweep'[s].victims \subseteq {a \in Account : expired(a)}
        /\ \A t \in Sweep : t # s => sweep'[t] = sweep[t]
    <2>1. /\ sweep'[s] = IF victims = {} THEN Asleep
                        ELSE [doing |-> "purging", victims |-> victims, of |-> NoAccount, at |-> 0]
          /\ \A t \in Sweep : t # s => sweep'[t] = sweep[t]
      BY <1>1 DEF AcctInv, AcctTypeOK
    <2>2. Asleep \in SweepState /\ Asleep.of = NoAccount /\ Asleep.victims = {}
      BY AccountAssumption DEF SweepState, Asleep
    <2>3. /\ [doing |-> "purging", victims |-> victims, of |-> NoAccount, at |-> 0] \in SweepState
          /\ victims \subseteq Account
      BY AccountAssumption DEF SweepState
    <2> QED BY <2>1, <2>2, <2>3
  <1>5. AcctTypeOK'
    BY <1>1, <1>3, <1>4 DEF AcctInv, AcctTypeOK
  <1>6. PickedStayLapsed'
    <2>1. \A a \in Account : Purging(a)' => Purging(a) \/ expired(a)
      BY <1>4, AccountAssumption DEF Purging
    <2>2. \A a \in Account : expired(a) => window[a] = 0
      BY ExpiredPromise DEF AcctInv
    <2> QED BY <1>3, <2>1, <2>2 DEF AcctInv, PickedStayLapsed
  <1>7. Emptied'
    BY <1>3, <1>4 DEF AcctInv, Emptied
  <1> QED BY <1>3, <1>5, <1>6, <1>7
          DEF AcctInv, PurgeIsComplete, ScheduleIsPromise, ReadsKnowSchedule

LEMMA NextVictimInv ==
    ASSUME AcctInv, NEW s \in Sweep, nextVictim(s)
    PROVE  AcctInv'
  <1>1. PICK a \in sweep[s].victims :
          sweep' = [sweep EXCEPT ![s].of = a, ![s].victims = @ \ {a}, ![s].at = 1]
    BY DEF nextVictim
  <1>2. sweep[s] \in SweepState
    BY DEF AcctInv, AcctTypeOK
  <1>3. UNCHANGED <<user, data, signing, window, early, quiet>>
    BY DEF nextVictim, promiseVars
  <1>4. /\ sweep'[s] \in SweepState
        /\ sweep'[s].of = a /\ sweep'[s].at = 1
        /\ sweep'[s].victims \subseteq sweep[s].victims
        /\ \A t \in Sweep : t # s => sweep'[t] = sweep[t]
    BY <1>1, <1>2, AccountAssumption DEF AcctInv, AcctTypeOK, SweepState
  <1>5. AcctTypeOK'
    BY <1>1, <1>3, <1>4 DEF AcctInv, AcctTypeOK
  <1>6. PickedStayLapsed'
    <2>1. \A b \in Account : Purging(b)' => Purging(b)
      BY <1>4 DEF Purging
    <2> QED BY <1>3, <2>1 DEF AcctInv, PickedStayLapsed
  <1>7. a \in Account
    BY <1>2 DEF SweepState
  <1>8. \A c \in data[a] : c >= 1
    BY <1>7 DEF AcctInv, AcctTypeOK, Collection
  <1>9. Emptied'
    BY <1>3, <1>4, <1>8, AccountAssumption DEF AcctInv, Emptied
  <1> QED BY <1>3, <1>5, <1>6, <1>9
          DEF AcctInv, PurgeIsComplete, ScheduleIsPromise, ReadsKnowSchedule

LEMMA PurgeCollectionInv ==
    ASSUME AcctInv, NEW s \in Sweep, NEW fails \in BOOLEAN, purgeCollection(s, fails)
    PROVE  AcctInv'
  <1> DEFINE a == sweep[s].of
             k == sweep[s].at
  <1>1. /\ a \in Account /\ a # NoAccount
        /\ k \in 1 .. Collections
        /\ sweep[s] \in SweepState
    BY DEF purgeCollection, AcctInv, AcctTypeOK, SweepState, Collection
  <1>2. /\ quiet => ~fails
        /\ data' = IF fails THEN data ELSE [data EXCEPT ![a] = @ \ {k}]
        /\ sweep' = [sweep EXCEPT ![s].at = k + 1]
        /\ UNCHANGED <<user, signing, window, early, quiet>>
    BY DEF purgeCollection, promiseVars
  <1> HIDE DEF a, k
  <1>3. /\ sweep'[s] = [sweep[s] EXCEPT !.at = k + 1]
        /\ \A t \in Sweep : t # s => sweep'[t] = sweep[t]
        /\ \A b \in Account : data'[b] \subseteq data[b]
    BY <1>1, <1>2 DEF AcctInv, AcctTypeOK
  <1>4. /\ sweep'[s] \in SweepState
        /\ sweep'[s].of = sweep[s].of /\ sweep'[s].victims = sweep[s].victims
        /\ sweep'[s].at = k + 1
    BY <1>1, <1>3, AccountAssumption DEF SweepState
  <1>5. AcctTypeOK'
    BY <1>1, <1>2, <1>4 DEF AcctInv, AcctTypeOK, Collection
  <1>6. PickedStayLapsed'
    <2>1. \A b \in Account : Purging(b)' => Purging(b)
      BY <1>3, <1>4 DEF Purging
    <2> QED BY <1>2, <2>1 DEF AcctInv, PickedStayLapsed
  <1>7. PurgeIsComplete'
    BY <1>2, <1>3 DEF AcctInv, PurgeIsComplete
  <1>8. Emptied'
    <2>1. ASSUME NEW t \in Sweep, sweep'[t].of # NoAccount, t # s
          PROVE  /\ sweep'[t].at \in 1 .. Collections + 1
                 /\ quiet' => \A c \in data'[sweep'[t].of] : c >= sweep'[t].at
      <3>1. sweep'[t] = sweep[t] /\ sweep[t].of \in Account
        BY <1>3, <2>1 DEF AcctInv, AcctTypeOK, SweepState
      <3> QED BY <1>2, <1>3, <2>1, <3>1 DEF AcctInv, Emptied
    <2>2. sweep'[s].at \in 1 .. Collections + 1
      BY <1>1, <1>4, AccountAssumption
    <2>3. ASSUME quiet, NEW c \in data'[a] PROVE c >= k + 1
      <3>1. c \in data[a] /\ c # k
        BY <1>1, <1>2, <2>3 DEF AcctInv, AcctTypeOK
      <3>2. c >= k /\ c \in 1 .. Collections
        BY <1>1, <2>3, <3>1 DEF AcctInv, AcctTypeOK, Emptied, Collection, a, k
      <3> QED BY <1>1, <3>1, <3>2, AccountAssumption
    <2> QED BY <1>2, <1>4, <2>1, <2>2, <2>3 DEF Emptied, a
  <1> QED BY <1>2, <1>5, <1>6, <1>7, <1>8 DEF AcctInv, ScheduleIsPromise, ReadsKnowSchedule

LEMMA PurgeUserInv ==
    ASSUME AcctInv, NEW s \in Sweep, purgeUser(s)
    PROVE  AcctInv'
  <1> DEFINE a == sweep[s].of
  <1>1. a \in Account /\ a # NoAccount /\ sweep[s].at = Collections + 1
    BY DEF purgeUser, cascaded, AcctInv, AcctTypeOK, SweepState
  <1>2. /\ user' = [user EXCEPT ![a].there = IF @ = "yes" THEN "gone" ELSE @]
        /\ sweep' = [sweep EXCEPT ![s] =
              IF @.victims = {} THEN Asleep
              ELSE [doing |-> "purging", victims |-> @.victims,
                    of |-> NoAccount, at |-> 0]]
        /\ UNCHANGED <<data, signing, window, early, quiet>>
    BY DEF purgeUser, promiseVars
  <1> HIDE DEF a
  <1>3. /\ sweep'[s] \in SweepState
        /\ sweep'[s].of = NoAccount
        /\ sweep'[s].victims \subseteq sweep[s].victims
        /\ \A t \in Sweep : t # s => sweep'[t] = sweep[t]
    <2>1. /\ sweep'[s] = IF sweep[s].victims = {} THEN Asleep
                         ELSE [doing |-> "purging", victims |-> sweep[s].victims,
                               of |-> NoAccount, at |-> 0]
          /\ \A t \in Sweep : t # s => sweep'[t] = sweep[t]
      BY <1>2 DEF AcctInv, AcctTypeOK
    <2>2. sweep[s] \in SweepState
      BY DEF AcctInv, AcctTypeOK
    <2>3. Asleep \in SweepState /\ Asleep.of = NoAccount /\ Asleep.victims = {}
      BY AccountAssumption DEF Asleep, SweepState
    <2>4. [doing |-> "purging", victims |-> sweep[s].victims,
              of |-> NoAccount, at |-> 0] \in SweepState
      BY <2>2, AccountAssumption DEF SweepState
    <2>5. CASE sweep[s].victims = {}
      BY <2>1, <2>3, <2>5
    <2>6. CASE sweep[s].victims # {}
      BY <2>1, <2>4, <2>6
    <2> QED BY <2>5, <2>6
  <1>4. /\ \A b \in Account : /\ user'[b].graceLeft = user[b].graceLeft
                              /\ b # a => user'[b].there = user[b].there
        /\ user' \in [Account -> UserDoc]
    BY <1>1, <1>2 DEF AcctInv, AcctTypeOK, UserDoc
  <1>5. AcctTypeOK'
    BY <1>2, <1>3, <1>4 DEF AcctInv, AcctTypeOK
  <1>6. \A b \in Account : Purging(b)' => Purging(b)
    BY <1>3, AccountAssumption DEF Purging
  <1>7. PickedStayLapsed'
    BY <1>2, <1>6 DEF AcctInv, PickedStayLapsed
  <1>8. ReadsKnowSchedule'
    BY <1>2, <1>4 DEF AcctInv, AcctTypeOK, ReadsKnowSchedule
  <1>9. quiet => data[a] = {}
    BY <1>1, AccountAssumption DEF AcctInv, AcctTypeOK, Emptied, Collection, a
  <1>10. PurgeIsComplete'
    BY <1>1, <1>2, <1>4, <1>9 DEF AcctInv, PurgeIsComplete
  <1>11. Emptied' /\ ScheduleIsPromise'
    BY <1>2, <1>3, <1>4 DEF AcctInv, Emptied, ScheduleIsPromise
  <1> QED BY <1>5, <1>7, <1>8, <1>10, <1>11 DEF AcctInv

LEMMA AbandonInv ==
    ASSUME AcctInv, NEW s \in Sweep, abandon(s)
    PROVE  AcctInv'
  <1>1. /\ sweep' = [sweep EXCEPT ![s] = Asleep]
        /\ UNCHANGED <<user, data, signing, window, early, quiet>>
    BY DEF abandon, promiseVars
  <1>2. Asleep \in SweepState /\ Asleep.of = NoAccount /\ Asleep.victims = {}
    BY AccountAssumption DEF Asleep, SweepState
  <1>3. /\ sweep'[s] = Asleep
        /\ \A t \in Sweep : t # s => sweep'[t] = sweep[t]
    BY <1>1 DEF AcctInv, AcctTypeOK
  <1>4. AcctTypeOK'
    BY <1>1, <1>2 DEF AcctInv, AcctTypeOK
  <1>5. \A b \in Account : Purging(b)' => Purging(b)
    BY <1>2, <1>3, AccountAssumption DEF Purging
  <1> QED BY <1>1, <1>2, <1>3, <1>4, <1>5
          DEF AcctInv, ScheduleIsPromise, ReadsKnowSchedule, PickedStayLapsed,
              PurgeIsComplete, Emptied

LEMMA DayInv ==
    ASSUME AcctInv, Day
    PROVE  AcctInv'
  <1>1. /\ \A a \in Account : user[a] \in UserDoc /\ window[a] \in 0 .. Never
        /\ \A l \in Login : \A r \in signing[l] : r \in [of : Account, doc : UserDoc]
    BY DEF AcctInv, AcctTypeOK
  <1>2. /\ user' = [a \in Account |-> DayLess(user[a])]
        /\ signing' = [l \in Login |-> {[r EXCEPT !.doc = DayLess(@)] : r \in signing[l]}]
        /\ window' = [a \in Account |-> IF There(a) /\ window[a] \in 1 .. GRACE
                                        THEN window[a] - 1 ELSE window[a]]
        /\ UNCHANGED <<data, sweep, early, quiet>>
    BY DEF Day
  <1>3. \A a \in Account : /\ user'[a] \in UserDoc
                           /\ user'[a].there = user[a].there
                           /\ user'[a].graceLeft = Never <=> user[a].graceLeft = Never
                           /\ window'[a] \in 0 .. Never
                           /\ window[a] = 0 => window'[a] = 0
    BY <1>1, <1>2, DayLessType, AccountAssumption DEF There, Never
  <1>4. \A l \in Login : \A r \in signing[l] :
           [r EXCEPT !.doc = DayLess(@)] \in [of : Account, doc : UserDoc]
    BY <1>1, DayLessType
  <1>5. AcctTypeOK'
    BY <1>2, <1>3, <1>4 DEF AcctInv, AcctTypeOK
  <1>6. PickedStayLapsed' /\ PurgeIsComplete' /\ Emptied'
    BY <1>2, <1>3 DEF AcctInv, PickedStayLapsed, PurgeIsComplete, Emptied, Purging
  <1>7. ScheduleIsPromise'
    <2>1. ASSUME NEW a \in Account, user'[a].graceLeft # Never
          PROVE  window'[a] = user'[a].graceLeft
      <3>1. window[a] = user[a].graceLeft
        BY <1>3, <2>1 DEF AcctInv, ScheduleIsPromise
      <3>2. CASE There(a) /\ window[a] \in 1 .. GRACE
        <4>1. DayLess(user[a]) = [user[a] EXCEPT !.graceLeft = user[a].graceLeft - 1]
          BY <3>1, <3>2 DEF DayLess, There
        <4> QED BY <1>1, <1>2, <3>1, <3>2, <4>1 DEF UserDoc
      <3>3. CASE ~(There(a) /\ window[a] \in 1 .. GRACE)
        BY <1>2, <3>1, <3>3 DEF DayLess, There
      <3> QED BY <3>2, <3>3
    <2> QED BY <2>1 DEF ScheduleIsPromise
  <1>8. ReadsKnowSchedule'
    <2>1. ASSUME NEW l \in Login \ early, NEW q \in signing'[l], q.doc.graceLeft = Never
          PROVE  user'[q.of].graceLeft = Never
      <3>1. PICK r \in signing[l] : q = [r EXCEPT !.doc = DayLess(r.doc)]
        BY <1>2
      <3>2. r \in [of : Account, doc : UserDoc] /\ q.of = r.of /\ q.doc = DayLess(r.doc)
        BY <1>1, <3>1
      <3>3. r.doc.graceLeft = Never
        BY <2>1, <3>2, DayLessType
      <3> QED BY <1>3, <3>2, <3>3 DEF AcctInv, ReadsKnowSchedule
    <2> QED BY <1>2, <2>1 DEF ReadsKnowSchedule
  <1> QED BY <1>5, <1>6, <1>7, <1>8 DEF AcctInv

-----------------------------------------------------------------------------
\* The invariant holds in every state of every behaviour.
LEMMA AcctInvariance == AcctSpec => []AcctInv
  <1>1. AcctInv /\ [AcctNext]_acctVars => AcctInv'
    <2> SUFFICES ASSUME AcctInv, [AcctNext]_acctVars PROVE AcctInv'
      OBVIOUS
    <2>1. CASE UNCHANGED acctVars
      BY <2>1 DEF acctVars, promiseVars, AcctInv, AcctTypeOK, ScheduleIsPromise,
                  ReadsKnowSchedule, PickedStayLapsed, PurgeIsComplete, Emptied, Purging
    <2>2. CASE AcctNext
      BY <2>2, UpsertReadInv, UpsertPutInv, UserStepInv, SoftDeleteInv, FindVictimsInv,
         NextVictimInv, PurgeCollectionInv, PurgeUserInv, AbandonInv, DayInv
      DEF AcctNext, SweepStep
    <2> QED BY <2>1, <2>2
  <1> QED BY <1>1, AcctInitInv, PTL DEF AcctSpec

\* Type correctness of account deletion.
THEOREM AcctTypeCorrect == AcctSpec => []AcctTypeOK
  BY AcctInvariance, PTL DEF AcctInv

LEMMA PickedHadLapsed ==
    ASSUME AcctInv, AcctNext, NEW a \in Account,
           NEW s \in Sweep, a \in sweep'[s].victims \ sweep[s].victims
    PROVE  window[a] = 0
  <1>1. PICK t \in Sweep : findVictims(t)
    <2>1. ASSUME NEW t \in Sweep, sweep' = [sweep EXCEPT ![t] = sweep'[t]],
                 sweep'[t].victims \subseteq sweep[t].victims
          PROVE  FALSE
      BY <2>1 DEF AcctInv, AcctTypeOK
    <2>2. CASE sweep' = sweep
      BY <2>2
    <2>3. ASSUME NEW b \in Account, NEW t \in Sweep, softDelete(b, t) PROVE FALSE
      BY <2>1, <2>3 DEF softDelete, AcctInv, AcctTypeOK, SweepState
    <2>4. ASSUME NEW t \in Sweep, nextVictim(t) PROVE FALSE
      <3>1. PICK b \in sweep[t].victims :
              sweep' = [sweep EXCEPT ![t].of = b, ![t].victims = @ \ {b}, ![t].at = 1]
        BY <2>4 DEF nextVictim
      <3> QED BY <2>1, <3>1 DEF AcctInv, AcctTypeOK, SweepState
    <2>5. ASSUME NEW t \in Sweep, NEW fails \in BOOLEAN, purgeCollection(t, fails) PROVE FALSE
      BY <2>1, <2>5 DEF purgeCollection, AcctInv, AcctTypeOK, SweepState
    <2>6. ASSUME NEW t \in Sweep, purgeUser(t) PROVE FALSE
      BY <2>1, <2>6 DEF purgeUser, AcctInv, AcctTypeOK, Asleep
    <2>7. ASSUME NEW t \in Sweep, abandon(t) PROVE FALSE
      BY <2>1, <2>7 DEF abandon, AcctInv, AcctTypeOK, Asleep
    <2> QED BY <2>2, <2>3, <2>4, <2>5, <2>6, <2>7
            DEF AcctNext, SweepStep, upsertRead, upsertPut, create, store, Day
  <1>2. expired(a)
    BY <1>1 DEF findVictims, AcctInv, AcctTypeOK, Asleep
  <1> QED BY <1>2, ExpiredPromise DEF AcctInv

LEMMA GoneHadLapsed ==
    ASSUME AcctInv, AcctNext, quiet, NEW a \in Account, There(a), user'[a].there = "gone"
    PROVE  window[a] = 0
  <1>1. PICK s \in Sweep : purgeUser(s) /\ a = sweep[s].of
    <2>1. ASSUME user'[a].there = user[a].there PROVE FALSE
      BY <2>1 DEF There
    <2>2. CASE user' = user
      BY <2>1, <2>2
    <2>3. ASSUME NEW l \in Login, upsertPut(l) PROVE FALSE
      <3>1. PICK r \in signing[l] : \/ UNCHANGED user
                                   \/ user' = [user EXCEPT ![r.of] = signedIn(user[r.of], r.doc)]
        BY <2>3 DEF upsertPut
      <3>2. r.of \in Account /\ r.doc \in UserDoc /\ user[r.of] \in UserDoc
        BY DEF AcctInv, AcctTypeOK
      <3> QED BY <2>1, <3>1, <3>2, SignedInType DEF AcctInv, AcctTypeOK
    <2>4. ASSUME NEW b \in Account, create(b) PROVE FALSE
      BY <2>1, <2>4 DEF create, AcctInv, AcctTypeOK, UserDoc
    <2>5. ASSUME NEW b \in Account, NEW s \in Sweep, softDelete(b, s) PROVE FALSE
      BY <2>1, <2>5 DEF softDelete, AcctInv, AcctTypeOK, UserDoc
    <2>6. CASE Day
      BY <2>1, <2>6, DayLessType DEF Day, AcctInv, AcctTypeOK
    <2>7. ASSUME NEW s \in Sweep, purgeUser(s), a # sweep[s].of PROVE FALSE
      BY <2>1, <2>7 DEF purgeUser, AcctInv, AcctTypeOK
    <2> QED BY <2>2, <2>3, <2>4, <2>5, <2>6, <2>7
            DEF AcctNext, SweepStep, upsertRead, store, findVictims, nextVictim,
                purgeCollection, abandon
  <1> QED BY <1>1 DEF AcctInv, PickedStayLapsed, Purging

\* No sweep picks an account unless its window ran out with no sign-in completed that
\* began after the request, however sign-ins, requests and sweeps overlap or are cut
\* off; while picked accounts are not in use, the document that goes had lapsed.
THEOREM OnlyLapsedArePurged == AcctSpec => OnlyLapsedPurged
  <1>1. AcctInv /\ [AcctNext]_acctVars =>
          [\A a \in Account :
              /\ (\E s \in Sweep : a \in sweep'[s].victims \ sweep[s].victims) => window[a] = 0
              /\ quiet /\ There(a) /\ user'[a].there = "gone" => window[a] = 0]_acctVars
    BY PickedHadLapsed, GoneHadLapsed
  <1> QED BY <1>1, AcctInvariance, PTL DEF AcctSpec, OnlyLapsedPurged

\* While deletes succeed and purged accounts are not in use, a user document that is
\* gone leaves nothing behind, whatever sweeps were cut off before.
THEOREM PurgesAreComplete == AcctSpec => []PurgeIsComplete
  BY AcctInvariance, PTL DEF AcctInv
=============================================================================
