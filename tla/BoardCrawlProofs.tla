-------------------------- MODULE BoardCrawlProofs --------------------------
(***************************************************************************)
(* Proofs about BoardCrawl, for any board, page size, page limit, faults   *)
(* and health constants.  That absence is only counted past the last row   *)
(* of the board is not a fact about the step that counts it: it rests on   *)
(* what the fetch loop leaves behind when it ends, which IInv states.  What *)
(* absence costs a row that is listed is bounded by what went wrong with   *)
(* the crawls of its board, which CountInv states.                         *)
(***************************************************************************)
EXTENDS BoardCrawl, JobRecordProofs

\* A run that is still fetching has seen no last page, and has fetched no more
\* than its pages hold; one that is judged on a last page has read to the end.
RunOK(r) ==
    /\ r \in Run
    /\ r.phase = "fetching" =>
          /\ ~r.complete /\ ~r.partial /\ ~r.unchanged
          /\ r.fetched <= r.pages * PageSize
    /\ r.phase = "judging" /\ r.complete => r.ended /\ ~r.partial

IInv ==
    /\ TypeOK
    /\ \A p \in Posting : Coherent(job[p])
    /\ RunOK(run)

-----------------------------------------------------------------------------
(* Pages and errors. *)

LEMMA BoardType == TypeOK => board \in Seq(Posting)
BY DEF TypeOK

\* A page holds at most PageSize rows, and without a next cursor it is the last.
LEMMA PageFacts ==
    ASSUME board \in Seq(Posting), NEW offset \in Nat
    PROVE  /\ Page(offset) \in Seq(Posting)
           /\ Len(Page(offset)) \in 0 .. PageSize
           /\ nextCursor(offset) \in Nat
           /\ nextCursor(offset) = 0 => offset + PageSize >= Len(board)
<1> DEFINE last == IF offset + PageSize < Len(board) THEN offset + PageSize ELSE Len(board)
<1>1. PageSize \in Nat /\ PageSize > 0 /\ Len(board) \in Nat
  BY BoardCrawlAssumption
<1>2. last \in Int /\ offset + 1 \in Int
  BY <1>1
<1>3. \A i \in offset + 1 .. last : board[i] \in Posting
  BY <1>1
<1> HIDE DEF last
<1>4. /\ SubSeq(board, offset + 1, last) \in Seq(Posting)
      /\ Len(SubSeq(board, offset + 1, last)) =
           IF offset + 1 <= last THEN last - (offset + 1) + 1 ELSE 0
  BY <1>2, <1>3, SubSeqProperties
<1>5. Page(offset) = SubSeq(board, offset + 1, last)
  BY DEF Page, last
<1>6. /\ Len(Page(offset)) \in 0 .. PageSize
      /\ offset + PageSize < Len(board) => Len(Page(offset)) = PageSize
  BY <1>1, <1>2, <1>4, <1>5 DEF last
<1>7. /\ nextCursor(offset) \in Nat
      /\ nextCursor(offset) = 0 => offset + PageSize >= Len(board)
  BY <1>1, <1>6 DEF nextCursor
<1> QED
  BY <1>4, <1>5, <1>6, <1>7

\* The rows of a page are finitely many postings.
LEMMA RowsFacts ==
    ASSUME NEW page \in Seq(Posting)
    PROVE  RowsOf(page) \subseteq Posting /\ IsFiniteSet(RowsOf(page))
<1>1. DOMAIN page = 1 .. Len(page) /\ Len(page) \in Nat
  OBVIOUS
<1>2. IsFiniteSet(1 .. Len(page))
  BY <1>1, FS_Interval
<1>3. page \in [1 .. Len(page) -> RowsOf(page)]
  BY <1>1 DEF RowsOf
<1>4. page \in Surjection(1 .. Len(page), RowsOf(page))
  BY <1>1, <1>3 DEF RowsOf, Surjection
<1>5. IsFiniteSet(RowsOf(page))
  BY <1>2, <1>4, FS_Surjection
<1> QED
  BY <1>1, <1>5 DEF RowsOf

LEMMA NotedType ==
    ASSUME NEW errors \in Errors, NEW class \in ERROR_CLASS
    PROVE  Noted(errors, class) \in Errors
<1>1. CASE \E i \in DOMAIN errors : errors[i] = class
  BY <1>1 DEF Noted
<1>2. CASE ~ \E i \in DOMAIN errors : errors[i] = class
  <2>1. errors \in Seq(ERROR_CLASS) /\ Noted(errors, class) = Append(errors, class)
    BY <1>2 DEF Noted, Errors
  <2>2. /\ Append(errors, class) \in Seq(ERROR_CLASS)
        /\ Len(Append(errors, class)) = Len(errors) + 1
        /\ \A i \in 1 .. Len(errors) : Append(errors, class)[i] = errors[i]
        /\ Append(errors, class)[Len(errors) + 1] = class
    BY <2>1, AppendProperties
  <2>3. \A i, j \in 1 .. Len(errors) + 1 :
          Append(errors, class)[i] = Append(errors, class)[j] => i = j
    BY <2>1, <2>2, <1>2 DEF Errors
  <2> DEFINE e == Append(errors, class)
  <2>4. e \in Seq(ERROR_CLASS) /\ DOMAIN e = 1 .. Len(errors) + 1
    BY <2>2
  <2>5. \A i, j \in DOMAIN e : e[i] = e[j] => i = j
    BY <2>3, <2>4
  <2> HIDE DEF e
  <2>6. e \in Errors
    BY <2>4, <2>5 DEF Errors
  <2> QED
    BY <2>1, <2>6 DEF e
<1> QED
  BY <1>1, <1>2

-----------------------------------------------------------------------------
(* Documents. *)

LEMMA MissesNatural ==
    ASSUME NEW j, Coherent(j)
    PROVE  Misses(j) \in Nat
<1>1. j.insts \in Seq(Instance)
  BY DEF Coherent, Job
<1>2. j.insts # <<>> => j.insts[1] \in Instance
  BY <1>1
<1> QED
  BY <1>1, <1>2, JobRecordAssumption DEF Misses, Instance

\* A row that is seen keeps its document coherent and never adds to its misses.
LEMMA NoMoreMisses ==
    ASSUME NEW j, Coherent(j), NEW p \in Posting
    PROVE  Coherent(ingested(j, p)) /\ Misses(ingested(j, p)) <= Misses(j)
<1> DEFINE s == sourceOf[p]
<1>1. /\ j.insts \in Seq(Instance) /\ j \in Job
      /\ \A i \in DOMAIN j.insts : j.insts[i].missCount \in Nat
  <2>1. j \in Job /\ j.insts \in Seq(Instance)
    BY DEF Coherent, Job
  <2>2. \A i \in DOMAIN j.insts : j.insts[i] \in Instance
    BY <2>1
  <2> QED
    BY <2>1, <2>2, JobRecordAssumption DEF Instance
<1>2. CASE findDuplicate(j, p)
  <2> DEFINE mi == mergedInsts(j.insts, p)
             si == [i \in DOMAIN mi |-> IF i = First(mi, s) THEN revived(mi[i]) ELSE mi[i]]
  <2>1. Coherent(ingested(j, p))
    BY <1>2, SightingCoherent DEF ingested
  <2>2. mi \in Seq(Instance) /\ j.insts # <<>>
    BY <1>1, <1>2, MergedInsts DEF findDuplicate
  <2>3. /\ 1 \in DOMAIN j.insts /\ 1 \in DOMAIN mi
        /\ mi[1] = j.insts[1] \/ mi[1] = revived(j.insts[1])
    <3>1. CASE \E i \in DOMAIN j.insts : j.insts[i].posting = p
      BY <1>1, <2>2, <3>1 DEF mergedInsts
    <3>2. CASE ~ \E i \in DOMAIN j.insts : j.insts[i].posting = p
      <4>1. mi = Append(j.insts, seenInstance(p))
        BY <3>2 DEF mergedInsts
      <4>2. seenInstance(p) \in Instance
        BY SeenInstance
      <4>3. mi[1] = j.insts[1] /\ Len(mi) = Len(j.insts) + 1
        BY <1>1, <2>2, <4>1, <4>2, AppendProperties
      <4> QED
        BY <1>1, <2>2, <4>3
    <3> QED
      BY <3>1, <3>2
  <2>4. ingested(j, p).insts = si
    BY <1>2, SightingCoherent DEF ingested
  <2>5. si[1] = mi[1] \/ si[1] = revived(mi[1])
    BY <2>3
  <2>6. mi[1] \in Instance /\ j.insts[1] \in Instance
    BY <1>1, <2>2, <2>3
  <2>7. si[1].missCount <= j.insts[1].missCount
    <3>1. \A inst \in Instance : revived(inst).missCount = 0
      BY DEF revived, Instance
    <3>2. j.insts[1].missCount >= 0
      BY <1>1, <2>3
    <3> HIDE DEF si, mi
    <3> QED
      BY <1>1, <2>3, <2>5, <2>6, <3>1, <3>2
  <2>8. si # <<>>
    BY <2>3
  <2> QED
    BY <2>1, <2>2, <2>4, <2>7, <2>8 DEF Misses
<1>3. CASE ~findDuplicate(j, p)
  <2>1. ingested(j, p) = created(p)
    BY <1>3 DEF ingested
  <2>2. created(p).insts = <<seenInstance(p)>>
    BY DEF created, Absent
  <2>3. Misses(created(p)) = 0
    BY <2>2 DEF Misses, seenInstance
  <2>4. Misses(j) >= 0
    BY <1>1 DEF Misses
  <2> QED
    BY <2>1, <2>3, <2>4, CreatedCoherent
<1> QED
  BY <1>2, <1>3

\* The documents a reconciliation rewrites stay coherent, and it rewrites no other.
LEMMA CountedCoherent ==
    ASSUME \A p \in Posting : Coherent(job[p]), NEW rows \in SUBSET HeldRows
    PROVE  /\ \A p \in Posting : Coherent(counted(rows)[p])
           /\ \A p \in Posting \ rows : counted(rows)[p] = job[p]
<1>1. \A p \in rows : p \in Posting /\ Candidate(job[p])
  BY DEF HeldRows, Held, Candidate
<1>2. \A p \in rows : Coherent(observeMissing(job[p], sourceOf[p]))
  BY <1>1, MissingCoherent
<1> QED
  BY <1>2 DEF counted

LEMMA DocumentsTyped ==
    ASSUME NEW f, f = [p \in Posting |-> f[p]], \A p \in Posting : Coherent(f[p])
    PROVE  f \in [Posting -> Job]
<1>1. \A p \in Posting : f[p] \in Job
  BY DEF Coherent
<1> QED
  BY <1>1

LEMMA UnseenHeld == Unseen \subseteq HeldRows
BY DEF Unseen

-----------------------------------------------------------------------------
(* The source's document. *)

LEMMA AppendedType ==
    ASSUME NEW window \in Seq(Entry), Len(window) <= HEALTH_WINDOW, NEW e \in Entry
    PROVE  Appended(window, e) \in Seq(Entry) /\ Len(Appended(window, e)) <= HEALTH_WINDOW
<1> DEFINE w == IF Len(window) = HEALTH_WINDOW THEN Tail(window) ELSE window
<1>1. HEALTH_WINDOW \in Nat /\ HEALTH_WINDOW > 0
  BY SourceDocAssumption, SourceStatusAssumption
<1>2. w \in Seq(Entry) /\ Len(w) < HEALTH_WINDOW
  <2>1. CASE Len(window) = HEALTH_WINDOW
    <3>1. window # <<>>
      BY <1>1, <2>1
    <3> QED
      BY <1>1, <2>1, <3>1, HeadTailProperties
  <2>2. CASE Len(window) # HEALTH_WINDOW
    BY <1>1, <2>2
  <2> QED
    BY <2>1, <2>2
<1> HIDE DEF w
<1>3. Append(w, e) \in Seq(Entry) /\ Len(Append(w, e)) = Len(w) + 1
  BY <1>2, AppendProperties
<1> QED
  BY <1>1, <1>2, <1>3 DEF Appended, w

\* Whatever a run was like, recording it leaves a well-typed document.
LEMMA RecordedType ==
    ASSUME NEW doc \in Doc, NEW stale \in SOURCE_STATUS, NEW fetched \in 0 .. MaxFetched,
           NEW unchanged, NEW errors, NEW isCredible, NEW next \in Nat
    PROVE  recordRun(doc, stale, fetched, unchanged, errors, isCredible, next) \in Doc
<1> DEFINE ok == errors = <<>>
           fails == IF ok THEN 0
                    ELSE IF doc.fails = DisableAfter THEN doc.fails ELSE doc.fails + 1
           status == IF ~isCredible THEN "DEGRADED"
                     ELSE IF ok THEN healthStatusFor(stale, isCredible, ok)
                     ELSE deriveStatus(doc.status, fails, errors[1])
           entry == IF ok /\ ~unchanged THEN fetched ELSE Void
<1>1. doc.status \in SOURCE_STATUS /\ doc.fails \in 0 .. DisableAfter
      /\ doc.window \in Seq(Entry) /\ Len(doc.window) <= HEALTH_WINDOW
  BY DEF Doc
<1>2. fails \in 0 .. DisableAfter
  BY <1>1, SourceDocAssumption, SourceStatusAssumption
<1>3. status \in SOURCE_STATUS
  <2> HIDE DEF ok, fails
  <2> QED
    BY <1>1 DEF healthStatusFor, deriveStatus, SOURCE_STATUS
<1>4. entry \in Entry
  BY DEF Entry, Void
<1> HIDE DEF entry
<1>5. Appended(doc.window, entry) \in {w \in Seq(Entry) : Len(w) <= HEALTH_WINDOW}
  BY <1>1, <1>4, AppendedType
<1>6. recordRun(doc, stale, fetched, unchanged, errors, isCredible, next) =
        [status |-> status, fails |-> fails,
         window |-> Appended(doc.window, entry), cursor |-> next]
  BY DEF recordRun, entry
<1> HIDE DEF fails, status
<1> QED
  BY <1>2, <1>3, <1>5, <1>6 DEF Doc

-----------------------------------------------------------------------------
(* The invariant. *)

Task == [state : {"NONE", "QUEUED", "LEASED"}, checkpoint : Nat]
EtagOK(e) == Cardinality(e) <= 1 /\ \A page \in e : page \in Seq(Posting)

LEMMA IdleRunOK == RunOK(idleRun) /\ idleRun.phase = "idle"
<1>1. <<>> \in Errors /\ <<>> \in Seq(Posting)
  BY DEF Errors
<1>2. 0 \in 0 .. PageLimit - 1 /\ 0 \in 0 .. MaxFetched
  BY BoardCrawlAssumption, SourceDocAssumption, SourceStatusAssumption
<1>3. idleRun \in Run
  BY <1>1, <1>2 DEF idleRun, Run, SOURCE_STATUS
<1> QED
  BY <1>3 DEF RunOK, idleRun

LEMMA InitIInv == Init => IInv
<1> SUFFICES ASSUME Init PROVE IInv
  OBVIOUS
<1>1. \A p \in Posting : Coherent(job[p])
  BY AbsentCoherent DEF Init
<1>2. job \in [Posting -> Job]
  BY <1>1, DocumentsTyped DEF Init
<1>3. src \in Doc
  BY SourceDocAssumption, SourceStatusAssumption DEF Init, Doc, SOURCE_STATUS
<1>4. etag = {} /\ Cardinality(etag) = 0
  BY FS_EmptySet DEF Init
<1>5. RunOK(run) /\ run.phase = "idle"
  BY IdleRunOK DEF Init
<1>6. 0 \in 0 .. MaxFaults
  BY BoardCrawlAssumption
<1>7. TypeOK
  BY <1>2, <1>3, <1>4, <1>5, <1>6 DEF TypeOK, Init, noTask, RunOK
<1> QED
  BY <1>1, <1>5, <1>7 DEF IInv

\* A step of a crawl edits neither the board nor what is left to post.
LEMMA CrawlUpdate ==
    ASSUME IInv, UNCHANGED <<board, unposted>>,
           job' = [p \in Posting |-> job'[p]], \A p \in Posting : Coherent(job'[p]),
           src' \in Doc, EtagOK(etag'), task' \in Task, RunOK(run'),
           task'.state = "LEASED" <=> run'.phase # "idle",
           faults' \in 0 .. MaxFaults
    PROVE  IInv'
<1>1. job' \in [Posting -> Job]
  BY DocumentsTyped
<1>2. TypeOK'
  BY <1>1 DEF IInv, TypeOK, EtagOK, Task, RunOK
<1> QED
  BY <1>2 DEF IInv

LEMMA FaultCounted == IInv /\ Fault => faults' \in 0 .. MaxFaults
BY BoardCrawlAssumption DEF IInv, TypeOK, Fault, MayFault

LEMMA enqueueIInv == IInv /\ enqueue => IInv'
<1> SUFFICES ASSUME IInv, enqueue PROVE IInv'
  OBVIOUS
<1>1. UNCHANGED <<board, unposted, job, src, etag, run, faults>>
  BY DEF enqueue
<1>2. task' \in Task /\ task'.state = "QUEUED" /\ task.state # "LEASED"
  BY DEF enqueue, Task
<1> QED
  BY <1>1, <1>2 DEF IInv, TypeOK, Task, RunOK

LEMMA startRunIInv == IInv /\ startRun => IInv'
<1> SUFFICES ASSUME IInv, startRun PROVE IInv'
  OBVIOUS
<1> DEFINE r == [idleRun EXCEPT !.phase = "fetching", !.offset = resumeOffset,
                                !.status = src.status, !.leased = task.checkpoint,
                                !.whole = resumeOffset = 0]
<1>1. /\ UNCHANGED <<board, unposted, job, src, etag, faults>>
      /\ run' = r /\ task' = [task EXCEPT !.state = "LEASED"]
  BY DEF startRun
<1>2. task.checkpoint \in Nat /\ src.cursor \in Nat /\ src.status \in SOURCE_STATUS
  BY DEF IInv, TypeOK, Doc
<1>3. resumeOffset \in Nat
  BY <1>2 DEF resumeOffset
<1>4. RunOK(idleRun) /\ idleRun \in Run /\ PageSize \in Nat
  BY IdleRunOK, BoardCrawlAssumption DEF RunOK
<1>5. r \in Run
  BY <1>2, <1>3, <1>4 DEF Run
<1>6. /\ r.phase = "fetching" /\ ~r.complete /\ ~r.partial /\ ~r.unchanged
      /\ r.fetched = 0 /\ r.pages = 0
  BY DEF idleRun
<1> HIDE DEF r
<1>7. RunOK(r)
  BY <1>4, <1>5, <1>6 DEF RunOK
<1>8. task' \in Task /\ task'.state = "LEASED"
  BY <1>1 DEF IInv, TypeOK, Task
<1>9. EtagOK(etag') /\ src' \in Doc /\ faults' \in 0 .. MaxFaults
      /\ job' = [p \in Posting |-> job'[p]] /\ \A p \in Posting : Coherent(job'[p])
  BY <1>1 DEF IInv, TypeOK, EtagOK
<1> QED
  BY <1>1, <1>6, <1>7, <1>8, <1>9, CrawlUpdate

\* A run within its pages fetches no more than MaxFetched rows.
LEMMA FetchBound ==
    ASSUME NEW pages \in 0 .. PageLimit - 1, NEW fetched \in Nat,
           fetched <= pages * PageSize, NEW n \in 0 .. PageSize
    PROVE  fetched + n <= (pages + 1) * PageSize /\ fetched + n \in 0 .. MaxFetched
<1>1. /\ PageSize \in Nat /\ PageLimit \in Nat /\ MaxFetched \in Nat
      /\ PageSize * PageLimit <= MaxFetched
  BY BoardCrawlAssumption, SourceDocAssumption, SourceStatusAssumption
<1>2. (pages + 1) * PageSize = pages * PageSize + PageSize
  BY <1>1
<1>3. PageLimit - (pages + 1) \in Nat
  BY <1>1
<1>4. PageLimit * PageSize = (pages + 1) * PageSize + (PageLimit - (pages + 1)) * PageSize
  BY <1>1
<1>5. \A a, b \in Nat : a * b \in Nat
  OBVIOUS
<1>6. /\ (PageLimit - (pages + 1)) * PageSize \in Nat
      /\ pages * PageSize \in Nat /\ PageLimit * PageSize = PageSize * PageLimit
  BY <1>1, <1>3, <1>5
<1> QED
  BY <1>1, <1>2, <1>4, <1>6

LEMMA fetchPageIInv ==
    ASSUME IInv, NEW bad, NEW class \in ERROR_CLASS, NEW stop \in BOOLEAN,
           fetchPage(bad, class, stop)
    PROVE  IInv' /\ \A p \in Posting : Misses(job'[p]) <= Misses(job[p])
<1> DEFINE rows == RowsOf(Page(run.offset))
           next == nextCursor(run.offset)
           good == rows \ (Nameless \cup bad)
           pages == run.pages + 1
           goOn == next # 0 /\ pages < PageLimit /\ ~stop
           last == authoritative(run.offset)
           n == Len(Page(run.offset))
           errors == IF bad = {} THEN run.errors ELSE Noted(run.errors, class)
           phase1 == IF goOn THEN "fetching" ELSE "judging"
           offset1 == IF goOn THEN next ELSE run.offset
           pages1 == IF goOn THEN pages ELSE 0
           seen1 == run.seen \cup good
           complete1 == run.complete \/ last
           partial1 == ~goOn /\ next # 0
           rejected1 == run.rejected + Cardinality(rows \ good)
           ended1 == run.offset + PageSize >= Len(board)
           r == [run EXCEPT
                   !.phase = phase1, !.offset = offset1, !.pages = pages1, !.seen = seen1,
                   !.complete = complete1, !.partial = partial1, !.fetched = @ + n,
                   !.rejected = rejected1, !.errors = errors, !.next = next,
                   !.page = Page(run.offset), !.ended = ended1]
<1>1. /\ run \in Run /\ run.phase = "fetching"
      /\ ~run.complete /\ ~run.partial /\ ~run.unchanged
      /\ run.fetched <= run.pages * PageSize
  BY DEF fetchPage, IInv, RunOK
<1>2. run.offset \in Nat /\ board \in Seq(Posting)
  BY <1>1, BoardType DEF IInv, Run
<1>3. /\ Page(run.offset) \in Seq(Posting) /\ n \in 0 .. PageSize /\ next \in Nat
      /\ next = 0 => run.offset + PageSize >= Len(board)
      /\ last <=> next = 0
  BY <1>2, PageFacts DEF authoritative
<1>4. /\ good \in SUBSET (Posting \ Nameless)
      /\ Cardinality(rows \ good) \in Nat
  <2>1. rows \subseteq Posting /\ IsFiniteSet(rows)
    BY <1>3, RowsFacts
  <2>2. IsFiniteSet(rows \ good)
    BY <2>1, FS_Subset
  <2> QED
    BY <2>1, <2>2, FS_CardinalityType
<1>5. errors \in Errors
  BY <1>1, NotedType DEF Run
<1>6. /\ run.pages \in 0 .. PageLimit - 1 /\ run.fetched \in Nat /\ PageLimit \in Nat
      /\ run.fetched + n <= pages * PageSize /\ run.fetched + n \in 0 .. MaxFetched
  <2>1. /\ run.pages \in 0 .. PageLimit - 1 /\ run.fetched \in Nat
    BY <1>1, SourceDocAssumption, SourceStatusAssumption DEF Run
  <2>2. /\ run.fetched + n <= pages * PageSize /\ run.fetched + n \in 0 .. MaxFetched
    BY <1>1, <1>3, <2>1, FetchBound
  <2> QED
    BY <2>1, <2>2, BoardCrawlAssumption
<1>7. /\ run' = r
      /\ job' = [p \in Posting |-> IF p \in good THEN ingested(job[p], p) ELSE job[p]]
      /\ task' = IF next # 0 THEN [task EXCEPT !.checkpoint = next] ELSE task
      /\ IF bad = {} THEN UNCHANGED faults ELSE Fault
      /\ UNCHANGED <<board, unposted, src, etag>>
  BY DEF fetchPage
<1>8. goOn => pages \in 0 .. PageLimit - 1
  BY <1>6
<1>9. goOn \in BOOLEAN /\ last \in BOOLEAN /\ (next # 0) \in BOOLEAN
  BY DEF authoritative
<1> HIDE DEF rows, good, errors, last, n
<1>10. r \in Run
  <2>1. 0 \in 0 .. PageLimit - 1
    BY <1>6
  <2>2. complete1 \in BOOLEAN /\ partial1 \in BOOLEAN /\ ended1 \in BOOLEAN
    OBVIOUS
  <2>3. /\ phase1 \in {"idle", "fetching", "judging", "recording", "settling"}
        /\ offset1 \in Nat /\ pages1 \in 0 .. PageLimit - 1
    BY <1>2, <1>3, <1>8, <2>1
  <2>4. seen1 \in SUBSET (Posting \ Nameless) /\ rejected1 \in Nat
    BY <1>1, <1>4 DEF Run
  <2> HIDE DEF next, phase1, offset1, pages1, complete1, partial1, ended1, seen1, rejected1
  <2> QED
    BY <1>1, <1>3, <1>5, <1>6, <2>2, <2>3, <2>4 DEF Run
<1>11. /\ r.phase = phase1 /\ r.complete = complete1 /\ r.partial = partial1
       /\ r.unchanged = run.unchanged /\ r.pages = pages1
       /\ r.fetched = run.fetched + n /\ r.ended = ended1
  <2> HIDE DEF next, phase1, offset1, pages1, complete1, partial1, ended1, seen1, rejected1
  <2> QED
    BY <1>1 DEF Run
<1> HIDE DEF r
<1>12. RunOK(r) /\ r.phase # "idle"
  BY <1>1, <1>3, <1>6, <1>10, <1>11 DEF RunOK
<1>13. \A p \in Posting : Coherent(job'[p]) /\ Misses(job'[p]) <= Misses(job[p])
  <2> SUFFICES ASSUME NEW p \in Posting
               PROVE  Coherent(job'[p]) /\ Misses(job'[p]) <= Misses(job[p])
    OBVIOUS
  <2>1. Coherent(job[p])
    BY DEF IInv
  <2>2. CASE p \in good
    BY <1>7, <2>1, <2>2, NoMoreMisses
  <2>3. CASE p \notin good
    <3>1. job'[p] = job[p]
      BY <1>7, <2>3
    <3>2. Misses(job[p]) \in Nat
      BY <2>1, MissesNatural
    <3> QED
      BY <2>1, <3>1, <3>2
  <2> QED
    BY <2>2, <2>3
<1>14. /\ EtagOK(etag') /\ src' \in Doc /\ task' \in Task /\ task'.state = "LEASED"
       /\ faults' \in 0 .. MaxFaults
  BY <1>1, <1>3, <1>7, FaultCounted DEF IInv, TypeOK, EtagOK, Task
<1>15. job' = [p \in Posting |-> job'[p]] /\ UNCHANGED <<board, unposted>> /\ RunOK(run')
       /\ run'.phase # "idle"
  BY <1>7, <1>12
<1>16. IInv'
  BY <1>13, <1>14, <1>15, CrawlUpdate
<1> QED
  BY <1>13, <1>16

LEMMA unmodifiedPageIInv == IInv /\ unmodifiedPage => IInv'
<1> SUFFICES ASSUME IInv, unmodifiedPage PROVE IInv'
  OBVIOUS
<1>1. /\ run \in Run /\ run.phase = "fetching" /\ ~run.complete
      /\ UNCHANGED <<board, unposted, job, src, etag, task, faults>>
      /\ run' = [run EXCEPT !.phase = "judging", !.unchanged = TRUE, !.page = Page(0)]
  BY DEF unmodifiedPage, IInv, RunOK
<1>2. Page(0) \in Seq(Posting)
  BY BoardType, PageFacts DEF IInv
<1>3. run' \in Run /\ run'.phase = "judging" /\ ~run'.complete
  BY <1>1, <1>2 DEF Run
<1>4. RunOK(run')
  BY <1>3 DEF RunOK
<1> QED
  BY <1>1, <1>3, <1>4, CrawlUpdate DEF IInv, TypeOK, EtagOK, Task

LEMMA pageErrorIInv ==
    ASSUME IInv, NEW class \in ERROR_CLASS, pageError(class)
    PROVE  IInv'
<1>1. /\ run \in Run /\ run.phase = "fetching" /\ ~run.complete /\ Fault
      /\ UNCHANGED <<board, unposted, job, src, etag, task>>
      /\ run' = [run EXCEPT !.phase = "judging", !.errors = Noted(@, class), !.ended = FALSE]
  BY DEF pageError, IInv, RunOK
<1>2. Noted(run.errors, class) \in Errors
  BY <1>1, NotedType DEF Run
<1>3. run' \in Run /\ run'.phase = "judging" /\ ~run'.complete
  BY <1>1, <1>2 DEF Run
<1>4. RunOK(run') /\ faults' \in 0 .. MaxFaults
  BY <1>1, <1>3, FaultCounted DEF RunOK
<1> QED
  BY <1>1, <1>3, <1>4, CrawlUpdate DEF IInv, TypeOK, EtagOK, Task

\* Only a run that reached the last row has anything to reconcile.
EndReached == run.phase = "judging" /\ run.ended /\ ~run.partial /\ ~run.unchanged

LEMMA ReconcilesAtTheEnd ==
    ASSUME IInv, run.phase = "judging", Unseen # {}
    PROVE  EndReached
<1>1. MayReconcile
  BY DEF Unseen
<1>2. run.complete /\ ~run.unchanged /\ ~run.partial
  BY <1>1 DEF MayReconcile, mayReconcileMissing
<1> QED
  BY <1>2 DEF EndReached, IInv, RunOK

\* A reconciliation, whole or cut short by an exception or a crash.
LEMMA Reconciled ==
    ASSUME IInv, NEW part \in SUBSET Posting,
           part \subseteq IF run.phase = "judging" THEN Unseen ELSE {}
    PROVE  /\ \A p \in Posting : Coherent(counted(part)[p])
           /\ \A p \in Posting : counted(part)[p] # job[p] => EndReached
<1>1. part \in SUBSET HeldRows
  BY UnseenHeld
<1>2. \A p \in Posting : Coherent(job[p])
  BY DEF IInv
<1>3. \A p \in Posting : Coherent(counted(part)[p])
  BY <1>1, <1>2, CountedCoherent
<1>4. \A p \in Posting \ part : counted(part)[p] = job[p]
  BY <1>1, <1>2, CountedCoherent
<1>5. part # {} => EndReached
  BY ReconcilesAtTheEnd
<1> QED
  BY <1>3, <1>4, <1>5

LEMMA NotRisen ==
    ASSUME IInv, NEW p \in Posting, job'[p].insts = job[p].insts
    PROVE  ~MissRises(p)
<1>1. Misses(job[p]) \in Nat
  BY MissesNatural DEF IInv
<1>2. Misses(job'[p]) = Misses(job[p])
  BY DEF Misses
<1> QED
  BY <1>1, <1>2 DEF MissRises

LEMMA judgeIInv ==
    ASSUME IInv, judge
    PROVE  IInv' /\ \A p \in Posting : MissRises(p) => EndReached
<1>1. /\ run \in Run /\ run.phase = "judging"
      /\ UNCHANGED <<board, unposted, src, etag, task, faults>>
      /\ job' = counted(Unseen)
      /\ run' = [run EXCEPT !.phase = "recording", !.credible = Credible]
  BY DEF judge, IInv, RunOK
<1>2. Unseen \in SUBSET Posting
  BY UnseenHeld DEF HeldRows
<1>3. /\ \A p \in Posting : Coherent(job'[p])
      /\ \A p \in Posting : job'[p] # job[p] => EndReached
  BY <1>1, <1>2, Reconciled
<1>4. Credible \in BOOLEAN
  BY DEF Credible, credible
<1>5. run' \in Run /\ run'.phase = "recording"
  BY <1>1, <1>4 DEF Run
<1>6. RunOK(run') /\ job' = [p \in Posting |-> job'[p]]
  BY <1>1, <1>5 DEF RunOK, counted
<1>7. IInv'
  BY <1>1, <1>3, <1>5, <1>6, CrawlUpdate DEF IInv, TypeOK, EtagOK, Task
<1> QED
  BY <1>3, <1>7, NotRisen

LEMMA throwRunIInv ==
    ASSUME IInv, NEW class \in ERROR_CLASS, NEW part \in SUBSET Posting,
           throwRun(class, part)
    PROVE  IInv' /\ \A p \in Posting : MissRises(p) => EndReached
<1> DEFINE f == counted(part)
           ok == run.phase = "judging" => Credible
<1>1. /\ run \in Run /\ run.phase \in {"fetching", "judging"} /\ Fault
      /\ UNCHANGED <<board, unposted, src, etag, task>>
      /\ part \subseteq IF run.phase = "judging" THEN Unseen ELSE {}
      /\ job' = [p \in Posting |-> IF Held(f[p], sourceOf[p])
                                   THEN observeSourceFailure(f[p]) ELSE job[p]]
      /\ run' = [run EXCEPT !.phase = "recording", !.errors = Noted(@, class),
                            !.credible = ok]
  BY DEF throwRun, IInv, RunOK
<1>2. /\ \A p \in Posting : Coherent(f[p])
      /\ \A p \in Posting : f[p] # job[p] => EndReached
  BY <1>1, Reconciled
<1> HIDE DEF f
<1>3. \A p \in Posting : Coherent(job'[p])
  BY <1>1, <1>2, FailureCoherent DEF IInv
<1>4. \A p \in Posting : f[p] = job[p] => job'[p].insts = job[p].insts
  <2>1. \A p \in Posting : observeSourceFailure(f[p]).insts = f[p].insts
    BY <1>2 DEF observeSourceFailure, Coherent, Job
  <2> QED
    BY <1>1, <2>1
<1>5. ok \in BOOLEAN /\ Noted(run.errors, class) \in Errors
  BY <1>1, NotedType DEF Run
<1> HIDE DEF ok
<1>6. run' \in Run /\ run'.phase = "recording"
  BY <1>1, <1>5 DEF Run
<1>7. RunOK(run') /\ job' = [p \in Posting |-> job'[p]] /\ faults' \in 0 .. MaxFaults
  BY <1>1, <1>6, FaultCounted DEF RunOK
<1>8. IInv'
  BY <1>1, <1>3, <1>6, <1>7, CrawlUpdate DEF IInv, TypeOK, EtagOK, Task
<1> QED
  BY <1>2, <1>4, <1>8, NotRisen

LEMMA crashIInv ==
    ASSUME IInv, NEW part \in SUBSET Posting, crash(part)
    PROVE  IInv' /\ \A p \in Posting : MissRises(p) => EndReached
<1>1. /\ Fault /\ UNCHANGED <<board, unposted, src, etag>>
      /\ part \subseteq IF run.phase = "judging" THEN Unseen ELSE {}
      /\ job' = counted(part) /\ task' = [task EXCEPT !.state = "QUEUED"]
      /\ run' = idleRun
  BY DEF crash
<1>2. /\ \A p \in Posting : Coherent(job'[p])
      /\ \A p \in Posting : job'[p] # job[p] => EndReached
  BY <1>1, Reconciled
<1>3. /\ job' = [p \in Posting |-> job'[p]] /\ faults' \in 0 .. MaxFaults
      /\ task' \in Task /\ task'.state = "QUEUED" /\ RunOK(run') /\ run'.phase = "idle"
  BY <1>1, FaultCounted, IdleRunOK DEF counted, IInv, TypeOK, Task
<1>4. IInv'
  BY <1>1, <1>2, <1>3, CrawlUpdate DEF IInv, TypeOK, EtagOK
<1> QED
  BY <1>2, <1>4, NotRisen

LEMMA recordIInv == IInv /\ record => IInv'
<1> SUFFICES ASSUME IInv, record PROVE IInv'
  OBVIOUS
<1> DEFINE doc == recordRun(src, run.status, run.fetched, run.unchanged, run.errors,
                            run.credible, run.next)
<1>1. /\ run \in Run /\ run.phase = "recording" /\ src \in Doc
      /\ run' = [run EXCEPT !.phase = "settling"]
      /\ UNCHANGED <<board, unposted, job, task, faults>>
      /\ src' = doc \/ src' = [doc EXCEPT !.status = "NOT_CONFIGURED"]
      /\ etag' = {run.page} \/ etag' = etag
  BY DEF record, IInv, RunOK, TypeOK
<1>2. doc \in Doc
  BY <1>1, RecordedType DEF Run
<1> HIDE DEF doc
<1>3. src' \in Doc
  BY <1>1, <1>2 DEF Doc, SOURCE_STATUS
<1>4. EtagOK(etag')
  <2>1. run.page \in Seq(Posting)
    BY <1>1 DEF Run
  <2>2. Cardinality({run.page}) = 1
    BY FS_Singleton
  <2>3. EtagOK({run.page})
    BY <2>1, <2>2 DEF EtagOK
  <2>4. EtagOK(etag)
    BY DEF EtagOK, IInv, TypeOK
  <2> QED
    BY <1>1, <2>3, <2>4
<1>5. run' \in Run /\ run'.phase = "settling"
  BY <1>1 DEF Run
<1>6. RunOK(run')
  BY <1>5 DEF RunOK
<1> QED
  BY <1>1, <1>3, <1>4, <1>5, <1>6, CrawlUpdate DEF IInv, TypeOK, Task

LEMMA settleIInv ==
    ASSUME IInv, NEW gaveUp, settle(gaveUp)
    PROVE  IInv'
<1>1. /\ run \in Run /\ run' = idleRun
      /\ UNCHANGED <<board, unposted, job, src, etag>>
      /\ faults' = 0 \/ faults' = faults
      /\ \/ task' = [state |-> "QUEUED", checkpoint |-> run.next]
         \/ task' = noTask
         \/ task' = [state |-> "QUEUED", checkpoint |-> run.leased]
  BY DEF settle, IInv, RunOK
<1>2. run.next \in Nat /\ run.leased \in Nat
  BY <1>1 DEF Run
<1>3. task' \in Task /\ task'.state # "LEASED"
  BY <1>1, <1>2 DEF Task, noTask
<1>4. faults' \in 0 .. MaxFaults
  BY <1>1, BoardCrawlAssumption DEF IInv, TypeOK
<1>5. RunOK(run') /\ run'.phase = "idle"
  BY <1>1, IdleRunOK
<1> QED
  BY <1>1, <1>3, <1>4, <1>5, CrawlUpdate DEF IInv, TypeOK, EtagOK

LEMMA postIInv ==
    ASSUME IInv, NEW p \in Posting, post(p)
    PROVE  IInv'
<1> DEFINE S == Posting \ unposted'
<1>1. /\ p \in unposted /\ unposted' = unposted \ {p} /\ unposted \subseteq Posting
      /\ board' = <<p>> \o board \/ board' = Append(board, p)
      /\ UNCHANGED <<job, src, etag, task, run, faults>>
      /\ board \in Seq(Posting \ unposted)
  BY DEF post, crawlVars, IInv, TypeOK
<1>2. p \in S /\ Posting \ unposted \subseteq S
  BY <1>1
<1> HIDE DEF S
<1>3. board \in Seq(S) /\ <<p>> \in Seq(S)
  <2>1. PICK n \in Nat : board \in [1 .. n -> Posting \ unposted]
    BY <1>1, SeqDef
  <2>2. board \in [1 .. n -> S]
    BY <1>2, <2>1
  <2> QED
    BY <1>2, <2>2, SeqDef
<1>4. board' \in Seq(S)
  <2>1. <<p>> \o board \in Seq(S)
    BY <1>3, ConcatProperties
  <2>2. Append(board, p) \in Seq(S)
    BY <1>2, <1>3, AppendProperties
  <2> QED
    BY <1>1, <2>1, <2>2
<1>5. TypeOK'
  BY <1>1, <1>4 DEF IInv, TypeOK, S
<1> QED
  BY <1>1, <1>5 DEF IInv

LEMMA withdrawIInv ==
    ASSUME IInv, NEW p \in Posting, withdraw(p)
    PROVE  IInv'
<1> DEFINE S == Posting \ unposted
           calm == run = idleRun
<1>1. /\ UNCHANGED <<job, src, etag, task, unposted>>
      /\ run' = [run EXCEPT !.calm = calm]
      /\ run \in Run /\ RunOK(run) /\ board \in Seq(S)
      /\ Fault \/ faults' = faults
  BY DEF withdraw, IInv, TypeOK, RunOK
<1>2. PICK i \in DOMAIN board :
        board' = SubSeq(board, 1, i - 1) \o SubSeq(board, i + 1, Len(board))
  BY DEF withdraw
<1>3. board' \in Seq(S)
  <2>1. i \in 1 .. Len(board) /\ Len(board) \in Nat /\ \A k \in 1 .. Len(board) : board[k] \in S
    BY <1>1
  <2> HIDE DEF S
  <2>2. SubSeq(board, 1, i - 1) \in Seq(S)
    BY <2>1, SubSeqProperties
  <2>3. SubSeq(board, i + 1, Len(board)) \in Seq(S)
    BY <2>1, SubSeqProperties
  <2> QED
    BY <1>2, <2>2, <2>3, ConcatProperties
<1>4. calm \in BOOLEAN
  OBVIOUS
<1> HIDE DEF calm
<1>5. /\ run' \in Run /\ run'.phase = run.phase /\ run'.complete = run.complete
      /\ run'.partial = run.partial /\ run'.unchanged = run.unchanged
      /\ run'.ended = run.ended /\ run'.fetched = run.fetched /\ run'.pages = run.pages
  BY <1>1, <1>4 DEF Run
<1>6. RunOK(run')
  BY <1>1, <1>5 DEF RunOK
<1>7. faults' \in 0 .. MaxFaults
  BY <1>1, FaultCounted DEF IInv, TypeOK
<1>8. TypeOK'
  BY <1>1, <1>3, <1>5, <1>7 DEF IInv, TypeOK
<1> QED
  BY <1>1, <1>6, <1>8 DEF IInv

\* Every step keeps the invariant and counts a miss only past the last row.
LEMMA NextIInv ==
    ASSUME IInv, [Next]_vars
    PROVE  IInv' /\ \A p \in Posting : MissRises(p) => EndReached
<1>1. ASSUME job' = job PROVE \A p \in Posting : ~MissRises(p)
  BY <1>1, NotRisen
<1>2. CASE enqueue
  BY <1>1, <1>2, enqueueIInv DEF enqueue
<1>3. CASE startRun
  BY <1>1, <1>3, startRunIInv DEF startRun
<1>4. ASSUME NEW bad, NEW class \in {"SCHEMA_CHANGED", "PARSE_FAILED"}, NEW stop \in BOOLEAN,
             fetchPage(bad, class, stop)
      PROVE  IInv' /\ \A p \in Posting : MissRises(p) => EndReached
  <2>1. class \in ERROR_CLASS
    BY DEF ERROR_CLASS
  <2>2. IInv' /\ \A p \in Posting : Misses(job'[p]) <= Misses(job[p])
    BY <1>4, <2>1, fetchPageIInv
  <2>3. \A p \in Posting : Misses(job[p]) \in Nat /\ Misses(job'[p]) \in Nat
    BY <2>2, MissesNatural DEF IInv
  <2> QED
    BY <2>2, <2>3 DEF MissRises
<1>5. CASE unmodifiedPage
  BY <1>1, <1>5, unmodifiedPageIInv DEF unmodifiedPage
<1>6. CASE judge
  BY <1>6, judgeIInv
<1>7. CASE record
  BY <1>1, <1>7, recordIInv DEF record
<1>8. ASSUME NEW gaveUp, settle(gaveUp)
      PROVE  IInv' /\ \A p \in Posting : MissRises(p) => EndReached
  BY <1>1, <1>8, settleIInv DEF settle
<1>9. ASSUME NEW class \in Failures, pageError(class)
      PROVE  IInv' /\ \A p \in Posting : MissRises(p) => EndReached
  BY <1>1, <1>9, pageErrorIInv, BoardCrawlAssumption DEF pageError
<1>10. ASSUME NEW class \in Failures, NEW part \in SUBSET Posting, throwRun(class, part)
       PROVE  IInv' /\ \A p \in Posting : MissRises(p) => EndReached
  BY <1>10, throwRunIInv, BoardCrawlAssumption
<1>11. ASSUME NEW part \in SUBSET Posting, crash(part)
       PROVE  IInv' /\ \A p \in Posting : MissRises(p) => EndReached
  BY <1>11, crashIInv
<1>12. ASSUME NEW p \in Posting, post(p) \/ withdraw(p)
       PROVE  IInv' /\ \A q \in Posting : MissRises(q) => EndReached
  <2>1. job' = job
    BY <1>12 DEF post, withdraw, crawlVars
  <2> QED
    BY <1>1, <1>12, <2>1, postIInv, withdrawIInv
<1>13. CASE UNCHANGED vars
  <2>1. IInv'
    BY <1>13 DEF IInv, TypeOK, RunOK, vars
  <2> QED
    BY <1>1, <1>13, <2>1 DEF vars
<1> QED
  BY <1>2, <1>3, <1>4, <1>5, <1>6, <1>7, <1>8, <1>9, <1>10, <1>11, <1>12, <1>13 DEF Next, Crawl

LEMMA Invariance == Spec => []IInv
<1>1. IInv /\ [Next]_vars => IInv'
  BY NextIInv
<1> QED
  BY <1>1, InitIInv, PTL DEF Spec

\* Documents, source, task and run keep their types on every board: fetched
\* stays within the pages of a run and the window within HEALTH_WINDOW.
THEOREM TypeCorrect == Spec => []TypeOK
<1>1. IInv => TypeOK
  BY DEF IInv
<1> QED
  BY <1>1, Invariance, PTL

\* Absence is counted only by a run that reached the last row of the board,
\* whatever fails, is cut short, resumed or edited on the way.
THEOREM AbsenceCounted == Spec => AbsenceNeedsTheEnd
<1>1. IInv /\ [Next]_vars =>
        [\A p \in Posting : MissRises(p) =>
            run.phase = "judging" /\ run.ended /\ ~run.partial /\ ~run.unchanged]_vars
  BY NextIInv DEF EndReached
<1> QED
  BY <1>1, Invariance, PTL DEF Spec, AbsenceNeedsTheEnd

\* Every stored document is coherent: a shown one has an active instance, a
\* stale one is flagged for verification.
THEOREM DocumentsCoherent == Spec => [](\A p \in Posting : Coherent(job[p]))
<1>1. IInv => \A p \in Posting : Coherent(job[p])
  BY DEF IInv
<1> QED
  BY <1>1, Invariance, PTL

-----------------------------------------------------------------------------
(* What a crawl costs a listed row. *)

NamedRows == {i \in DOMAIN board : board[i] \notin Nameless}
MissesAt(i) == Misses(job[board[i]])

\* No listed row has more misses than faults and one, none of the first R more than
\* faults: a run that resumes behind row R will miss those once more.
WithinFrom(R) ==
    \A i \in NamedRows : /\ MissesAt(i) <= faults + 1
                         /\ i <= R => MissesAt(i) <= faults

\* The document of a posting: its own instance alone, retired by its misses only.
OwnDoc(j, p) ==
    /\ j.insts = <<>> => j = Absent
    /\ j.insts # <<>> => /\ Len(j.insts) = 1 /\ j.insts[1].posting = p
                         /\ j.insts[1].active \/ j.insts[1].missCount = MissThreshold
                         /\ j.status = "STALE" => ~j.insts[1].active
                         /\ j.status \notin {"ABSENT", "REMOVED"}

\* Where a run is, where the next one would resume, and what went wrong.
RunEnds ==
    /\ run.phase = "idle" => run = idleRun
    /\ run.phase = "fetching" => run.leased <= run.offset /\ run.next <= run.offset
    /\ run.complete => run.next = 0
    /\ run.phase = "settling" => src.cursor = run.next
    /\ task.state = "NONE" => task.checkpoint = 0
    /\ (run.errors # <<>> \/ ~run.calm) => faults > 0

\* A run that met a fault still has one to spare for the rows it began behind: it may
\* count them missed, fail, and be tried again from the same place.
MissBudget ==
    /\ run.phase = "idle" => WithinFrom(resumeOffset)
    /\ run.phase = "fetching" => WithinFrom(run.offset)
    /\ run.phase = "judging" => WithinFrom(IF run.complete THEN Len(board) ELSE run.next)
    /\ run.phase \in {"recording", "settling"} =>
          WithinFrom(run.next) /\ (run.errors # <<>> => WithinFrom(run.leased))
    /\ run.phase \in {"fetching", "judging"} /\ run.errors # <<>> =>
          /\ WithinFrom(Len(board))
          /\ \A i \in NamedRows : i <= run.leased => MissesAt(i) < faults

\* The rows a run has been past.
ReadSoFar == IF run.phase = "fetching" THEN run.offset
             ELSE IF run.complete THEN Len(board) ELSE 0

SeenInRun ==
    /\ \A p \in unposted : job[p] = Absent
    /\ \A p \in run.seen : Misses(job[p]) = 0
    /\ run.whole /\ run.calm /\ run.errors = <<>> =>
          \A i \in NamedRows : i <= ReadSoFar => board[i] \in run.seen \/ job[board[i]] = Absent

Counts ==
    /\ \A p \in Posting : OwnDoc(job[p], p)
    /\ RunEnds
    /\ MissBudget
    /\ SeenInRun

CountInv == IInv /\ Counts

-----------------------------------------------------------------------------
(* One document. *)

LEMMA OneInstance ==
    ASSUME NEW j, Coherent(j), NEW p \in Posting, OwnDoc(j, p), j.insts # <<>>
    PROVE  /\ j \in Job /\ j.insts \in Seq(Instance) /\ DOMAIN j.insts = {1}
           /\ j.insts[1] \in Instance /\ j.insts[1].posting = p
           /\ j.insts[1].missCount \in 0 .. MissThreshold
           /\ First(j.insts, sourceOf[p]) = 1
           /\ Misses(j) = j.insts[1].missCount
  <1>1. j \in Job /\ j.insts \in Seq(Instance)
    BY DEF Coherent, Job
  <1>2. Len(j.insts) = 1 /\ j.insts[1].posting = p
    BY DEF OwnDoc
  <1>3. DOMAIN j.insts = {1}
    BY <1>1, <1>2
  <1>4. j.insts[1] \in Instance /\ j.insts[1].missCount \in 0 .. MissThreshold
    <2>1. j.insts[1] \in Instance
      BY <1>1, <1>3
    <2> QED BY <2>1 DEF Instance
  <1>5. First(j.insts, sourceOf[p]) \in DOMAIN j.insts
    <2>1. \E i \in DOMAIN j.insts : sourceOf[j.insts[i].posting] = sourceOf[p]
      BY <1>2, <1>3
    <2> QED BY <1>1, <2>1, FirstExists
  <1> QED BY <1>1, <1>2, <1>3, <1>4, <1>5 DEF Misses

\* A row that is seen starts again without misses.
LEMMA SeenForgets ==
    ASSUME NEW j, Coherent(j), NEW p \in Posting, OwnDoc(j, p)
    PROVE  OwnDoc(ingested(j, p), p) /\ Misses(ingested(j, p)) = 0
  <1>1. CASE j.insts = <<>>
    <2>1. ingested(j, p) = created(p)
      BY <1>1 DEF ingested, findDuplicate
    <2>2. created(p).insts = <<seenInstance(p)>> /\ created(p).status = "NEW"
      BY DEF created, Absent
    <2>3. /\ seenInstance(p).posting = p /\ seenInstance(p).active /\ seenInstance(p).missCount = 0
      BY DEF seenInstance
    <2> HIDE DEF ingested
    <2>4. Len(<<seenInstance(p)>>) = 1 /\ <<seenInstance(p)>>[1] = seenInstance(p)
          /\ <<seenInstance(p)>> # <<>>
      OBVIOUS
    <2> QED BY <2>1, <2>2, <2>3, <2>4 DEF OwnDoc, Misses
  <1>2. CASE j.insts # <<>>
    <2> DEFINE s == sourceOf[p]
               mi == mergedInsts(j.insts, p)
               si == [i \in DOMAIN mi |-> IF i = First(mi, s) THEN revived(mi[i]) ELSE mi[i]]
    <2>1. /\ j.insts \in Seq(Instance) /\ DOMAIN j.insts = {1}
          /\ j.insts[1] \in Instance /\ j.insts[1].posting = p
      BY <1>2, OneInstance
    <2>2. findDuplicate(j, p)
      BY <2>1 DEF findDuplicate
    <2>3. ingested(j, p).insts = si
      BY <2>2, SightingCoherent DEF ingested
    <2>4. mi = [i \in DOMAIN j.insts |-> revived(j.insts[1])]
      BY <2>1 DEF mergedInsts
    <2>5. \A inst \in Instance : /\ revived(inst).posting = inst.posting /\ revived(inst).active
                                 /\ revived(inst).missCount = 0 /\ revived(inst) \in Instance
      BY InstanceOps DEF revived, Instance
    <2>6. DOMAIN mi = {1} /\ mi[1] = revived(j.insts[1])
      BY <2>1, <2>4
    <2>7. mi \in Seq(Instance)
      BY <2>1, MergedInsts
    <2> HIDE DEF mi
    <2>8. First(mi, s) \in DOMAIN mi
      <3>1. \E i \in DOMAIN mi : sourceOf[mi[i].posting] = s
        BY <2>1, <2>5, <2>6
      <3> QED BY <2>7, <3>1, FirstExists
    <2>9. DOMAIN si = {1} /\ si[1] = revived(revived(j.insts[1]))
      BY <2>6, <2>8
    <2>10. si \in Seq(Instance)
      BY <2>7, AtFirst
    <2>11. Len(si) = 1
      <3>1. DOMAIN si = 1 .. Len(si) /\ Len(si) \in Nat
        BY <2>10
      <3> HIDE DEF si
      <3> QED BY <2>9, <3>1
    <2>12. ingested(j, p).status = "ACTIVE"
      <3>1. ingested(j, p) = observeSeen(mergeJobs(j, p), s)
        BY <2>2 DEF ingested
      <3>2. mergeJobs(j, p) \in [DOMAIN mergeJobs(j, p) -> {mergeJobs(j, p)[f] : f \in DOMAIN mergeJobs(j, p)}]
            /\ "status" \in DOMAIN mergeJobs(j, p)
        <4>1. j \in Job
          BY <1>2, OneInstance
        <4> QED BY <4>1 DEF mergeJobs, Job
      <3> QED BY <3>1, <3>2 DEF observeSeen
    <2> HIDE DEF si
    <2>13. si # <<>> /\ si[1].posting = p /\ si[1].active /\ si[1].missCount = 0
      <3>1. revived(j.insts[1]) \in Instance /\ revived(j.insts[1]).posting = p
        BY <2>1, <2>5
      <3>2. /\ revived(revived(j.insts[1])).posting = p /\ revived(revived(j.insts[1])).active
            /\ revived(revived(j.insts[1])).missCount = 0
        BY <2>5, <3>1
      <3>3. si # <<>>
        BY <2>11
      <3> QED BY <2>9, <3>2, <3>3
    <2> QED BY <2>3, <2>11, <2>12, <2>13 DEF OwnDoc, Misses
  <1> QED BY <1>1, <1>2

\* An absence costs one miss, and retires the row only at the threshold.
LEMMA MissCosts ==
    ASSUME NEW j, Coherent(j), NEW p \in Posting, OwnDoc(j, p), Held(j, sourceOf[p])
    PROVE  OwnDoc(observeMissing(j, sourceOf[p]), p)
           /\ Misses(observeMissing(j, sourceOf[p])) <= Misses(j) + 1
  <1> DEFINE s == sourceOf[p]
             mi == [i \in DOMAIN j.insts |->
                      IF i = First(j.insts, s) THEN missed(j.insts[i]) ELSE j.insts[i]]
             o == observeMissing(j, s)
  <1>1. j.insts # <<>>
    BY DEF Held, Carries
  <1>2. /\ j \in Job /\ j.insts \in Seq(Instance) /\ DOMAIN j.insts = {1}
        /\ j.insts[1] \in Instance /\ j.insts[1].posting = p
        /\ j.insts[1].missCount \in 0 .. MissThreshold
        /\ First(j.insts, s) = 1
        /\ Misses(j) = j.insts[1].missCount
    BY <1>1, OneInstance
  <1>3. DOMAIN mi = {1} /\ mi[1] = missed(j.insts[1])
    BY <1>2
  <1>4. mi \in Seq(Instance)
    BY <1>2, AtFirst
  <1>5. Len(mi) = 1
    <2>1. DOMAIN mi = 1 .. Len(mi) /\ Len(mi) \in Nat
      BY <1>4
    <2> HIDE DEF mi
    <2> QED BY <1>3, <2>1
  <1>6. /\ missed(j.insts[1]).posting = p
        /\ missed(j.insts[1]).missCount <= j.insts[1].missCount + 1
        /\ missed(j.insts[1]).active \/ missed(j.insts[1]).missCount = MissThreshold
    <2> DEFINE inst == j.insts[1]
    <2>1. inst.active \/ inst.missCount = MissThreshold
      BY <1>1 DEF OwnDoc
    <2>2. MissThreshold \in Nat /\ inst.missCount \in Nat /\ inst.missCount <= MissThreshold
      BY <1>2, JobRecordAssumption
    <2> HIDE DEF inst
    <2>3. inst \in Instance /\ inst.posting = p
      BY <1>2 DEF inst
    <2>4. CASE inst.missCount + 1 >= MissThreshold
      BY <2>2, <2>3, <2>4 DEF missed, Instance, inst
    <2>5. CASE ~(inst.missCount + 1 >= MissThreshold)
      BY <2>1, <2>2, <2>3, <2>5 DEF missed, Instance, inst
    <2> QED BY <2>4, <2>5 DEF inst
  <1>7. AnyActive(mi) <=> mi[1].active
    BY <1>3 DEF AnyActive
  <1>8. o = IF AnyActive(mi)
            THEN [j EXCEPT !.insts = mi, !.status = IF @ = "ACTIVE" THEN "LIKELY_ACTIVE" ELSE @]
            ELSE [j EXCEPT !.insts = mi, !.status = "STALE", !.flagged = TRUE]
    BY DEF observeMissing
  <1> HIDE DEF mi, o
  <1>9. o.insts = mi
    BY <1>2, <1>8 DEF Job
  <1>10. /\ o.status = "STALE" => ~mi[1].active
         /\ o.status \notin {"ABSENT", "REMOVED"}
    <2>1. j.status \notin {"ABSENT", "REMOVED"}
      BY DEF Held
    <2>2. j.status = "STALE" => ~j.insts[1].active
      BY <1>1 DEF OwnDoc
    <2>3. ~j.insts[1].active => ~mi[1].active
      BY <1>2, <1>3 DEF missed, Instance
    <2>4. CASE AnyActive(mi)
      BY <1>2, <1>7, <1>8, <2>1, <2>2, <2>3, <2>4 DEF Job
    <2>5. CASE ~AnyActive(mi)
      BY <1>2, <1>7, <1>8, <2>5 DEF Job
    <2> QED BY <2>4, <2>5
  <1>11. mi # <<>>
    BY <1>3
  <1> QED BY <1>2, <1>3, <1>5, <1>6, <1>9, <1>10, <1>11 DEF OwnDoc, Misses, o

LEMMA FailureKeeps ==
    ASSUME NEW j, Coherent(j), NEW p, OwnDoc(j, p)
    PROVE  OwnDoc(observeSourceFailure(j), p) /\ Misses(observeSourceFailure(j)) = Misses(j)
  <1> DEFINE o == observeSourceFailure(j)
  <1>1. j \in Job
    BY DEF Coherent
  <1>2. /\ o.insts = j.insts
        /\ o.status = IF j.status = "ACTIVE" THEN "LIKELY_ACTIVE" ELSE j.status
        /\ j.status # "ACTIVE" => o = j
    BY <1>1 DEF observeSourceFailure, Job
  <1>3. j = Absent => j.status # "ACTIVE"
    BY DEF Absent
  <1> HIDE DEF o
  <1>4. OwnDoc(o, p)
    BY <1>2, <1>3 DEF OwnDoc
  <1>5. Misses(o) = Misses(j)
    BY <1>2 DEF Misses
  <1> QED BY <1>4, <1>5 DEF o

-----------------------------------------------------------------------------
(* The rows of the board. *)

LEMMA CountTypes ==
    ASSUME CountInv
    PROVE  /\ run \in Run /\ board \in Seq(Posting) /\ job \in [Posting -> Job]
           /\ faults \in Nat /\ task.checkpoint \in Nat /\ src.cursor \in Nat /\ resumeOffset \in Nat
           /\ \A i \in DOMAIN board : i \in Nat /\ i > 0 /\ i <= Len(board) /\ board[i] \in Posting
           /\ Len(board) \in Nat
           /\ \A p \in Posting : Coherent(job[p]) /\ OwnDoc(job[p], p) /\ Misses(job[p]) \in Nat
  <1>1. run \in Run /\ board \in Seq(Posting) /\ job \in [Posting -> Job] /\ faults \in Nat
    BY BoardType, BoardCrawlAssumption DEF CountInv, IInv, TypeOK
  <1>2. task.checkpoint \in Nat /\ src.cursor \in Nat
    BY DEF CountInv, IInv, TypeOK, Doc
  <1>3. resumeOffset \in Nat
    BY <1>2 DEF resumeOffset
  <1>4. Len(board) \in Nat /\ \A i \in DOMAIN board : i \in Nat /\ i > 0 /\ i <= Len(board) /\ board[i] \in Posting
    BY <1>1
  <1>5. \A p \in Posting : Coherent(job[p]) /\ OwnDoc(job[p], p) /\ Misses(job[p]) \in Nat
    BY MissesNatural DEF CountInv, Counts, IInv
  <1> QED BY <1>1, <1>2, <1>3, <1>4, <1>5

\* The bound all phases share.
LEMMA MissBound ==
    ASSUME CountInv, NEW i \in NamedRows
    PROVE  MissesAt(i) \in Nat /\ MissesAt(i) <= faults + 1
  <1>1. \E R : WithinFrom(R)
    <2>1. run.phase \in {"idle", "fetching", "judging", "recording", "settling"}
      BY CountTypes DEF Run
    <2> QED BY <2>1 DEF CountInv, Counts, MissBudget
  <1>2. MissesAt(i) \in Nat
    BY CountTypes DEF NamedRows, MissesAt
  <1> QED BY <1>1, <1>2 DEF WithinFrom

LEMMA WithinLess ==
    ASSUME CountInv, NEW R \in Nat, NEW S \in Nat, S <= R, WithinFrom(R)
    PROVE  WithinFrom(S)
  <1>1. \A i \in NamedRows : i \in Nat
    BY CountTypes DEF NamedRows
  <1> QED BY <1>1 DEF WithinFrom

\* Everywhere is as far as the end of the board.
LEMMA WithinAll ==
    ASSUME CountInv, WithinFrom(Len(board)) PROVE \A R : WithinFrom(R)
  <1>1. \A i \in NamedRows : i <= Len(board)
    BY CountTypes DEF NamedRows
  <1> QED BY <1>1 DEF WithinFrom

\* Steps that add no miss and no fault.
LEMMA WithinStays ==
    ASSUME CountInv, UNCHANGED <<board, faults>>,
           \A p \in Posting : Misses(job'[p]) \in Nat /\ Misses(job'[p]) <= Misses(job[p])
    PROVE  /\ NamedRows' = NamedRows
           /\ \A i \in NamedRows : MissesAt(i)' \in Nat /\ MissesAt(i)' <= MissesAt(i)
           /\ \A R : WithinFrom(R) => WithinFrom(R)'
  <1>1. NamedRows' = NamedRows
    BY DEF NamedRows
  <1>2. \A i \in NamedRows : MissesAt(i)' \in Nat /\ MissesAt(i)' <= MissesAt(i)
    BY CountTypes DEF NamedRows, MissesAt
  <1>3. \A i \in NamedRows : MissesAt(i) \in Nat /\ faults \in Nat
    BY CountTypes DEF NamedRows, MissesAt
  <1>4. ASSUME NEW R, WithinFrom(R) PROVE WithinFrom(R)'
    BY <1>1, <1>2, <1>3, <1>4 DEF WithinFrom
  <1> QED BY <1>1, <1>2, <1>4

\* A fault allows every row one miss more.
LEMMA FaultAllows ==
    ASSUME CountInv, Fault, board' = board,
           \A p \in Posting : Misses(job'[p]) \in Nat /\ Misses(job'[p]) <= Misses(job[p])
    PROVE  /\ NamedRows' = NamedRows /\ faults' = faults + 1 /\ faults' \in Nat /\ faults' > 0
           /\ \A i \in NamedRows : MissesAt(i)' \in Nat /\ MissesAt(i)' <= MissesAt(i)
           /\ \A R : WithinFrom(R)'
  <1>1. NamedRows' = NamedRows /\ faults' = faults + 1
    BY DEF NamedRows, Fault
  <1>2. \A i \in NamedRows : MissesAt(i)' \in Nat /\ MissesAt(i)' <= MissesAt(i)
    BY CountTypes DEF NamedRows, MissesAt
  <1>3. \A i \in NamedRows : MissesAt(i) \in Nat /\ MissesAt(i) <= faults + 1 /\ faults \in Nat
    BY MissBound, CountTypes
  <1>4. ASSUME NEW R PROVE WithinFrom(R)'
    BY <1>1, <1>2, <1>3 DEF WithinFrom
  <1> QED BY <1>1, <1>2, <1>4, CountTypes

\* A page holds the rows after its offset.
LEMMA PageRows ==
    ASSUME board \in Seq(Posting), NEW offset \in Nat, NEW i \in DOMAIN board,
           offset < i, i <= offset + PageSize
    PROVE  board[i] \in RowsOf(Page(offset))
  <1> DEFINE last == IF offset + PageSize < Len(board) THEN offset + PageSize ELSE Len(board)
  <1>1. PageSize \in Nat /\ Len(board) \in Nat /\ i \in Nat /\ i <= Len(board)
    BY BoardCrawlAssumption
  <1>2. last \in Int /\ offset + 1 \in Int /\ i <= last
    BY <1>1
  <1>3. \A k \in offset + 1 .. last : board[k] \in Posting
    BY <1>1
  <1>4. Page(offset) = SubSeq(board, offset + 1, last)
    BY DEF Page
  <1> HIDE DEF last
  <1>5. /\ SubSeq(board, offset + 1, last) \in Seq(Posting)
        /\ Len(SubSeq(board, offset + 1, last)) = IF offset + 1 <= last THEN last - (offset + 1) + 1 ELSE 0
        /\ \A k \in 1 .. last - (offset + 1) + 1 :
              SubSeq(board, offset + 1, last)[k] = board[(offset + 1) + k - 1]
    BY <1>2, <1>3, SubSeqProperties
  <1> DEFINE k == i - offset
  <1>6. k \in 1 .. last - (offset + 1) + 1 /\ (offset + 1) + k - 1 = i
    BY <1>1, <1>2
  <1>7. Page(offset)[k] = board[i]
    BY <1>4, <1>5, <1>6
  <1>8. k \in DOMAIN Page(offset)
    BY <1>2, <1>4, <1>5, <1>6
  <1> QED BY <1>7, <1>8 DEF RowsOf

-----------------------------------------------------------------------------
(* Each step. *)

LEMMA IdleFacts ==
    /\ idleRun.phase = "idle" /\ idleRun.errors = <<>> /\ idleRun.calm /\ idleRun.seen = {}
    /\ ~idleRun.complete /\ idleRun.next = 0 /\ ~idleRun.whole /\ idleRun.leased = 0
    /\ idleRun.offset = 0
  BY DEF idleRun

\* Nothing changes for a row by what is only noted about the board or the run.
LEMMA SameRows ==
    ASSUME CountInv, UNCHANGED <<board, job, faults>>
    PROVE  /\ NamedRows' = NamedRows
           /\ \A i : MissesAt(i)' = MissesAt(i)
           /\ \A R : WithinFrom(R)' <=> WithinFrom(R)
           /\ \A p \in Posting : OwnDoc(job'[p], p) /\ Misses(job'[p]) <= Misses(job[p])
  <1>1. NamedRows' = NamedRows /\ \A i : MissesAt(i)' = MissesAt(i)
    BY DEF NamedRows, MissesAt
  <1>2. \A p \in Posting : OwnDoc(job'[p], p) /\ Misses(job'[p]) <= Misses(job[p])
    BY CountTypes
  <1> QED BY <1>1, <1>2 DEF WithinFrom

LEMMA enqueueCounts ==
    ASSUME CountInv, enqueue PROVE Counts'
  <1>1. /\ UNCHANGED <<board, unposted, job, src, etag, run, faults>>
        /\ task.state = "NONE" /\ task'.checkpoint = 0 /\ task'.state = "QUEUED"
    BY DEF enqueue
  <1>2. task.checkpoint = 0
    BY <1>1 DEF CountInv, Counts, RunEnds
  <1>3. resumeOffset' = resumeOffset
    BY <1>1, <1>2 DEF resumeOffset
  <1>4. RunEnds'
    BY <1>1 DEF CountInv, Counts, RunEnds
  <1>5. MissBudget'
    BY <1>1, <1>3, SameRows DEF CountInv, Counts, MissBudget
  <1>6. SeenInRun'
    <2>1. ReadSoFar' = ReadSoFar
      BY <1>1 DEF ReadSoFar
    <2> QED BY <1>1, <2>1, SameRows DEF CountInv, Counts, SeenInRun
  <1> QED BY <1>1, <1>4, <1>5, <1>6, SameRows DEF Counts

LEMMA startRunCounts ==
    ASSUME CountInv, startRun PROVE Counts'
  <1>1. /\ UNCHANGED <<board, unposted, job, src, etag, faults>>
        /\ run = idleRun /\ run \in Run
        /\ run' = [idleRun EXCEPT !.phase = "fetching", !.offset = resumeOffset,
                                  !.status = src.status, !.leased = task.checkpoint,
                                  !.whole = resumeOffset = 0]
        /\ task'.state = "LEASED"
    <2>1. task \in Task
      BY DEF CountInv, IInv, TypeOK, Task
    <2> QED BY <2>1, CountTypes DEF startRun, Task
  <1>2. /\ run'.phase = "fetching" /\ run'.offset = resumeOffset /\ run'.leased = task.checkpoint
        /\ run'.whole = (resumeOffset = 0) /\ run'.errors = <<>> /\ run'.calm /\ run'.seen = {}
        /\ ~run'.complete /\ run'.next = 0
    BY <1>1 DEF idleRun
  <1>3. task.checkpoint \in Nat /\ resumeOffset \in Nat /\ task.checkpoint <= resumeOffset
    BY CountTypes DEF resumeOffset
  <1>4. RunEnds'
    BY <1>1, <1>2, <1>3 DEF RunEnds
  <1>5. WithinFrom(resumeOffset)
    BY <1>1, IdleFacts DEF CountInv, Counts, MissBudget
  <1>6. MissBudget'
    BY <1>1, <1>2, <1>5, SameRows DEF MissBudget
  <1>7. SeenInRun'
    <2>1. \A i \in NamedRows : i > 0 /\ i \in Nat
      BY CountTypes DEF NamedRows
    <2>2. run'.whole => ReadSoFar' = 0
      BY <1>2 DEF ReadSoFar
    <2>3. run'.whole => \A i \in NamedRows' : ~(i <= ReadSoFar')
      BY <1>1, <2>1, <2>2, SameRows
    <2> QED BY <1>1, <1>2, <2>3 DEF CountInv, Counts, SeenInRun
  <1> QED BY <1>1, <1>4, <1>6, <1>7, SameRows DEF Counts

LEMMA unmodifiedPageCounts ==
    ASSUME CountInv, unmodifiedPage PROVE Counts'
  <1>1. /\ UNCHANGED <<board, unposted, job, src, etag, task, faults>>
        /\ run \in Run /\ run.phase = "fetching" /\ ~run.complete
        /\ run' = [run EXCEPT !.phase = "judging", !.unchanged = TRUE, !.page = Page(0)]
    BY CountTypes DEF unmodifiedPage, CountInv, IInv, RunOK
  <1>2. /\ run'.phase = "judging" /\ run'.complete = run.complete /\ run'.next = run.next
        /\ run'.errors = run.errors /\ run'.leased = run.leased /\ run'.seen = run.seen
        /\ run'.calm = run.calm /\ run'.whole = run.whole
    BY <1>1 DEF Run
  <1>3. RunEnds'
    BY <1>1, <1>2 DEF CountInv, Counts, RunEnds
  <1>4. WithinFrom(run.next)
    <2>1. WithinFrom(run.offset) /\ run.next <= run.offset
      BY <1>1 DEF CountInv, Counts, MissBudget, RunEnds
    <2> QED BY <1>1, <2>1, WithinLess DEF Run
  <1>5. MissBudget'
    BY <1>1, <1>2, <1>4, SameRows DEF CountInv, Counts, MissBudget
  <1>6. SeenInRun'
    <2>1. \A i \in NamedRows : i > 0 /\ i \in Nat
      BY CountTypes DEF NamedRows
    <2>2. ReadSoFar' = 0
      BY <1>1, <1>2 DEF ReadSoFar
    <2>3. \A i \in NamedRows' : ~(i <= ReadSoFar')
      BY <1>1, <2>1, <2>2, SameRows
    <2> QED BY <1>1, <1>2, <2>3 DEF CountInv, Counts, SeenInRun
  <1> QED BY <1>1, <1>3, <1>5, <1>6, SameRows DEF Counts

LEMMA NotedOne ==
    ASSUME NEW errors \in Errors, NEW class \in ERROR_CLASS
    PROVE  Noted(errors, class) # <<>>
  <1>1. CASE \E i \in DOMAIN errors : errors[i] = class
    <2>1. errors # <<>>
      BY <1>1
    <2> QED BY <1>1, <2>1 DEF Noted
  <1>2. CASE ~ \E i \in DOMAIN errors : errors[i] = class
    <2>1. errors \in Seq(ERROR_CLASS)
      BY DEF Errors
    <2>2. Append(errors, class) # <<>>
      BY <2>1, AppendProperties
    <2> QED BY <1>2, <2>2 DEF Noted
  <1> QED BY <1>1, <1>2

LEMMA pageErrorCounts ==
    ASSUME CountInv, NEW class \in ERROR_CLASS, pageError(class) PROVE Counts'
  <1>1. /\ UNCHANGED <<board, unposted, job, src, etag, task>> /\ Fault
        /\ run \in Run /\ run.phase = "fetching" /\ ~run.complete
        /\ run' = [run EXCEPT !.phase = "judging", !.errors = Noted(@, class), !.ended = FALSE]
    BY CountTypes DEF pageError, CountInv, IInv, RunOK
  <1>2. /\ run'.phase = "judging" /\ run'.complete = run.complete /\ run'.next = run.next
        /\ run'.leased = run.leased /\ run'.seen = run.seen
        /\ run'.errors = Noted(run.errors, class)
    BY <1>1 DEF Run
  <1>3. /\ NamedRows' = NamedRows /\ faults' > 0 /\ faults' = faults + 1
        /\ \A i \in NamedRows : MissesAt(i)' \in Nat /\ MissesAt(i)' <= MissesAt(i)
        /\ \A R : WithinFrom(R)'
    <2>1. \A p \in Posting : Misses(job'[p]) \in Nat /\ Misses(job'[p]) <= Misses(job[p])
      BY <1>1, CountTypes
    <2> QED BY <1>1, <2>1, FaultAllows
  <1>4. Noted(run.errors, class) # <<>>
    BY <1>1, NotedOne DEF Run
  <1>5. RunEnds'
    BY <1>1, <1>2, <1>3 DEF CountInv, Counts, RunEnds
  <1>6. ASSUME NEW i \in NamedRows, i <= run.leased PROVE MissesAt(i)' < faults'
    <2>1. WithinFrom(run.offset) /\ run.leased <= run.offset
      BY <1>1 DEF CountInv, Counts, MissBudget, RunEnds
    <2>2. MissesAt(i) <= faults
      <3>1. i \in Nat /\ run.leased \in Nat /\ run.offset \in Nat
        BY <1>1, CountTypes DEF NamedRows, Run
      <3> QED BY <1>6, <2>1, <3>1 DEF WithinFrom
    <2>3. MissesAt(i) \in Nat /\ faults \in Nat
      BY MissBound, CountTypes
    <2> QED BY <1>3, <2>2, <2>3
  <1>7. MissBudget'
    BY <1>1, <1>2, <1>3, <1>6 DEF MissBudget
  <1>8. SeenInRun'
    BY <1>1, <1>2, <1>4 DEF CountInv, Counts, SeenInRun
  <1>9. \A p \in Posting : OwnDoc(job'[p], p)
    BY <1>1, CountTypes
  <1> QED BY <1>5, <1>7, <1>8, <1>9 DEF Counts

GoodRows(bad) == RowsOf(Page(run.offset)) \ (Nameless \cup bad)

\* What one page changes.
LEMMA FetchedPage ==
    ASSUME CountInv, NEW bad, NEW class \in ERROR_CLASS, NEW stop \in BOOLEAN,
           fetchPage(bad, class, stop)
    PROVE  /\ run.phase = "fetching" /\ ~run.complete
           /\ UNCHANGED <<board, unposted, src>>
           /\ task'.state = task.state /\ task.state # "NONE"
           /\ run'.leased = run.leased /\ run'.whole = run.whole /\ run'.calm = run.calm
           /\ run'.errors = IF bad = {} THEN run.errors ELSE Noted(run.errors, class)
           /\ run'.next = nextCursor(run.offset)
           /\ run'.complete <=> run'.next = 0
           /\ run'.seen = run.seen \cup GoodRows(bad)
           /\ \/ run'.phase = "fetching" /\ run'.offset = run'.next /\ run'.next # 0
              \/ run'.phase = "judging"
           /\ IF bad = {} THEN UNCHANGED faults ELSE Fault
           /\ \A p \in Posting :
                 job'[p] = IF p \in GoodRows(bad)
                           THEN ingested(job[p], p) ELSE job[p]
  <1> DEFINE rows == RowsOf(Page(run.offset))
             next == nextCursor(run.offset)
             good == rows \ (Nameless \cup bad)
             goOn == next # 0 /\ run.pages + 1 < PageLimit /\ ~stop
             last == authoritative(run.offset)
             n == Len(Page(run.offset))
             errors == IF bad = {} THEN run.errors ELSE Noted(run.errors, class)
             phase1 == IF goOn THEN "fetching" ELSE "judging"
             offset1 == IF goOn THEN next ELSE run.offset
             pages1 == IF goOn THEN run.pages + 1 ELSE 0
             seen1 == run.seen \cup good
             complete1 == run.complete \/ last
             partial1 == ~goOn /\ next # 0
             rejected1 == run.rejected + Cardinality(rows \ good)
             ended1 == run.offset + PageSize >= Len(board)
  <1>1. /\ run.phase = "fetching" /\ ~run.complete
        /\ UNCHANGED <<board, unposted, src>>
        /\ task' = IF next # 0 THEN [task EXCEPT !.checkpoint = next] ELSE task
        /\ job' = [p \in Posting |-> IF p \in good THEN ingested(job[p], p) ELSE job[p]]
        /\ IF bad = {} THEN UNCHANGED faults ELSE Fault
        /\ run' = [run EXCEPT
                     !.phase = phase1, !.offset = offset1, !.pages = pages1, !.seen = seen1,
                     !.complete = complete1, !.partial = partial1, !.fetched = @ + n,
                     !.rejected = rejected1, !.errors = errors, !.next = next,
                     !.page = Page(run.offset), !.ended = ended1]
    BY DEF fetchPage, CountInv, IInv, RunOK
  <1>2. run \in Run /\ task \in Task /\ (task.state = "LEASED" <=> run.phase # "idle")
    BY CountTypes DEF CountInv, IInv, TypeOK, Task
  <1>3. last <=> next = 0
    BY DEF authoritative
  <1> HIDE DEF rows, next, good, n, errors, pages1, rejected1, ended1, last, goOn
  <1>4. /\ run'.phase = phase1 /\ run'.offset = offset1 /\ run'.seen = seen1
        /\ run'.complete = complete1 /\ run'.errors = errors /\ run'.next = next
        /\ run'.leased = run.leased /\ run'.whole = run.whole /\ run'.calm = run.calm
    <2> HIDE DEF phase1, offset1, seen1, complete1, partial1
    <2> QED BY <1>1, <1>2 DEF Run
  <1>5. task'.state = task.state /\ task.state # "NONE"
    BY <1>1, <1>2 DEF Task
  <1>6. goOn => next # 0
    BY DEF goOn
  <1>7. complete1 <=> next = 0
    BY <1>1, <1>3
  <1>8. run'.complete <=> run'.next = 0
    BY <1>4, <1>7
  <1>9. \/ run'.phase = "fetching" /\ run'.offset = run'.next /\ run'.next # 0
        \/ run'.phase = "judging"
    BY <1>4, <1>6
  <1> QED BY <1>1, <1>4, <1>5, <1>8, <1>9 DEF errors, next, good, rows, GoodRows

\* A row that was never posted is on no page.
LEMMA PageListed ==
    ASSUME CountInv, NEW p \in unposted PROVE p \notin RowsOf(Page(run.offset))
  <1>1. board \in Seq(Posting \ unposted) /\ run.offset \in Nat
    BY CountTypes DEF CountInv, IInv, TypeOK, Run
  <1> DEFINE last == IF run.offset + PageSize < Len(board) THEN run.offset + PageSize ELSE Len(board)
  <1>2. last \in Int /\ run.offset + 1 \in Int /\ last <= Len(board)
    BY <1>1, BoardCrawlAssumption
  <1>3. \A k \in run.offset + 1 .. last : board[k] \in Posting \ unposted
    BY <1>1, <1>2
  <1>4. Page(run.offset) = SubSeq(board, run.offset + 1, last)
    BY DEF Page
  <1> HIDE DEF last
  <1>5. Page(run.offset) \in Seq(Posting \ unposted)
    BY <1>2, <1>3, <1>4, SubSeqProperties
  <1> QED BY <1>5 DEF RowsOf

LEMMA fetchPageCounts ==
    ASSUME CountInv, NEW bad, NEW class \in ERROR_CLASS, NEW stop \in BOOLEAN,
           fetchPage(bad, class, stop)
    PROVE  Counts'
  <1> DEFINE next == nextCursor(run.offset)
  <1>1. /\ run.phase = "fetching" /\ ~run.complete
        /\ UNCHANGED <<board, unposted, src>>
        /\ task'.state = task.state /\ task.state # "NONE"
        /\ run'.leased = run.leased /\ run'.whole = run.whole /\ run'.calm = run.calm
        /\ run'.errors = IF bad = {} THEN run.errors ELSE Noted(run.errors, class)
        /\ run'.next = nextCursor(run.offset)
        /\ run'.complete <=> run'.next = 0
        /\ run'.seen = run.seen \cup GoodRows(bad)
        /\ \/ run'.phase = "fetching" /\ run'.offset = run'.next /\ run'.next # 0
           \/ run'.phase = "judging"
        /\ IF bad = {} THEN UNCHANGED faults ELSE Fault
    BY FetchedPage
  <1>0. \A p \in Posting : job'[p] = IF p \in GoodRows(bad) THEN ingested(job[p], p) ELSE job[p]
    BY FetchedPage
  <1>2. /\ run \in Run /\ run.offset \in Nat /\ run.leased \in Nat /\ run.leased <= run.offset
        /\ run.errors \in Errors /\ PageSize \in Nat
        /\ WithinFrom(run.offset)
    BY <1>1, CountTypes, BoardCrawlAssumption DEF Run, CountInv, Counts, RunEnds, MissBudget
  <1>3. /\ next \in Nat
        /\ next # 0 => next = run.offset + PageSize
        /\ next = 0 => run.offset + PageSize >= Len(board)
    <2>1. next \in Nat /\ (next = 0 => run.offset + PageSize >= Len(board))
      BY <1>2, CountTypes, PageFacts
    <2>2. next # 0 => next = run.offset + PageSize
      BY DEF nextCursor
    <2> QED BY <2>1, <2>2
  <1>4. \A i \in NamedRows : i > run.offset /\ i <= run.offset + PageSize =>
           board[i] \in RowsOf(Page(run.offset)) \ Nameless
    <2> TAKE i \in NamedRows
    <2>1. i \in DOMAIN board /\ board[i] \notin Nameless
      BY DEF NamedRows
    <2> QED BY <1>2, <2>1, CountTypes, PageRows
  <1>5. \A p \in Posting : /\ OwnDoc(job'[p], p)
                           /\ Misses(job'[p]) \in Nat /\ Misses(job'[p]) <= Misses(job[p])
                           /\ p \in GoodRows(bad) => Misses(job'[p]) = 0
    <2> TAKE p \in Posting
    <2>1. Coherent(job[p]) /\ OwnDoc(job[p], p) /\ Misses(job[p]) \in Nat
      BY CountTypes
    <2>2. CASE p \in GoodRows(bad)
      <3>1. OwnDoc(ingested(job[p], p), p) /\ Misses(ingested(job[p], p)) = 0
        BY <2>1, SeenForgets
      <3> QED BY <1>0, <2>1, <2>2, <3>1
    <2>3. CASE p \notin GoodRows(bad)
      BY <1>0, <2>1, <2>3
    <2> QED BY <2>2, <2>3
  <1>6. /\ NamedRows' = NamedRows
        /\ \A i \in NamedRows : MissesAt(i)' \in Nat /\ MissesAt(i)' <= MissesAt(i)
        /\ bad = {} => faults' = faults
        /\ bad # {} => faults' = faults + 1 /\ faults' > 0
    BY <1>1, <1>5, WithinStays, FaultAllows
  <1> HIDE DEF next
  <1>7. /\ run'.next = next
        /\ run'.complete <=> next = 0
        /\ run'.phase = "fetching" => run'.offset = next /\ next # 0
        /\ run'.phase \in {"fetching", "judging"}
        /\ bad # {} => run'.errors # <<>>
        /\ bad = {} => run'.errors = run.errors
    BY <1>1, <1>2, NotedOne DEF next
  <1>8. RunEnds'
    <2>1. run'.phase = "fetching" => run'.leased <= run'.offset /\ run'.next <= run'.offset
      BY <1>1, <1>2, <1>3, <1>7
    <2>2. (run'.errors # <<>> \/ ~run'.calm) => faults' > 0
      BY <1>1, <1>6, <1>7 DEF CountInv, Counts, RunEnds
    <2> QED BY <1>1, <1>7, <2>1, <2>2 DEF RunEnds
  <1>9. ASSUME NEW i \in NamedRows
        PROVE  /\ MissesAt(i)' <= faults' + 1
               /\ i <= run.offset + PageSize => MissesAt(i)' <= faults'
               /\ run'.errors # <<>> => MissesAt(i)' <= faults'
               /\ run'.errors # <<>> /\ i <= run.leased => MissesAt(i)' < faults'
    <2>1. /\ i \in Nat /\ i <= Len(board) /\ MissesAt(i) \in Nat /\ faults \in Nat
          /\ MissesAt(i) <= faults + 1 /\ MissesAt(i)' \in Nat /\ MissesAt(i)' <= MissesAt(i)
          /\ board[i] \in Posting
      BY <1>6, MissBound, CountTypes DEF NamedRows
    <2>2. i <= run.offset => MissesAt(i) <= faults
      BY <1>2 DEF WithinFrom
    <2>3. CASE bad # {}
      BY <1>2, <1>6, <2>1, <2>2, <2>3
    <2>4. CASE bad = {}
      <3>1. i > run.offset /\ i <= run.offset + PageSize => MissesAt(i)' = 0
        <4>1. i > run.offset /\ i <= run.offset + PageSize => board[i] \in GoodRows(bad)
          BY <1>4, <2>4 DEF GoodRows
        <4> QED BY <1>1, <1>5, <2>1, <4>1 DEF MissesAt
      <3>2. run.errors # <<>> => MissesAt(i) <= faults /\ (i <= run.leased => MissesAt(i) < faults)
        BY <1>1, <2>1 DEF CountInv, Counts, MissBudget, WithinFrom
      <3> QED BY <1>2, <1>6, <1>7, <2>1, <2>2, <2>4, <3>1, <3>2
    <2> QED BY <2>3, <2>4
  <1>10. MissBudget'
    <2>1. run'.phase = "fetching" => WithinFrom(run.offset)'
      BY <1>3, <1>6, <1>7, <1>9 DEF WithinFrom
    <2>2. run'.phase = "judging" => WithinFrom(IF run.complete THEN Len(board) ELSE run.next)'
      <3>1. CASE run'.complete
        <4>1. Len(board') = Len(board) /\ \A i \in NamedRows : i <= Len(board) => i <= run.offset + PageSize
          BY <1>1, <1>2, <1>3, <1>7, <3>1, CountTypes DEF NamedRows
        <4> QED BY <1>6, <1>9, <3>1, <4>1 DEF WithinFrom
      <3>2. CASE ~run'.complete
        BY <1>3, <1>6, <1>7, <1>9, <3>2 DEF WithinFrom
      <3> QED BY <3>1, <3>2
    <2>3. run'.errors # <<>> =>
            /\ WithinFrom(Len(board))'
            /\ \A i \in NamedRows' : i <= run'.leased => MissesAt(i)' < faults'
      BY <1>1, <1>6, <1>9 DEF WithinFrom
    <2> QED BY <1>7, <2>1, <2>2, <2>3 DEF MissBudget
  <1>11. SeenInRun'
    <2>1. \A p \in unposted' : job'[p] = Absent
      <3> SUFFICES ASSUME NEW p \in unposted PROVE job'[p] = Absent
        BY <1>1
      <3>1. p \in Posting /\ job[p] = Absent
        BY DEF CountInv, Counts, IInv, TypeOK, SeenInRun
      <3>2. p \notin RowsOf(Page(run.offset))
        BY PageListed
      <3> QED BY <1>0, <3>1, <3>2 DEF GoodRows
    <2>2. \A p \in run'.seen : Misses(job'[p]) = 0
      <3> SUFFICES ASSUME NEW p \in run'.seen PROVE Misses(job'[p]) = 0
        OBVIOUS
      <3>1. p \in Posting
        <4>1. run.seen \subseteq Posting
          BY <1>2 DEF Run
        <4>2. GoodRows(bad) \subseteq Posting
          BY <1>2, CountTypes, PageFacts, RowsFacts DEF GoodRows
        <4> QED BY <1>1, <4>1, <4>2
      <3>2. CASE p \in GoodRows(bad)
        BY <1>5, <3>1, <3>2
      <3>3. CASE p \notin GoodRows(bad)
        <4>1. p \in run.seen
          BY <1>1, <3>3
        <4>2. Misses(job[p]) = 0
          BY <4>1 DEF CountInv, Counts, SeenInRun
        <4> QED BY <1>0, <3>1, <3>3, <4>2
      <3> QED BY <3>2, <3>3
    <2>3. ASSUME run'.whole, run'.calm, run'.errors = <<>>, NEW i \in NamedRows', i <= ReadSoFar'
          PROVE  board'[i] \in run'.seen \/ job'[board'[i]] = Absent
      <3>1. bad = {} /\ run.whole /\ run.calm /\ run.errors = <<>>
        BY <1>1, <1>7, <2>3
      <3>2. i \in NamedRows /\ i \in Nat /\ i <= Len(board) /\ board'[i] = board[i] /\ board[i] \in Posting
        BY <1>1, <1>6, CountTypes DEF NamedRows
      <3>3. i <= run.offset + PageSize
        <4>1. CASE run'.phase = "fetching"
          BY <1>3, <1>7, <2>3, <4>1 DEF ReadSoFar
        <4>2. CASE run'.phase = "judging" /\ run'.complete
          BY <1>2, <1>3, <1>7, <3>2, <4>2, CountTypes
        <4>3. CASE run'.phase = "judging" /\ ~run'.complete
          <5>1. ReadSoFar' = 0
            BY <4>3 DEF ReadSoFar
          <5> QED BY <1>2, <2>3, <3>2, <5>1
        <4> QED BY <1>7, <4>1, <4>2, <4>3
      <3>4. CASE i > run.offset
        <4>1. board[i] \in GoodRows(bad)
          BY <1>4, <3>1, <3>2, <3>3, <3>4 DEF GoodRows
        <4> QED BY <1>1, <3>2, <4>1
      <3>5. CASE i <= run.offset
        <4>1. board[i] \in run.seen \/ job[board[i]] = Absent
          BY <1>1, <3>1, <3>2, <3>5 DEF CountInv, Counts, SeenInRun, ReadSoFar
        <4> QED BY <1>0, <1>1, <3>2, <4>1
      <3> QED BY <1>2, <3>2, <3>4, <3>5
    <2> QED BY <2>1, <2>2, <2>3 DEF SeenInRun
  <1> QED BY <1>5, <1>8, <1>10, <1>11 DEF Counts

\* A reconciliation, whole or cut short, costs the rows it counts one miss: rows of a
\* complete run that it has not seen.
LEMMA CountedRows ==
    ASSUME CountInv, NEW part \in SUBSET Posting,
           part \subseteq IF run.phase = "judging" THEN Unseen ELSE {}
    PROVE  /\ part # {} => run.phase = "judging" /\ run.complete
           /\ \A p \in part : p \notin run.seen /\ job[p] # Absent
           /\ \A p \in Posting :
                 /\ Coherent(counted(part)[p]) /\ OwnDoc(counted(part)[p], p)
                 /\ Misses(counted(part)[p]) \in Nat
                 /\ Misses(counted(part)[p]) <= Misses(job[p]) + 1
                 /\ p \notin part => counted(part)[p] = job[p]
  <1>1. part # {} => run.phase = "judging" /\ run.complete
    BY DEF Unseen, MayReconcile, mayReconcileMissing
  <1>2. \A p \in part : p \notin run.seen /\ p \in Posting /\ Held(job[p], sourceOf[p])
    BY DEF Unseen, HeldRows
  <1>3. \A p \in part : job[p] # Absent
    BY <1>2 DEF Held, Absent
  <1>4. \A p \in Posting : counted(part)[p] =
           IF p \in part THEN observeMissing(job[p], sourceOf[p]) ELSE job[p]
    BY DEF counted
  <1>5. \A p \in Posting : Coherent(counted(part)[p])
    BY Reconciled DEF CountInv
  <1>6. ASSUME NEW p \in Posting
        PROVE  /\ OwnDoc(counted(part)[p], p)
               /\ Misses(counted(part)[p]) <= Misses(job[p]) + 1
    <2>1. Coherent(job[p]) /\ OwnDoc(job[p], p) /\ Misses(job[p]) \in Nat
      BY CountTypes
    <2>2. CASE p \in part
      <3>1. /\ OwnDoc(observeMissing(job[p], sourceOf[p]), p)
            /\ Misses(observeMissing(job[p], sourceOf[p])) <= Misses(job[p]) + 1
        BY <1>2, <2>1, <2>2, MissCosts
      <3> QED BY <1>4, <2>2, <3>1
    <2>3. CASE p \notin part
      BY <1>4, <2>1, <2>3
    <2> QED BY <2>2, <2>3
  <1> QED BY <1>1, <1>2, <1>3, <1>4, <1>5, <1>6, MissesNatural

\* A fault in the middle of a reconciliation pays for what it counted.
LEMMA FaultyPart ==
    ASSUME CountInv, Fault, board' = board, NEW part \in SUBSET Posting,
           part # {} => run.phase = "judging" /\ run.complete,
           \A p \in Posting : /\ Misses(job'[p]) \in Nat
                              /\ Misses(job'[p]) <= Misses(job[p]) + 1
                              /\ p \notin part => Misses(job'[p]) <= Misses(job[p])
    PROVE  faults' > 0 /\ \A R : WithinFrom(R)'
  <1>1. CASE part = {}
    BY <1>1, FaultAllows
  <1>2. CASE part # {}
    <2>1. WithinFrom(Len(board))
      BY <1>2 DEF CountInv, Counts, MissBudget
    <2>2. /\ faults' = faults + 1 /\ faults \in Nat
          /\ \A i \in NamedRows : /\ i <= Len(board) /\ board[i] \in Posting
                                  /\ MissesAt(i) \in Nat
      BY CountTypes DEF Fault, NamedRows, MissesAt
    <2>3. \A i \in NamedRows : MissesAt(i) <= faults
      BY <2>1, <2>2 DEF WithinFrom
    <2>4. \A i \in NamedRows : MissesAt(i)' \in Nat /\ MissesAt(i)' <= MissesAt(i) + 1
      BY <2>2 DEF MissesAt
    <2>5. NamedRows' = NamedRows
      BY DEF NamedRows
    <2> QED BY <2>2, <2>3, <2>4, <2>5 DEF WithinFrom
  <1> QED BY <1>1, <1>2

LEMMA judgeCounts ==
    ASSUME CountInv, judge PROVE Counts'
  <1>1. /\ UNCHANGED <<board, unposted, src, etag, task, faults>>
        /\ run \in Run /\ run.phase = "judging" /\ job' = counted(Unseen)
        /\ run' = [run EXCEPT !.phase = "recording", !.credible = Credible]
    BY CountTypes DEF judge
  <1>2. /\ run'.phase = "recording" /\ run'.complete = run.complete /\ run'.next = run.next
        /\ run'.errors = run.errors /\ run'.leased = run.leased /\ run'.seen = run.seen
        /\ run'.calm = run.calm /\ run'.whole = run.whole
    BY <1>1 DEF Run
  <1>3. Unseen \in SUBSET Posting
    BY UnseenHeld DEF HeldRows
  <1>4. /\ Unseen # {} => run.complete
        /\ \A p \in Unseen : p \notin run.seen /\ job[p] # Absent
        /\ \A p \in Posting :
              /\ OwnDoc(job'[p], p)
              /\ Misses(job'[p]) \in Nat /\ Misses(job'[p]) <= Misses(job[p]) + 1
              /\ p \notin Unseen => job'[p] = job[p]
    BY <1>1, <1>3, CountedRows
  <1>5. RunEnds'
    BY <1>1, <1>2 DEF CountInv, Counts, RunEnds
  <1>6. NamedRows' = NamedRows
    BY <1>1 DEF NamedRows
  <1>7. \A i \in NamedRows : /\ board[i] \in Posting /\ i \in Nat /\ i > 0 /\ i <= Len(board)
                             /\ MissesAt(i) \in Nat /\ faults \in Nat
                             /\ MissesAt(i)' \in Nat /\ MissesAt(i)' <= MissesAt(i) + 1
    BY <1>1, <1>4, CountTypes DEF NamedRows, MissesAt
  <1>8. MissBudget'
    <2>1. CASE run.complete
      <3>1. run.next = 0 /\ WithinFrom(Len(board))
        BY <1>1, <2>1 DEF CountInv, Counts, RunEnds, MissBudget
      <3>2. \A i \in NamedRows : MissesAt(i) <= faults /\ ~(i <= run.next)
        BY <1>7, <3>1 DEF WithinFrom
      <3>3. WithinFrom(run.next)'
        BY <1>1, <1>2, <1>6, <1>7, <3>2 DEF WithinFrom
      <3>4. ASSUME run.errors # <<>> PROVE WithinFrom(run.leased)'
        <4>1. \A i \in NamedRows : i <= run.leased => MissesAt(i) < faults
          BY <1>1, <3>4 DEF CountInv, Counts, MissBudget
        <4> QED BY <1>1, <1>2, <1>6, <1>7, <3>2, <4>1 DEF WithinFrom
      <3> QED BY <1>2, <3>3, <3>4 DEF MissBudget
    <2>2. CASE ~run.complete
      <3>1. \A p \in Posting : job'[p] = job[p]
        BY <1>4, <2>2
      <3>2. \A R : WithinFrom(R) => WithinFrom(R)'
        BY <1>1, <1>4, <3>1, CountTypes, WithinStays
      <3>3. WithinFrom(run.next) /\ (run.errors # <<>> => WithinFrom(Len(board)))
        BY <1>1, <2>2 DEF CountInv, Counts, MissBudget
      <3>4. run.errors # <<>> => WithinFrom(run.leased)
        BY <3>3, WithinAll
      <3> QED BY <1>2, <3>2, <3>3, <3>4 DEF MissBudget
    <2> QED BY <2>1, <2>2
  <1>9. SeenInRun'
    <2>1. \A p \in unposted : p \in Posting /\ job[p] = Absent
      BY DEF CountInv, Counts, SeenInRun, IInv, TypeOK
    <2>2. \A p \in run.seen : p \in Posting /\ Misses(job[p]) = 0
      BY <1>1 DEF CountInv, Counts, SeenInRun, Run
    <2>3. \A i \in NamedRows : job[board[i]] = Absent => job'[board[i]] = Absent
      BY <1>4, <1>7
    <2>4. ReadSoFar' = ReadSoFar
      BY <1>1, <1>2 DEF ReadSoFar
    <2>5. (run.whole /\ run.calm /\ run.errors = <<>>) =>
            \A i \in NamedRows : i <= ReadSoFar => board[i] \in run.seen \/ job[board[i]] = Absent
      BY DEF CountInv, Counts, SeenInRun
    <2> QED BY <1>1, <1>2, <1>4, <1>6, <2>1, <2>2, <2>3, <2>4, <2>5 DEF SeenInRun
  <1> QED BY <1>4, <1>5, <1>8, <1>9 DEF Counts

LEMMA throwRunCounts ==
    ASSUME CountInv, NEW class \in ERROR_CLASS, NEW part \in SUBSET Posting,
           throwRun(class, part)
    PROVE  Counts'
  <1> DEFINE f == counted(part)
             ok == run.phase = "judging" => Credible
  <1>1. /\ UNCHANGED <<board, unposted, src, etag, task>> /\ Fault
        /\ run \in Run /\ run.phase \in {"fetching", "judging"}
        /\ part \subseteq IF run.phase = "judging" THEN Unseen ELSE {}
        /\ job' = [p \in Posting |-> IF Held(f[p], sourceOf[p])
                                     THEN observeSourceFailure(f[p]) ELSE job[p]]
        /\ run' = [run EXCEPT !.phase = "recording", !.errors = Noted(@, class),
                              !.credible = ok]
    BY CountTypes DEF throwRun
  <1> HIDE DEF ok
  <1>2. /\ run'.phase = "recording" /\ run'.complete = run.complete /\ run'.next = run.next
        /\ run'.errors = Noted(run.errors, class) /\ run'.leased = run.leased
        /\ run'.seen = run.seen /\ run'.calm = run.calm /\ run'.whole = run.whole
    BY <1>1 DEF Run
  <1>3. /\ part # {} => run.phase = "judging" /\ run.complete
        /\ \A p \in part : p \notin run.seen /\ job[p] # Absent
        /\ \A p \in Posting : /\ Coherent(f[p]) /\ OwnDoc(f[p], p)
                              /\ Misses(f[p]) \in Nat /\ Misses(f[p]) <= Misses(job[p]) + 1
                              /\ p \notin part => f[p] = job[p]
    BY <1>1, CountedRows
  <1> HIDE DEF f
  <1>4. ASSUME NEW p \in Posting
        PROVE  /\ OwnDoc(job'[p], p)
               /\ Misses(job'[p]) \in Nat /\ Misses(job'[p]) <= Misses(job[p]) + 1
               /\ p \notin part => Misses(job'[p]) = Misses(job[p])
               /\ job[p] = Absent => job'[p] = Absent
    <2>1. OwnDoc(job[p], p) /\ Misses(job[p]) \in Nat
      BY CountTypes
    <2>2. OwnDoc(observeSourceFailure(f[p]), p) /\ Misses(observeSourceFailure(f[p])) = Misses(f[p])
      BY <1>3, FailureKeeps
    <2>3. job'[p] = IF Held(f[p], sourceOf[p]) THEN observeSourceFailure(f[p]) ELSE job[p]
      BY <1>1
    <2>4. job[p] = Absent => ~Held(f[p], sourceOf[p])
      BY <1>3 DEF Held, Absent
    <2> QED BY <1>3, <2>1, <2>2, <2>3, <2>4
  <1>5. faults' > 0 /\ \A R : WithinFrom(R)'
    <2>1. \A p \in Posting : /\ Misses(job'[p]) \in Nat
                             /\ Misses(job'[p]) <= Misses(job[p]) + 1
                             /\ p \notin part => Misses(job'[p]) <= Misses(job[p])
      BY <1>4, CountTypes
    <2> QED BY <1>1, <1>3, <2>1, FaultyPart
  <1>6. run'.errors # <<>>
    BY <1>1, <1>2, NotedOne DEF Run
  <1>7. RunEnds'
    BY <1>1, <1>2, <1>5 DEF CountInv, Counts, RunEnds
  <1>8. MissBudget'
    BY <1>2, <1>5 DEF MissBudget
  <1>9. SeenInRun'
    <2>1. \A p \in unposted : p \in Posting /\ job[p] = Absent
      BY DEF CountInv, Counts, SeenInRun, IInv, TypeOK
    <2>2. \A p \in run.seen : p \in Posting /\ Misses(job[p]) = 0
      BY <1>1 DEF CountInv, Counts, SeenInRun, Run
    <2> QED BY <1>1, <1>2, <1>3, <1>4, <1>6, <2>1, <2>2 DEF SeenInRun
  <1> QED BY <1>4, <1>7, <1>8, <1>9 DEF Counts

LEMMA crashCounts ==
    ASSUME CountInv, NEW part \in SUBSET Posting, crash(part) PROVE Counts'
  <1>1. /\ UNCHANGED <<board, unposted, src, etag>> /\ Fault
        /\ part \subseteq IF run.phase = "judging" THEN Unseen ELSE {}
        /\ job' = counted(part) /\ run' = idleRun
        /\ task' = [task EXCEPT !.state = "QUEUED"]
    BY DEF crash
  <1>2. task'.state = "QUEUED"
    BY <1>1 DEF CountInv, IInv, TypeOK
  <1>3. /\ part # {} => run.phase = "judging" /\ run.complete
        /\ \A p \in part : job[p] # Absent
        /\ \A p \in Posting : /\ OwnDoc(job'[p], p)
                              /\ Misses(job'[p]) \in Nat /\ Misses(job'[p]) <= Misses(job[p]) + 1
                              /\ p \notin part => job'[p] = job[p]
    BY <1>1, CountedRows
  <1>4. \A R : WithinFrom(R)'
    <2>1. \A p \in Posting : /\ Misses(job'[p]) \in Nat
                             /\ Misses(job'[p]) <= Misses(job[p]) + 1
                             /\ p \notin part => Misses(job'[p]) <= Misses(job[p])
      BY <1>3, CountTypes
    <2> QED BY <1>1, <1>3, <2>1, FaultyPart
  <1>5. RunEnds'
    BY <1>1, <1>2, IdleFacts DEF RunEnds
  <1>6. MissBudget'
    BY <1>1, <1>4, IdleFacts DEF MissBudget
  <1>7. SeenInRun'
    <2>1. \A p \in unposted : p \in Posting /\ job[p] = Absent
      BY DEF CountInv, Counts, SeenInRun, IInv, TypeOK
    <2> QED BY <1>1, <1>3, <2>1, IdleFacts DEF SeenInRun
  <1> QED BY <1>3, <1>5, <1>6, <1>7 DEF Counts

LEMMA recordCounts ==
    ASSUME CountInv, record PROVE Counts'
  <1> DEFINE doc == recordRun(src, run.status, run.fetched, run.unchanged, run.errors,
                              run.credible, run.next)
  <1>1. /\ UNCHANGED <<board, unposted, job, task, faults>>
        /\ run \in Run /\ run.phase = "recording"
        /\ src' = IF \E i \in DOMAIN run.errors : run.errors[i] = "NOT_CONFIGURED"
                  THEN [doc EXCEPT !.status = "NOT_CONFIGURED"] ELSE doc
        /\ run' = [run EXCEPT !.phase = "settling"]
    BY CountTypes DEF record
  <1>2. /\ run'.phase = "settling" /\ run'.complete = run.complete /\ run'.next = run.next
        /\ run'.errors = run.errors /\ run'.leased = run.leased /\ run'.seen = run.seen
        /\ run'.calm = run.calm /\ run'.whole = run.whole
    BY <1>1 DEF Run
  <1>3. src'.cursor = run.next
    <2>1. /\ doc.cursor = run.next
          /\ [doc EXCEPT !.status = "NOT_CONFIGURED"].cursor = run.next
      BY DEF recordRun
    <2> HIDE DEF doc
    <2> QED BY <1>1, <2>1
  <1>4. RunEnds'
    BY <1>1, <1>2, <1>3 DEF CountInv, Counts, RunEnds
  <1>5. MissBudget'
    BY <1>1, <1>2, SameRows DEF CountInv, Counts, MissBudget
  <1>6. SeenInRun'
    <2>1. ReadSoFar' = ReadSoFar
      BY <1>1, <1>2 DEF ReadSoFar
    <2> QED BY <1>1, <1>2, <2>1, SameRows DEF CountInv, Counts, SeenInRun
  <1> QED BY <1>1, <1>4, <1>5, <1>6, SameRows DEF Counts

\* A whole run that met nothing has seen every row it did not find new.
LEMMA CleanRun ==
    ASSUME CountInv, run.phase \in {"judging", "recording", "settling"}, run.complete,
           run.whole, run.calm, run.errors = <<>>, NEW i \in NamedRows
    PROVE  MissesAt(i) = 0 /\ (board[i] \in run.seen \/ job[board[i]] = Absent)
  <1>1. i <= ReadSoFar
    BY CountTypes DEF NamedRows, ReadSoFar
  <1>2. board[i] \in run.seen \/ job[board[i]] = Absent
    BY <1>1 DEF CountInv, Counts, SeenInRun
  <1>3. Misses(Absent) = 0
    BY DEF Misses, Absent
  <1> QED BY <1>2, <1>3 DEF CountInv, Counts, SeenInRun, MissesAt

LEMMA settleCounts ==
    ASSUME CountInv, NEW gaveUp \in BOOLEAN, settle(gaveUp) PROVE Counts'
  <1>1. /\ UNCHANGED <<board, unposted, job, src, etag>>
        /\ run \in Run /\ run.phase = "settling" /\ run' = idleRun
        /\ task' = IF run.errors = <<>>
                   THEN IF run.partial THEN [state |-> "QUEUED", checkpoint |-> run.next]
                        ELSE noTask
                   ELSE IF gaveUp THEN noTask
                   ELSE [state |-> "QUEUED", checkpoint |-> run.leased]
        /\ faults' = IF Clean THEN 0 ELSE faults
    BY CountTypes DEF settle
  <1>2. /\ task'.state = "NONE" => task'.checkpoint = 0
        /\ \/ task'.checkpoint = 0 \/ task'.checkpoint = run.next
           \/ run.errors # <<>> /\ task'.checkpoint = run.leased
    BY <1>1 DEF noTask
  <1>3. /\ src.cursor = run.next /\ WithinFrom(run.next)
        /\ run.errors # <<>> => WithinFrom(run.leased)
    BY <1>1 DEF CountInv, Counts, RunEnds, MissBudget
  <1>4. WithinFrom(resumeOffset')
    BY <1>1, <1>2, <1>3 DEF resumeOffset
  <1>5. RunEnds'
    BY <1>1, <1>2, IdleFacts DEF RunEnds
  <1>6. NamedRows' = NamedRows /\ \A i \in NamedRows : MissesAt(i)' = MissesAt(i)
    BY <1>1 DEF NamedRows, MissesAt
  <1>7. WithinFrom(resumeOffset)'
    <2>1. CASE Clean
      <3>1. \A i \in NamedRows : MissesAt(i) = 0
        BY <1>1, <2>1, CleanRun DEF Clean
      <3> QED BY <1>1, <1>6, <2>1, <3>1 DEF WithinFrom
    <2>2. CASE ~Clean
      BY <1>1, <1>4, <1>6, <2>2 DEF WithinFrom
    <2> QED BY <2>1, <2>2
  <1>8. MissBudget'
    BY <1>1, <1>7, IdleFacts DEF MissBudget
  <1>9. SeenInRun'
    BY <1>1, IdleFacts DEF CountInv, Counts, SeenInRun
  <1>10. \A p \in Posting : OwnDoc(job'[p], p)
    BY <1>1, CountTypes
  <1> QED BY <1>5, <1>8, <1>9, <1>10 DEF Counts

\* A row of the board after a posting is the new one, or an old one that is at its
\* place or was just before it.
LEMMA PostedRows ==
    ASSUME CountInv, NEW p \in unposted, post(p), NEW i \in NamedRows'
    PROVE  /\ i \in Nat /\ i > 0
           /\ board'[i] = p \/ \E k \in NamedRows : k <= i /\ board[k] = board'[i]
  <1>1. p \in Posting /\ board \in Seq(Posting) /\ Len(board) \in Nat
    BY CountTypes DEF CountInv, IInv, TypeOK
  <1>2. i \in DOMAIN board' /\ board'[i] \notin Nameless
    BY DEF NamedRows
  <1>3. CASE board' = <<p>> \o board
    <2>1. /\ Len(board') = 1 + Len(board) /\ DOMAIN board' = 1 .. Len(board')
          /\ \A k \in 1 .. Len(board') : board'[k] = IF k <= 1 THEN <<p>>[k] ELSE board[k - 1]
      <3>1. <<p>> \in Seq(Posting) /\ Len(<<p>>) = 1
        BY <1>1
      <3> QED BY <1>1, <1>3, <3>1, ConcatProperties
    <2>2. CASE i = 1
      BY <2>1, <2>2
    <2>3. CASE i # 1
      <3>1. i - 1 \in DOMAIN board /\ board'[i] = board[i - 1] /\ i \in Nat /\ i > 0
        BY <1>1, <1>2, <2>1, <2>3
      <3> QED BY <1>2, <3>1 DEF NamedRows
    <2> QED BY <1>1, <1>2, <2>1, <2>2, <2>3
  <1>4. CASE board' = Append(board, p)
    <2>1. /\ Len(board') = Len(board) + 1 /\ DOMAIN board' = 1 .. Len(board')
          /\ \A k \in 1 .. Len(board) : board'[k] = board[k]
          /\ board'[Len(board) + 1] = p
      BY <1>1, <1>4, AppendProperties
    <2>2. i \in Nat /\ i > 0 /\ (i = Len(board) + 1 \/ i \in 1 .. Len(board))
      BY <1>1, <1>2, <2>1
    <2>3. CASE i \in 1 .. Len(board)
      <3>1. i \in DOMAIN board /\ board[i] = board'[i]
        BY <1>1, <2>1, <2>3
      <3> QED BY <1>2, <2>2, <3>1 DEF NamedRows
    <2> QED BY <2>1, <2>2, <2>3
  <1> QED BY <1>3, <1>4 DEF post

LEMMA postCounts ==
    ASSUME CountInv, NEW p \in unposted, post(p) PROVE Counts'
  <1>1. /\ UNCHANGED <<job, src, etag, task, run, faults>> /\ unposted' = unposted \ {p}
        /\ p \in Posting /\ job[p] = Absent
    BY DEF post, crawlVars, CountInv, Counts, SeenInRun, IInv, TypeOK
  <1>2. Misses(job[p]) = 0
    BY <1>1 DEF Misses, Absent
  <1>3. RunEnds' /\ resumeOffset' = resumeOffset
    BY <1>1 DEF CountInv, Counts, RunEnds, resumeOffset
  <1>4. ASSUME NEW i \in NamedRows'
        PROVE  /\ i \in Nat /\ i > 0
               /\ \/ board'[i] = p /\ MissesAt(i)' = 0
                  \/ \E k \in NamedRows : k \in Nat /\ k <= i /\ k <= Len(board)
                                          /\ board[k] = board'[i] /\ MissesAt(i)' = MissesAt(k)
    <2>1. /\ i \in Nat /\ i > 0
          /\ board'[i] = p \/ \E k \in NamedRows : k <= i /\ board[k] = board'[i]
      BY PostedRows
    <2>2. CASE board'[i] = p
      BY <1>1, <1>2, <2>1, <2>2 DEF MissesAt
    <2>3. CASE \E k \in NamedRows : k <= i /\ board[k] = board'[i]
      <3>1. PICK k \in NamedRows : k <= i /\ board[k] = board'[i]
        BY <2>3
      <3>2. k \in Nat /\ k <= Len(board)
        BY CountTypes DEF NamedRows
      <3>3. MissesAt(i)' = MissesAt(k)
        BY <1>1, <3>1 DEF MissesAt
      <3> QED BY <2>1, <3>1, <3>2, <3>3
    <2> QED BY <2>1, <2>2, <2>3
  <1>5. faults \in Nat /\ \A k \in NamedRows : MissesAt(k) \in Nat /\ MissesAt(k) <= faults + 1
    BY CountTypes, MissBound
  <1>6. ASSUME NEW R \in Nat, WithinFrom(R) PROVE WithinFrom(R)'
    BY <1>1, <1>4, <1>5, <1>6 DEF WithinFrom
  <1>7. ASSUME NEW R, WithinFrom(Len(board)) PROVE WithinFrom(R)'
    BY <1>1, <1>4, <1>5, <1>7 DEF WithinFrom
  <1>8. run.offset \in Nat /\ run.next \in Nat /\ run.leased \in Nat /\ resumeOffset \in Nat
    BY CountTypes DEF Run
  <1>9. MissBudget'
    <2>1. run.phase = "idle" => WithinFrom(resumeOffset)'
      BY <1>3, <1>6, <1>8 DEF CountInv, Counts, MissBudget
    <2>2. run.phase = "fetching" => WithinFrom(run.offset)'
      BY <1>1, <1>6, <1>8 DEF CountInv, Counts, MissBudget
    <2>3. run.phase = "judging" => WithinFrom(IF run.complete THEN Len(board) ELSE run.next)'
      BY <1>1, <1>6, <1>7, <1>8 DEF CountInv, Counts, MissBudget
    <2>4. run.phase \in {"recording", "settling"} =>
            WithinFrom(run.next)' /\ (run.errors # <<>> => WithinFrom(run.leased)')
      BY <1>1, <1>6, <1>8 DEF CountInv, Counts, MissBudget
    <2>5. ASSUME run.phase \in {"fetching", "judging"}, run.errors # <<>>
          PROVE  /\ WithinFrom(Len(board))'
                 /\ \A i \in NamedRows' : i <= run.leased => MissesAt(i)' < faults
      <3>1. /\ WithinFrom(Len(board)) /\ faults > 0
            /\ \A k \in NamedRows : k <= run.leased => MissesAt(k) < faults
        BY <2>5 DEF CountInv, Counts, MissBudget, RunEnds
      <3>2. WithinFrom(Len(board))'
        BY <1>7, <3>1 DEF WithinFrom
      <3> QED BY <1>4, <1>5, <1>8, <3>1, <3>2
    <2> QED BY <1>1, <2>1, <2>2, <2>3, <2>4, <2>5 DEF MissBudget
  <1>10. SeenInRun'
    <2>1. ASSUME run.whole, run.calm, run.errors = <<>>, NEW i \in NamedRows', i <= ReadSoFar'
          PROVE  board'[i] \in run.seen \/ job[board'[i]] = Absent
      <3>1. CASE board'[i] = p
        BY <1>1, <3>1
      <3>2. ASSUME NEW k \in NamedRows, k \in Nat, k <= i, k <= Len(board), board[k] = board'[i]
            PROVE  board'[i] \in run.seen \/ job[board'[i]] = Absent
        <4>1. k <= ReadSoFar
          <5>1. CASE run.phase = "fetching"
            BY <1>1, <1>4, <1>8, <2>1, <3>2, <5>1 DEF ReadSoFar
          <5>2. CASE run.phase # "fetching" /\ run.complete
            BY <3>2, <5>2 DEF ReadSoFar
          <5>3. CASE run.phase # "fetching" /\ ~run.complete
            <6>1. ReadSoFar' = 0 /\ i \in Nat /\ i > 0
              BY <1>1, <1>4, <5>3 DEF ReadSoFar
            <6> QED BY <2>1, <6>1
          <5> QED BY <5>1, <5>2, <5>3
        <4> QED BY <2>1, <3>2, <4>1 DEF CountInv, Counts, SeenInRun
      <3> QED BY <1>4, <3>1, <3>2
    <2> QED BY <1>1, <2>1 DEF CountInv, Counts, SeenInRun
  <1>11. \A q \in Posting : OwnDoc(job'[q], q)
    BY <1>1, CountTypes
  <1> QED BY <1>3, <1>9, <1>10, <1>11 DEF Counts

\* A row behind the withdrawn one moves up by one.
LEMMA ShiftedPlace ==
    ASSUME NEW i \in Int, NEW n \in Int, NEW l \in Int, 1 <= n,
           i > n - 1, i <= (n - 1) + (l - n)
    PROVE  /\ i - (n - 1) <= l - n /\ 1 <= i - (n - 1) /\ i - (n - 1) \in Int
           /\ n + (i - (n - 1)) \in 1 .. l
  OBVIOUS

\* A row of the board after a withdrawal was on it before.
LEMMA WithdrawnRows ==
    ASSUME CountInv, NEW p \in Posting, withdraw(p), NEW i \in NamedRows'
    PROVE  i \in Nat /\ i > 0 /\ \E k \in NamedRows : board[k] = board'[i]
  <1>1. board \in Seq(Posting) /\ Len(board) \in Nat
    BY CountTypes
  <1>2. PICK n \in DOMAIN board :
            board' = SubSeq(board, 1, n - 1) \o SubSeq(board, n + 1, Len(board))
    BY DEF withdraw
  <1>3. n \in 1 .. Len(board) /\ i \in DOMAIN board' /\ board'[i] \notin Nameless
    BY <1>1, <1>2 DEF NamedRows
  <1> DEFINE a == SubSeq(board, 1, n - 1)
             b == SubSeq(board, n + 1, Len(board))
  <1>4. /\ a \in Seq(Posting) /\ Len(a) = n - 1
        /\ \A k \in 1 .. n - 1 : a[k] = board[k]
    <2>1. \A k \in 1 .. n - 1 : board[k] \in Posting
      BY <1>1, <1>3
    <2> QED BY <1>1, <1>3, <2>1, SubSeqProperties
  <1>5. /\ b \in Seq(Posting) /\ Len(b) = Len(board) - n
        /\ \A k \in 1 .. Len(board) - n : b[k] = board[n + k]
    <2>1. \A k \in n + 1 .. Len(board) : board[k] \in Posting
      BY <1>1, <1>3
    <2>2. /\ b \in Seq(Posting)
          /\ Len(b) = IF n + 1 <= Len(board) THEN Len(board) - (n + 1) + 1 ELSE 0
          /\ \A k \in 1 .. Len(board) - (n + 1) + 1 : b[k] = board[(n + 1) + k - 1]
      BY <1>1, <1>3, <2>1, SubSeqProperties
    <2> HIDE DEF b
    <2>3. \A k \in 1 .. Len(board) - n : k \in 1 .. Len(board) - (n + 1) + 1 /\ (n + 1) + k - 1 = n + k
      BY <1>1, <1>3
    <2> QED BY <1>1, <1>3, <2>2, <2>3
  <1> HIDE DEF a, b
  <1>6. board' = a \o b
    BY <1>2 DEF a, b
  <1>7. /\ DOMAIN board' = 1 .. Len(a) + Len(b)
        /\ \A k \in 1 .. Len(a) + Len(b) : board'[k] = IF k <= Len(a) THEN a[k] ELSE b[k - Len(a)]
    BY <1>4, <1>5, <1>6, ConcatProperties
  <1>8. i \in Nat /\ i > 0
    BY <1>1, <1>3, <1>4, <1>5, <1>7
  <1>9. \E k \in DOMAIN board : board[k] = board'[i]
    <2>1. CASE i <= n - 1
      <3>1. i \in 1 .. n - 1 /\ i \in DOMAIN board /\ i <= Len(a) /\ i \in 1 .. Len(a) + Len(b)
        BY <1>1, <1>3, <1>4, <1>5, <1>8, <2>1
      <3>2. board'[i] = a[i] /\ a[i] = board[i]
        BY <1>4, <1>7, <3>1
      <3> QED BY <3>1, <3>2
    <2>2. CASE i > n - 1
      <3>1. ~(i <= Len(a)) /\ i - Len(a) = i - (n - 1) /\ i \in 1 .. Len(a) + Len(b)
            /\ i - (n - 1) \in 1 .. Len(board) - n /\ n + (i - (n - 1)) \in 1 .. Len(board)
        <4>1. i \in 1 .. Len(a) + Len(b)
          BY <1>3, <1>7
        <4>2. 1 <= n /\ n \in Int /\ i \in Int /\ Len(board) \in Int /\ Len(a) = n - 1 /\ Len(b) = Len(board) - n
          BY <1>1, <1>3, <1>4, <1>5, <1>8
        <4>3. i <= (n - 1) + (Len(board) - n)
          BY <4>1, <4>2
        <4>4. /\ i - (n - 1) <= Len(board) - n /\ 1 <= i - (n - 1) /\ i - (n - 1) \in Int
              /\ n + (i - (n - 1)) \in 1 .. Len(board)
          BY <2>2, <4>2, <4>3, ShiftedPlace
        <4>5. ~(i <= n - 1)
          BY <2>2, <4>2
        <4> QED BY <4>1, <4>2, <4>4, <4>5
      <3>2. board'[i] = b[i - (n - 1)]
        BY <1>7, <3>1
      <3>3. board'[i] = board[n + (i - (n - 1))]
        BY <1>5, <3>1, <3>2
      <3>4. n + (i - (n - 1)) \in DOMAIN board
        BY <1>1, <3>1
      <3> QED BY <3>3, <3>4
    <2> QED BY <1>3, <1>8, <2>1, <2>2
  <1> QED BY <1>3, <1>8, <1>9 DEF NamedRows

LEMMA withdrawCounts ==
    ASSUME CountInv, NEW p \in Posting, withdraw(p) PROVE Counts'
  <1>1. /\ UNCHANGED <<job, src, etag, task, unposted>>
        /\ run' = [run EXCEPT !.calm = run = idleRun] /\ run \in Run
        /\ IF Between THEN Fault ELSE UNCHANGED faults
    BY CountTypes DEF withdraw
  <1>2. /\ run'.phase = run.phase /\ run'.complete = run.complete /\ run'.next = run.next
        /\ run'.errors = run.errors /\ run'.leased = run.leased /\ run'.seen = run.seen
        /\ run'.whole = run.whole /\ run'.offset = run.offset
        /\ run'.calm <=> run = idleRun
    BY <1>1 DEF Run
  <1>3. run = idleRun => run' = run
    BY <1>1, <1>2, IdleFacts DEF idleRun
  <1>4. ASSUME NEW i \in NamedRows'
        PROVE  /\ i \in Nat /\ i > 0
               /\ MissesAt(i)' \in Nat /\ MissesAt(i)' <= faults + 1
               /\ WithinFrom(Len(board)) => MissesAt(i)' <= faults
    <2>1. i \in Nat /\ i > 0 /\ \E k \in NamedRows : board[k] = board'[i]
      BY WithdrawnRows
    <2>2. PICK k \in NamedRows : board[k] = board'[i]
      BY <2>1
    <2>3. MissesAt(i)' = MissesAt(k)
      BY <1>1, <2>2 DEF MissesAt
    <2>4. k <= Len(board) /\ MissesAt(k) \in Nat /\ MissesAt(k) <= faults + 1
      BY CountTypes, MissBound DEF NamedRows
    <2>5. WithinFrom(Len(board)) => MissesAt(k) <= faults
      BY <2>4 DEF WithinFrom
    <2> QED BY <2>1, <2>3, <2>4, <2>5
  <1>5. faults \in Nat
    BY CountTypes
  <1>6. RunEnds' /\ MissBudget'
    <2>1. CASE Between
      <3>1. faults' = faults + 1
        BY <1>1, <2>1 DEF Fault
      <3>2. \A R : WithinFrom(R)'
        BY <1>4, <1>5, <3>1 DEF WithinFrom
      <3>3. ASSUME run.phase \in {"fetching", "judging"}, run.errors # <<>>, NEW i \in NamedRows'
            PROVE  MissesAt(i)' < faults'
        <4>1. WithinFrom(Len(board))
          BY <3>3 DEF CountInv, Counts, MissBudget
        <4> QED BY <1>4, <1>5, <3>1, <4>1
      <3>4. MissBudget'
        BY <1>2, <3>2, <3>3 DEF MissBudget
      <3>5. RunEnds'
        <4>1. faults' > 0
          BY <1>5, <3>1
        <4>2. run'.phase = "idle" => run' = idleRun
          BY <1>2, <1>3 DEF CountInv, Counts, RunEnds
        <4> QED BY <1>1, <1>2, <4>1, <4>2 DEF CountInv, Counts, RunEnds
      <3> QED BY <3>4, <3>5
    <2>2. CASE ~Between
      <3>1. run = idleRun /\ run' = idleRun /\ resumeOffset' = 0 /\ faults' = faults
        BY <1>1, <1>3, <2>2 DEF Between, resumeOffset
      <3>2. WithinFrom(resumeOffset)'
        BY <1>4, <1>5, <3>1 DEF WithinFrom
      <3>3. RunEnds'
        BY <1>1, <3>1, IdleFacts DEF CountInv, Counts, RunEnds
      <3> QED BY <3>1, <3>2, <3>3, IdleFacts DEF MissBudget
    <2> QED BY <2>1, <2>2
  <1>7. SeenInRun'
    <2>1. ~(run'.whole /\ run'.calm)
      BY <1>2, IdleFacts
    <2> QED BY <1>1, <1>2, <2>1 DEF CountInv, Counts, SeenInRun
  <1>8. \A q \in Posting : OwnDoc(job'[q], q)
    BY <1>1, CountTypes
  <1> QED BY <1>6, <1>7, <1>8 DEF Counts

\* A step may stutter.
LEMMA NextCounts == CountInv /\ [Next]_vars => Counts'
  <1> SUFFICES ASSUME CountInv, [Next]_vars PROVE Counts'
    OBVIOUS
  <1>1. CASE UNCHANGED vars
    <2>1. resumeOffset' = resumeOffset /\ ReadSoFar' = ReadSoFar
      BY <1>1 DEF vars, resumeOffset, ReadSoFar
    <2>2. UNCHANGED <<board, unposted, job, src, etag, task, run, faults>>
      BY <1>1 DEF vars
    <2>3. RunEnds'
      BY <2>2 DEF CountInv, Counts, RunEnds
    <2>4. MissBudget'
      BY <2>1, <2>2, SameRows DEF CountInv, Counts, MissBudget
    <2>5. SeenInRun'
      BY <2>1, <2>2, SameRows DEF CountInv, Counts, SeenInRun
    <2> QED BY <2>2, <2>3, <2>4, <2>5, SameRows DEF Counts
  <1>2. CASE Next
    <2>1. CASE enqueue
      BY <2>1, enqueueCounts
    <2>2. CASE Crawl
      <3>1. CASE startRun
        BY <3>1, startRunCounts
      <3>2. ASSUME NEW bad, NEW stop \in BOOLEAN, NEW class \in {"SCHEMA_CHANGED", "PARSE_FAILED"},
                   fetchPage(bad, class, stop)
            PROVE  Counts'
        <4>1. class \in ERROR_CLASS
          BY DEF ERROR_CLASS
        <4> QED BY <3>2, <4>1, fetchPageCounts
      <3>3. CASE unmodifiedPage
        BY <3>3, unmodifiedPageCounts
      <3>4. CASE judge
        BY <3>4, judgeCounts
      <3>5. CASE record
        BY <3>5, recordCounts
      <3>6. ASSUME NEW gaveUp \in BOOLEAN, settle(gaveUp) PROVE Counts'
        BY <3>6, settleCounts
      <3> QED BY <2>2, <3>1, <3>2, <3>3, <3>4, <3>5, <3>6 DEF Crawl
    <2>3. ASSUME NEW class \in Failures, pageError(class) PROVE Counts'
      BY <2>3, pageErrorCounts, BoardCrawlAssumption
    <2>4. ASSUME NEW class \in Failures, NEW part \in SUBSET Posting, throwRun(class, part)
          PROVE  Counts'
      BY <2>4, throwRunCounts, BoardCrawlAssumption
    <2>5. ASSUME NEW part \in SUBSET Posting, crash(part) PROVE Counts'
      BY <2>5, crashCounts
    <2>6. ASSUME NEW p \in Posting, post(p) PROVE Counts'
      <3>1. p \in unposted
        BY <2>6 DEF post
      <3> QED BY <2>6, <3>1, postCounts
    <2>7. ASSUME NEW p \in Posting, withdraw(p) PROVE Counts'
      BY <2>7, withdrawCounts
    <2> QED BY <1>2, <2>1, <2>2, <2>3, <2>4, <2>5, <2>6, <2>7 DEF Next
  <1> QED BY <1>1, <1>2

LEMMA InitCounts == Init => Counts
  <1> SUFFICES ASSUME Init PROVE Counts
    OBVIOUS
  <1>1. /\ board = <<>> /\ unposted = Posting /\ job = [p \in Posting |-> Absent]
        /\ src.cursor = 0 /\ task = noTask /\ run = idleRun /\ faults = 0
    BY DEF Init
  <1>2. task.state = "NONE" /\ task.checkpoint = 0
    BY <1>1 DEF noTask
  <1>3. NamedRows = {}
    BY <1>1 DEF NamedRows
  <1>4. \A p \in Posting : OwnDoc(job[p], p)
    <2>1. Absent.insts = <<>>
      BY DEF Absent
    <2> QED BY <1>1, <2>1 DEF OwnDoc
  <1>5. RunEnds
    BY <1>1, <1>2, IdleFacts DEF RunEnds
  <1>6. MissBudget
    BY <1>1, <1>3, IdleFacts DEF MissBudget, WithinFrom
  <1>7. SeenInRun
    BY <1>1, IdleFacts DEF SeenInRun
  <1> QED BY <1>4, <1>5, <1>6, <1>7 DEF Counts

LEMMA CountInvariance == Spec => []CountInv
  <1>1. Init => CountInv
    BY InitIInv, InitCounts DEF CountInv
  <1>2. CountInv /\ [Next]_vars => CountInv'
    BY NextIInv, NextCounts DEF CountInv
  <1> QED BY <1>1, <1>2, PTL DEF Spec

\* Between two clean complete listings each fault costs a listed row one miss, and a
\* resumed run one more that no fault pays for; a threshold above both keeps the row:
\* a run that failed, resumed or was killed makes no listed row stale.
THEOREM LiveRowsNeverStale ==
    ASSUME MaxFaults + 1 < MissThreshold PROVE Spec => []LiveNeverStale
  <1>1. CountInv => LiveNeverStale
    <2> SUFFICES ASSUME CountInv, NEW p \in Listed, job[p].status = "STALE" PROVE FALSE
      BY DEF LiveNeverStale
    <2>1. PICK i \in DOMAIN board : board[i] = p /\ p \notin Nameless
      BY DEF Listed, RowsOf
    <2>2. i \in NamedRows /\ p \in Posting
      BY <2>1, CountTypes DEF NamedRows
    <2>3. MissesAt(i) <= faults + 1 /\ MissesAt(i) = Misses(job[p])
      BY <2>1, <2>2, MissBound DEF MissesAt
    <2>4. faults <= MaxFaults /\ faults \in Nat /\ MaxFaults \in Nat /\ MissThreshold \in Nat
      BY BoardCrawlAssumption, JobRecordAssumption DEF CountInv, IInv, TypeOK
    <2>5. job[p] # Absent
      BY DEF Absent
    <2>6. job[p].insts # <<>> /\ Misses(job[p]) = MissThreshold
      BY <2>2, <2>5, CountTypes DEF OwnDoc, Misses
    <2> QED BY <2>3, <2>4, <2>6
  <1> QED BY <1>1, CountInvariance, PTL

\* A run that began at the first row, on a board whose crawls met no fault since they
\* last were clean, has seen every row that was listed when it read past it, or found
\* it new: no miss is counted against a listed row (runSource, reconcileMissing).
THEOREM NoListedRowMissed == Spec => NoFalseMiss
  <1>1. CountInv /\ [Next]_vars =>
          [\A p \in Listed : MissRises(p) => faults > 0 \/ ~run.whole]_vars
    <2> SUFFICES ASSUME CountInv, [Next]_vars, NEW p \in Listed, MissRises(p),
                        ~(faults > 0), run.whole
                 PROVE  FALSE
      OBVIOUS
    <2>1. PICK i \in DOMAIN board : board[i] = p /\ p \notin Nameless
      BY DEF Listed, RowsOf
    <2>2. i \in NamedRows /\ p \in Posting
      BY <2>1, CountTypes DEF NamedRows
    <2>3. run.errors = <<>> /\ run.calm
      BY DEF CountInv, Counts, RunEnds
    <2>4. /\ run.phase = "judging" /\ Unseen # {} => run.complete
          /\ p \in Unseen => p \notin run.seen /\ job[p] # Absent
      BY DEF Unseen, MayReconcile, mayReconcileMissing, HeldRows, Held, Absent
    <2>5. p \notin (IF run.phase = "judging" THEN Unseen ELSE {})
      <3> SUFFICES ASSUME run.phase = "judging", p \in Unseen PROVE FALSE
        OBVIOUS
      <3>1. p \in run.seen \/ job[p] = Absent
        BY <2>1, <2>2, <2>3, <2>4, CleanRun
      <3> QED BY <2>4, <3>1
    <2>6. ~MissRises(p)
      <3>1. ASSUME Misses(job'[p]) <= Misses(job[p]), Misses(job'[p]) \in Nat PROVE ~MissRises(p)
        BY <2>2, <3>1, CountTypes DEF MissRises
      <3>2. ASSUME job'[p] = job[p] PROVE ~MissRises(p)
        BY <2>2, <3>1, <3>2, CountTypes
      <3>3. ASSUME NEW part \in SUBSET Posting,
                   part \subseteq IF run.phase = "judging" THEN Unseen ELSE {}
            PROVE  /\ counted(part)[p] = job[p]
                   /\ Misses(observeSourceFailure(counted(part)[p])) = Misses(job[p])
        <4>1. p \notin part
          BY <2>5, <3>3
        <4>2. counted(part)[p] = job[p]
          BY <2>2, <4>1 DEF counted
        <4> QED BY <2>2, <4>2, CountTypes, FailureKeeps
      <3>4. CASE UNCHANGED <<job>>
        BY <3>2, <3>4
      <3>5. CASE judge
        <4>1. job' = counted(Unseen) /\ run.phase = "judging" /\ Unseen \in SUBSET Posting
          BY <3>5, UnseenHeld DEF judge, HeldRows
        <4> QED BY <3>2, <3>3, <4>1
      <3>6. ASSUME NEW class, NEW part \in SUBSET Posting, throwRun(class, part) PROVE ~MissRises(p)
        <4>1. /\ part \subseteq IF run.phase = "judging" THEN Unseen ELSE {}
              /\ job'[p] = IF Held(counted(part)[p], sourceOf[p])
                           THEN observeSourceFailure(counted(part)[p]) ELSE job[p]
          BY <2>2, <3>6 DEF throwRun
        <4>2. Misses(job'[p]) = Misses(job[p])
          BY <3>3, <4>1
        <4> QED BY <2>2, <3>1, <4>2, CountTypes
      <3>7. ASSUME NEW part \in SUBSET Posting, crash(part) PROVE ~MissRises(p)
        BY <3>2, <3>3, <3>7 DEF crash
      <3>8. ASSUME NEW bad, NEW stop \in BOOLEAN, NEW class \in {"SCHEMA_CHANGED", "PARSE_FAILED"},
                   fetchPage(bad, class, stop)
            PROVE  ~MissRises(p)
        <4>1. job'[p] = IF p \in GoodRows(bad) THEN ingested(job[p], p) ELSE job[p]
          BY <2>2, <3>8 DEF fetchPage, GoodRows
        <4>2. Misses(ingested(job[p], p)) = 0
          BY <2>2, CountTypes, SeenForgets
        <4> QED BY <2>2, <3>1, <3>2, <4>1, <4>2, CountTypes
      <3>9. CASE Crawl
        BY <3>4, <3>5, <3>8, <3>9 DEF Crawl, startRun, unmodifiedPage, record, settle
      <3>10. CASE Next
        BY <3>4, <3>6, <3>7, <3>9, <3>10 DEF Next, enqueue, pageError, post, withdraw, crawlVars
      <3> QED BY <3>4, <3>10 DEF vars
    <2> QED BY <2>6
  <1> QED BY <1>1, CountInvariance, PTL DEF Spec, NoFalseMiss
=====
