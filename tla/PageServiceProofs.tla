-------------------------- MODULE PageServiceProofs --------------------------
(***************************************************************************)
(* Machine-checked proofs about PageService on the Postgres store, for     *)
(* every set of handlers, documents and keys and every bound, and about    *)
(* EditorSync: what an editor is told of its pending patches is true,      *)
(* however the handlers interleave with the reads of its resynchronisation.*)
(***************************************************************************)
EXTENDS EditorSync, SequenceTheorems, TLAPS

USE DEF KeyedOps, DraftOps, Ops

-------------------------------------------------------------------------------
(* Shapes of the records the handlers build. *)

(* A request that has just been read is a request. *)
LEMMA NewRequestType ==
  ASSUME NEW phase \in {"idle", "lookup", "read"}, NEW op \in Ops \cup {"none"},
         NEW base \in Nat, NEW key \in Keys \cup {NoKey},
         NEW doc \in Docs \cup {NoDoc}, NEW target \in Nat
  PROVE  NewRequest(phase, op, base, key, doc, target) \in Request
  BY DEF NewRequest, Request, NoPage, Page

(* So is a handler that has none. *)
LEMMA IdleType == Idle \in Request
  BY NewRequestType DEF Idle

(* An answered request is a request. *)
LEMMA AnswerType ==
  ASSUME NEW r \in Request,
         NEW outcome \in {"ok", "rebase", "archived", "error"},
         NEW no \in Nat
  PROVE  Answer(r, outcome, no) \in Request
  BY DEF Answer, NoPage, Request, Page

(* A handler that has committed and is about to append to the window. *)
LEMMA AppendingType ==
  ASSUME NEW r \in Request, NEW no \in Nat
  PROVE  [r EXCEPT !.phase = "append", !.no = no] \in Request
  BY DEF Request

(* The invariant holds before the page is created. *)
LEMMA InitInv == Init => IndInv
  <1> SUFFICES ASSUME Init PROVE IndInv
    OBVIOUS
  <1> USE ConstantsAssumption DEF Init
  <1>1. TypeOK
    BY IdleType
       DEF TypeOK, NoPage, Page, Revision, Event, ReplayEntry, IdemKeys
  <1>2. StoreInv
    BY DEF StoreInv, NumbersFollowAcceptance, NextRevisionNo, NoPage
  <1>3. BasedOnLatestDraft /\ IdemInv
    BY DEF BasedOnLatestDraft, IdemInv
  <1>4. ASSUME NEW p \in Procs PROVE RequestInv(req[p])
    BY DEF RequestInv, Idle, NewRequest, NoPage
  <1> QED
    BY <1>1, <1>2, <1>3, <1>4 DEF IndInv

-------------------------------------------------------------------------------
(* Steps that change one request and leave the store alone. *)

(* What every such step has to show: its new request record is well formed   *)
(* and what it claims to know is true.                                      *)
LEMMA RequestStep ==
  ASSUME IndInv, NEW p \in Procs, NEW r2 \in Request,
         page.status # "absent", RequestInv(r2),
         req' = [req EXCEPT ![p] = r2],
         UNCHANGED store, replay' \in Seq(ReplayEntry)
  PROVE  IndInv'
  <1> USE DEF IndInv, store
  <1>1. TypeOK'
    BY DEF TypeOK
  <1>2. StoreInv'
    BY DEF StoreInv, NumbersFollowAcceptance, NextRevisionNo
  <1>3. BasedOnLatestDraft' /\ IdemInv'
    BY DEF BasedOnLatestDraft, IdemInv
  <1>4. ASSUME NEW q \in Procs PROVE RequestInv(req[q])'
    <2>1. req'[q] = IF q = p THEN r2 ELSE req[q]
      BY DEF TypeOK
    <2>2. RequestInv(req'[q])
      BY <2>1
    <2> QED
      BY <2>2 DEF RequestInv
  <1> QED
    BY <1>1, <1>2, <1>3, <1>4

(* An active handler works on a page that exists. *)
LEMMA ActiveMeansPage ==
  ASSUME IndInv, NEW p \in Procs, req[p].phase # "idle"
  PROVE  page.status # "absent" /\ req[p] \in Request
  BY DEF IndInv, StoreInv, Idle, NewRequest, TypeOK

(* What holds of the row of a page that exists. *)
LEMMA PageFacts ==
  ASSUME IndInv, page.status # "absent"
  PROVE  /\ page \in Page /\ revs \in Seq(Revision) /\ Len(revs) \in Nat
         /\ page.draftNo \in Nat /\ page.publishedNo \in Nat
         /\ page.draftNo \in 1..Len(revs) /\ page.draftId = page.draftNo
         /\ page.publishedNo \in 0..Len(revs)
         /\ page.publishedId = page.publishedNo
         /\ revs[page.draftNo].kind = "draft"
         /\ \A i \in 1..Len(revs) : revs[i] \in Revision /\ revs[i].no = i
  <1>1. page \in Page /\ revs \in Seq(Revision)
    BY DEF IndInv, TypeOK
  <1>2. Len(revs) \in Nat /\ \A i \in 1..Len(revs) : revs[i] \in Revision
    BY <1>1
  <1>3. page.draftNo \in Nat /\ page.publishedNo \in Nat
    BY <1>1 DEF Page
  <1> QED
    BY <1>1, <1>2, <1>3 DEF IndInv, StoreInv, NumbersFollowAcceptance

(* A new request knows its base and nothing else. *)
LEMMA StartSteps ==
  ASSUME IndInv, NEW p \in Procs,
         StartDraftWrite(p) \/ StartPublishOrArchive(p) \/ StartRestore(p)
  PROVE  IndInv'
  <1>0. page.status # "absent" /\ UNCHANGED store /\ UNCHANGED replay
    BY DEF StartDraftWrite, StartPublishOrArchive, StartRestore, CanStart
  <1>a. replay' \in Seq(ReplayEntry)
    BY <1>0 DEF IndInv, TypeOK
  <1>b. page.draftNo \in Nat /\ Len(revs) \in Nat
    BY <1>0, PageFacts
  <1>1. CASE StartDraftWrite(p)
    <2>1. PICK op \in KeyedOps, b \in 1..page.draftNo, k \in Keys \cup {NoKey},
               d \in Docs :
            req' = [req EXCEPT ![p] =
                     NewRequest(IF k = NoKey THEN "read" ELSE "lookup",
                                op, b, k, d, 0)]
      BY <1>1 DEF StartDraftWrite
    <2> DEFINE r2 == NewRequest(IF k = NoKey THEN "read" ELSE "lookup",
                                op, b, k, d, 0)
    <2>2. r2 \in Request
      BY <1>b, NewRequestType
    <2>3. RequestInv(r2)
      BY <1>b, ConstantsAssumption DEF RequestInv, NewRequest
    <2> QED
      BY <1>0, <1>a, <2>1, <2>2, <2>3, RequestStep
  <1>2. CASE StartPublishOrArchive(p)
    <2>1. PICK op \in {"publish", "archive"}, b \in 1..page.draftNo :
            req' = [req EXCEPT ![p] = NewRequest("read", op, b, NoKey, NoDoc, 0)]
      BY <1>2 DEF StartPublishOrArchive
    <2> DEFINE r2 == NewRequest("read", op, b, NoKey, NoDoc, 0)
    <2>2. r2 \in Request
      BY <1>b DEF NewRequest, Request, NoPage, Page
    <2>3. RequestInv(r2)
      BY <1>b DEF RequestInv, NewRequest
    <2> QED
      BY <1>0, <1>a, <2>1, <2>2, <2>3, RequestStep
  <1>3. CASE StartRestore(p)
    <2>1. PICK t \in 1..Len(revs) :
            req' = [req EXCEPT ![p] =
                     NewRequest("read", "restore", 0, NoKey, NoDoc, t)]
      BY <1>3 DEF StartRestore
    <2> DEFINE r2 == NewRequest("read", "restore", 0, NoKey, NoDoc, t)
    <2>2. r2 \in Request
      BY <1>b DEF NewRequest, Request, NoPage, Page
    <2>3. RequestInv(r2)
      BY <1>b DEF RequestInv, NewRequest
    <2> QED
      BY <1>0, <1>a, <2>1, <2>2, <2>3, RequestStep
  <1> QED
    BY <1>1, <1>2, <1>3

(* A handler that gives an answer without touching the store. *)
LEMMA AnswerStep ==
  ASSUME IndInv, NEW p \in Procs, req[p].phase # "idle",
         NEW outcome \in {"ok", "rebase", "archived", "error"}, NEW no \in Nat,
         req' = [req EXCEPT ![p] = Answer(req[p], outcome, no)],
         UNCHANGED store, replay' \in Seq(ReplayEntry),
         outcome = "ok" /\ req[p].op # "archive" =>
           /\ no \in 1..Len(revs)
           /\ revs[no].via = req[p].op /\ revs[no].key = req[p].key,
         outcome = "rebase" /\ req[p].op # "collab" =>
           /\ no \in 1..Len(revs) /\ no > req[p].base
           /\ revs[no].kind = "draft"
  PROVE  IndInv'
  <1> DEFINE r2 == Answer(req[p], outcome, no)
  <1>1. page.status # "absent" /\ req[p] \in Request
    BY ActiveMeansPage
  <1>2. r2 \in Request
    BY <1>1, AnswerType
  <1>3. RequestInv(req[p])
    BY DEF IndInv
  <1>4. RequestInv(r2)
    BY <1>1, <1>3 DEF RequestInv, Answer
  <1> QED
    BY <1>1, <1>2, <1>4, RequestStep

(* The idempotency lookup: a recorded key leads to the revision that carries *)
(* it, a miss adds no knowledge.                                            *)
LEMMA LookupSteps ==
  ASSUME IndInv, NEW p \in Procs, LookupHit(p) \/ LookupMiss(p)
  PROVE  IndInv'
  <1> DEFINE r == req[p]
  <1>0. /\ r.phase = "lookup" /\ UNCHANGED store
        /\ replay' \in Seq(ReplayEntry)
        /\ r \in Request /\ RequestInv(r) /\ page.status # "absent"
    BY ActiveMeansPage DEF LookupHit, LookupMiss, IndInv, TypeOK
  <1>1. CASE LookupHit(p)
    <2>1. IdemKey(r) \in IdemKeys /\ IdemKey(r) = <<r.op, r.key>>
      BY <1>0, ConstantsAssumption DEF RequestInv, IdemKey, IdemKeys, Request
    <2>2. /\ idem[IdemKey(r)] \in 1..Len(revs)
          /\ revs[idem[IdemKey(r)]].via = r.op
          /\ revs[idem[IdemKey(r)]].key = r.key
          /\ revs[idem[IdemKey(r)]].no = idem[IdemKey(r)]
      BY <1>1, <2>1
         DEF LookupHit, IndInv, IdemInv, StoreInv, NumbersFollowAcceptance
    <2>3. idem[IdemKey(r)] \in Nat
      BY <2>2 DEF IndInv, TypeOK
    <2> QED
      BY <1>0, <1>1, <2>2, <2>3, AnswerStep DEF LookupHit
  <1>2. CASE LookupMiss(p)
    <2> DEFINE r2 == [r EXCEPT !.phase = "read"]
    <2>1. /\ r2 \in Request /\ r2.phase = "read" /\ r2.op = r.op
          /\ r2.base = r.base /\ r2.key = r.key /\ r2.doc = r.doc
          /\ r2.outcome = r.outcome /\ r2.target = r.target
      BY <1>0 DEF Request
    <2>2. req' = [req EXCEPT ![p] = r2]
      BY <1>2 DEF LookupMiss
    <2> HIDE DEF r2
    <2>3. RequestInv(r2)
      BY <1>0, <2>1, ConstantsAssumption DEF RequestInv, Request
    <2> QED
      BY <1>0, <2>1, <2>2, <2>3, RequestStep
  <1> QED
    BY <1>1, <1>2

(* GetPage and the checks on the row it returns. *)
LEMMA ReadPageSteps ==
  ASSUME IndInv, NEW p \in Procs,
         \/ ReadArchivedPage(p) \/ ReadStalePage(p) \/ ReadCurrentPage(p)
         \/ ReadPageToRestore(p) \/ ReadPageToArchive(p)
  PROVE  IndInv'
  <1> DEFINE r == req[p]
  <1>0. r.phase = "read" /\ UNCHANGED store /\ UNCHANGED replay
    BY DEF ReadArchivedPage, ReadStalePage, ReadCurrentPage, ReadPageToRestore,
           ReadPageToArchive
  <1>a. /\ page.status # "absent" /\ r \in Request /\ RequestInv(r)
        /\ replay' \in Seq(ReplayEntry)
    BY <1>0, ActiveMeansPage DEF IndInv, TypeOK
  <1>b. /\ page.draftNo \in Nat /\ page.draftNo >= 1
        /\ page.draftId = page.draftNo /\ page \in Page
        /\ page.publishedNo \in Nat /\ revs[page.draftNo].kind = "draft"
    BY <1>a, PageFacts
  <1>c. r.base \in Nat /\ r.base <= page.draftNo /\ r.outcome = "none"
    BY <1>0, <1>a DEF RequestInv, Request
  <1>1. CASE ReadArchivedPage(p)
    BY <1>0, <1>1, <1>a, AnswerStep DEF ReadArchivedPage
  <1>2. CASE ReadStalePage(p)
    <2>1. CASE r.op = "collab"
      BY <1>0, <1>2, <1>a, <1>b, <2>1, AnswerStep DEF ReadStalePage
    <2>2. CASE r.op # "collab"
      <3> DEFINE r2 == [r EXCEPT !.phase = "conflict"]
      <3>1. req' = [req EXCEPT ![p] = r2]
        BY <1>2, <2>2 DEF ReadStalePage
      <3>2. r2 \in Request
        BY <1>a DEF Request
      <3>3. r.base < page.draftNo
        BY <1>2, <1>b, <1>c DEF ReadStalePage, Stale
      <3>4. RequestInv(r2)
        BY <1>a, <1>c, <1>0, <3>3 DEF RequestInv, Request
      <3> QED
        BY <1>0, <1>a, <3>1, <3>2, <3>4, RequestStep
    <2> QED
      BY <2>1, <2>2
  <1>3. CASE ReadCurrentPage(p)
    <2> DEFINE r2 == [r EXCEPT !.phase = "base", !.seen = page]
    <2>1. req' = [req EXCEPT ![p] = r2]
      BY <1>3 DEF ReadCurrentPage
    <2>2. r2 \in Request
      BY <1>a, <1>b DEF Request
    <2>3. RequestInv(r2)
      BY <1>3, <1>a, <1>b, <1>c, <1>0
         DEF RequestInv, Request, ReadCurrentPage, Stale
    <2> QED
      BY <1>0, <1>a, <2>1, <2>2, <2>3, RequestStep
  <1>4. CASE ReadPageToRestore(p)
    <2> DEFINE r2 == [r EXCEPT !.phase = "base", !.seen = page,
                               !.base = page.draftNo]
    <2>1. req' = [req EXCEPT ![p] = r2]
      BY <1>4 DEF ReadPageToRestore
    <2>2. r2 \in Request
      BY <1>a, <1>b DEF Request
    <2>3. RequestInv(r2)
      BY <1>4, <1>a, <1>b, <1>c, <1>0
         DEF RequestInv, Request, ReadPageToRestore
    <2> QED
      BY <1>0, <1>a, <2>1, <2>2, <2>3, RequestStep
  <1>5. CASE ReadPageToArchive(p)
    <2>1. CASE page.status = "archived"
      BY <1>0, <1>5, <1>a, <1>b, <2>1, AnswerStep DEF ReadPageToArchive
    <2>2. CASE page.status # "archived"
      <3> DEFINE r2 == [r EXCEPT !.phase = "commit", !.seen = page]
      <3>1. req' = [req EXCEPT ![p] = r2]
        BY <1>5, <2>2 DEF ReadPageToArchive
      <3>2. r2 \in Request
        BY <1>a, <1>b DEF Request
      <3>3. RequestInv(r2)
        BY <1>5, <1>a, <1>b, <1>c, <1>0
           DEF RequestInv, Request, ReadPageToArchive, Stale
      <3> QED
        BY <1>0, <1>a, <3>1, <3>2, <3>3, RequestStep
    <2> QED
      BY <2>1, <2>2
  <1> QED
    BY <1>1, <1>2, <1>3, <1>4, <1>5

(* The second read: the revision found is a draft no older than the base. *)
LEMMA ReadRevisionSteps ==
  ASSUME IndInv, NEW p \in Procs, ReadDraftRevision(p) \/ ReadTargetRevision(p)
  PROVE  IndInv'
  <1> DEFINE r == req[p]
  <1>0. r.phase = "base" /\ UNCHANGED store /\ UNCHANGED replay
    BY DEF ReadDraftRevision, ReadTargetRevision
  <1>a. /\ page.status # "absent" /\ r \in Request /\ RequestInv(r)
        /\ replay' \in Seq(ReplayEntry)
    BY <1>0, ActiveMeansPage DEF IndInv, TypeOK
  <1>b. /\ page.draftNo \in Nat /\ page.draftNo \in 1..Len(revs)
        /\ page.draftId = page.draftNo /\ Len(revs) \in Nat
        /\ revs[page.draftNo].kind = "draft"
        /\ \A i \in 1..Len(revs) : revs[i] \in Revision
    BY <1>a, PageFacts
  <1>c. \A i \in 1..Len(revs) : revs[i].doc \in Docs
    BY <1>b DEF Revision
  <1>d. r.base \in Nat /\ r.base <= page.draftNo /\ r.base >= 1
    BY <1>0, <1>a DEF RequestInv, Request
  <1>1. CASE ReadDraftRevision(p)
    <2> DEFINE d == IF r.op = "publish" THEN revs[page.draftId].doc ELSE r.doc
               r2 == [r EXCEPT !.phase = "commit", !.baseId = page.draftId,
                               !.doc = d]
    <2>1. req' = [req EXCEPT ![p] = r2]
      BY <1>1 DEF ReadDraftRevision
    <2>2. d \in Docs \cup {NoDoc} /\ (r.op # "archive" => d \in Docs)
      BY <1>0, <1>1, <1>a, <1>b, <1>c DEF RequestInv, Request, ReadDraftRevision
    <2>3. r2 \in Request
      BY <1>a, <1>b, <2>2 DEF Request
    <2>4. RequestInv(r2)
      BY <1>1, <1>0, <1>a, <1>b, <1>d, <2>2
         DEF RequestInv, Request, ReadDraftRevision
    <2> QED
      BY <1>0, <1>a, <2>1, <2>3, <2>4, RequestStep
  <1>2. CASE ReadTargetRevision(p)
    <2> DEFINE d == revs[r.target].doc
               r2 == [r EXCEPT !.phase = "commit", !.baseId = r.seen.draftId,
                               !.doc = d]
    <2>1. req' = [req EXCEPT ![p] = r2]
      BY <1>2 DEF ReadTargetRevision
    <2>2. d \in Docs
      BY <1>0, <1>2, <1>a, <1>c DEF RequestInv, ReadTargetRevision
    <2>3. r.seen.draftId = r.base /\ revs[r.base].kind = "draft"
      BY <1>0, <1>2, <1>a DEF RequestInv, ReadTargetRevision
    <2>4. r2 \in Request
      BY <1>a, <1>d, <2>2, <2>3 DEF Request
    <2>5. RequestInv(r2)
      BY <1>2, <1>0, <1>a, <1>b, <1>d, <2>2, <2>3
         DEF RequestInv, Request, ReadTargetRevision
    <2> QED
      BY <1>0, <1>a, <2>1, <2>4, <2>5, RequestStep
  <1> QED
    BY <1>1, <1>2

(* A transaction that is rolled back, and the conflict answer after it. *)
LEMMA RejectSteps ==
  ASSUME IndInv, NEW p \in Procs,
         \/ RejectStale(p) \/ RejectDuplicate(p) \/ BuildConflictPayload(p)
         \/ ArchiveConflictReadFails(p)
  PROVE  IndInv'
  <1> DEFINE r == req[p]
  <1>0. /\ r.phase \in {"commit", "conflict"}
        /\ UNCHANGED store /\ UNCHANGED replay
    BY DEF RejectStale, RejectDuplicate, BuildConflictPayload,
           ArchiveConflictReadFails
  <1>a. /\ page.status # "absent" /\ r \in Request /\ RequestInv(r)
        /\ replay' \in Seq(ReplayEntry)
    BY <1>0, ActiveMeansPage DEF IndInv, TypeOK
  <1>b. /\ page.draftNo \in Nat /\ page.draftNo \in 1..Len(revs)
        /\ page.draftId = page.draftNo /\ Len(revs) \in Nat
        /\ revs[page.draftNo].kind = "draft"
        /\ revs[page.draftNo].no = page.draftNo
    BY <1>a, PageFacts
  <1>c. r.base \in Nat /\ r.base <= page.draftNo /\ r.seen.draftNo \in Nat
    BY <1>0, <1>a DEF RequestInv, Request, Page
  <1>1. CASE RejectStale(p)
    <2>1. CASE r.op = "collab"
      BY <1>0, <1>1, <1>a, <1>c, <2>1, AnswerStep DEF RejectStale
    <2>2. CASE r.op = "restore"
      BY <1>0, <1>1, <1>a, <2>2, AnswerStep DEF RejectStale
    <2>3. CASE r.op \notin {"collab", "restore"}
      <3> DEFINE r2 == [r EXCEPT !.phase = "conflict"]
      <3>1. req' = [req EXCEPT ![p] = r2]
        BY <1>1, <2>3 DEF RejectStale
      <3>2. r2 \in Request
        BY <1>a DEF Request
      <3>3. r.base < page.draftNo
        BY <1>1, <1>b, <1>c DEF RejectStale, Stale
      <3>4. RequestInv(r2)
        BY <1>1, <1>a, <1>b, <1>c, <3>3 DEF RequestInv, Request, RejectStale
      <3> QED
        BY <1>0, <1>a, <3>1, <3>2, <3>4, RequestStep
    <2> QED
      BY <2>1, <2>2, <2>3
  <1>2. CASE RejectDuplicate(p)
    BY <1>0, <1>2, <1>a, AnswerStep DEF RejectDuplicate
  <1>3. CASE BuildConflictPayload(p)
    <2>1. req' = [req EXCEPT ![p] = Answer(req[p], "rebase", page.draftNo)]
      BY <1>3, <1>b DEF BuildConflictPayload
    <2>2. page.draftNo > r.base
      BY <1>3, <1>a, <1>b, <1>c DEF BuildConflictPayload, RequestInv
    <2> QED
      BY <1>0, <1>a, <1>b, <2>1, <2>2, AnswerStep
  <1>4. CASE ArchiveConflictReadFails(p)
    BY <1>0, <1>4, <1>a, AnswerStep DEF ArchiveConflictReadFails
  <1> QED
    BY <1>1, <1>2, <1>3, <1>4

(* Trimming keeps a sequence of the same type. *)
LEMMA LastEntriesType ==
  ASSUME NEW S, NEW s \in Seq(S), NEW n \in Nat \ {0}
  PROVE  LastEntries(s, n) \in Seq(S)
  <1>1. CASE Len(s) > n
    <2>1. Len(s) - n + 1 \in 1..Len(s)
      BY <1>1
    <2>2. \A i \in (Len(s) - n + 1)..Len(s) : s[i] \in S
      BY <2>1
    <2>3. SubSeq(s, Len(s) - n + 1, Len(s)) \in Seq(S)
      BY <2>1, <2>2
    <2> QED
      BY <1>1, <2>3 DEF LastEntries
  <1>2. CASE ~(Len(s) > n)
    BY <1>2 DEF LastEntries
  <1> QED
    BY <1>1, <1>2

(* After the commit: the replay window, the answer, or no answer at all. *)
LEMMA FinishSteps ==
  ASSUME IndInv, NEW p \in Procs,
         RecordReplayWindow(p) \/ Reply(p) \/ Abort(p)
  PROVE  IndInv'
  <1> DEFINE r == req[p]
  <1>0. r.phase # "idle" /\ UNCHANGED store
    BY DEF RecordReplayWindow, Reply, Abort
  <1>a. page.status # "absent" /\ r \in Request /\ RequestInv(r)
    BY <1>0, ActiveMeansPage DEF IndInv
  <1>1. CASE RecordReplayWindow(p)
    <2> DEFINE entry == [no |-> r.no, op |-> r.op,
                         patch |-> IF r.op = "collab" THEN r.key ELSE NoKey]
    <2>1. r.phase = "append" /\ r.op \in Ops
      BY <1>1, <1>a DEF RecordReplayWindow, RequestInv, Request
    <2>2. entry \in ReplayEntry
      BY <1>a, <2>1 DEF ReplayEntry, Request
    <2> HIDE DEF entry
    <2>4. replay \in Seq(ReplayEntry) /\ Len(replay) \in Nat
      BY DEF IndInv, TypeOK
    <2>5. ASSUME NEW expired \in 0..(IF ReplayStore = "memory"
                                     THEN Len(replay) ELSE 0)
          PROVE  LastEntries(
                   Append(SubSeq(replay, expired + 1, Len(replay)), entry),
                   ReplayLimit) \in Seq(ReplayEntry)
      <3>1. expired \in 0..Len(replay)
        BY <2>4
      <3>2. SubSeq(replay, expired + 1, Len(replay)) \in Seq(ReplayEntry)
        <4>1. \A i \in (expired + 1)..Len(replay) : replay[i] \in ReplayEntry
          BY <2>4, <3>1
        <4>2. expired + 1 \in Int /\ Len(replay) \in Int
          BY <2>4, <3>1
        <4> QED
          BY <4>1, <4>2, SubSeqProperties
      <3>3. Append(SubSeq(replay, expired + 1, Len(replay)), entry)
              \in Seq(ReplayEntry)
        BY <2>2, <3>2, AppendProperties
      <3> QED
        BY <3>3, LastEntriesType, ConstantsAssumption
    <2>7. replay' \in Seq(ReplayEntry)
      BY <1>1, <2>4, <2>5 DEF RecordReplayWindow, entry
    <2>8. req' = [req EXCEPT ![p] = Answer(r, "ok", r.no)]
      BY <1>1 DEF RecordReplayWindow
    <2>9. /\ r.no \in Nat
          /\ r.op # "archive" =>
               /\ r.no \in 1..Len(revs)
               /\ revs[r.no].via = r.op
               /\ revs[r.no].key = r.key
      BY <1>a, <2>1 DEF RequestInv, Request
    <2> QED
      BY <1>0, <2>7, <2>8, <2>9, AnswerStep
  <1>2. CASE Reply(p) \/ Abort(p)
    <2>1. req' = [req EXCEPT ![p] = Idle] /\ replay' \in Seq(ReplayEntry)
      BY <1>2 DEF Reply, Abort, IndInv, TypeOK
    <2>2. RequestInv(Idle)
      BY DEF RequestInv, Idle, NewRequest
    <2> QED
      BY <1>0, <1>a, <2>1, <2>2, IdleType, RequestStep
  <1> QED
    BY <1>1, <1>2

(* The expiry of the replay window concerns nothing else. *)
LEMMA ExpireStep ==
  ASSUME IndInv, ExpireReplayWindow
  PROVE  IndInv'
  <1> USE DEF ExpireReplayWindow, store, IndInv
  <1>1. TypeOK'
    BY DEF TypeOK
  <1>2. StoreInv' /\ BasedOnLatestDraft' /\ IdemInv'
    BY DEF StoreInv, NumbersFollowAcceptance, NextRevisionNo,
           BasedOnLatestDraft, IdemInv
  <1>3. ASSUME NEW q \in Procs PROVE RequestInv(req[q])'
    BY DEF RequestInv
  <1> QED
    BY <1>1, <1>2, <1>3

-------------------------------------------------------------------------------
(* The transactions, on the Postgres store. *)

(* A transaction that passes the conditional UPDATE and the constraint on  *)
(* revision numbers uses the next number, although it computed it from a   *)
(* row it had read earlier, and its base is the current draft.             *)
LEMMA CommitIsCurrent ==
  ASSUME IndInv, Store = "postgres", NEW p \in Procs,
         req[p].phase = "commit", req[p].op # "archive",
         ~Stale(req[p]), ~DuplicateNo(NextRevisionNo(req[p].seen))
  PROVE  /\ NextRevisionNo(req[p].seen) = Len(revs) + 1
         /\ req[p].baseId = page.draftNo
         /\ req[p].base = page.draftNo
         /\ req[p].doc \in Docs
         /\ req[p].op = "publish" => req[p].doc = revs[page.draftNo].doc
  <1> DEFINE r == req[p]
             no == NextRevisionNo(r.seen)
  <1>1. page.status # "absent" /\ r \in Request /\ RequestInv(r)
    BY ActiveMeansPage DEF IndInv
  <1>2. /\ Len(revs) \in Nat /\ page.draftNo \in Nat /\ page.publishedNo \in Nat
        /\ \A i \in 1..Len(revs) : revs[i].no = i
    BY <1>1, PageFacts
  <1>3. /\ r.base = page.draftNo /\ r.base \in Nat
        /\ r.seen.draftNo = r.base
        /\ r.seen.publishedNo \in Nat
        /\ r.seen.publishedNo <= page.publishedNo
        /\ r.baseId \in Nat /\ r.baseId \in r.base..page.draftNo
    BY <1>1 DEF RequestInv, Stale, Request, Page
  <1>4. no \in Nat /\ no >= 1 /\ no <= Len(revs) + 1
    BY <1>2, <1>3 DEF NextRevisionNo, IndInv, StoreInv, NumbersFollowAcceptance
  <1>5. no \notin 1..Len(revs)
    BY <1>2, <1>4 DEF DuplicateNo
  <1>6. no = Len(revs) + 1
    BY <1>2, <1>4, <1>5
  <1>7. r.baseId = page.draftNo
    BY <1>2, <1>3
  <1>8. r.doc \in Docs /\ (r.op = "publish" => r.doc = revs[page.draftNo].doc)
    BY <1>1, <1>7 DEF RequestInv
  <1> QED
    BY <1>3, <1>6, <1>7, <1>8

(* What a handler knows stays true when a revision is added and no head    *)
(* moves backwards.                                                        *)
LEMMA KnowledgeIsMonotone ==
  ASSUME IndInv, NEW q \in Procs, NEW rev \in Revision,
         page.status # "absent",
         revs' = Append(revs, rev), req'[q] = req[q],
         page'.draftNo \in Nat, page'.publishedNo \in Nat,
         page'.draftNo >= page.draftNo, page'.publishedNo >= page.publishedNo
  PROVE  RequestInv(req[q])'
  <1> DEFINE r == req[q]
  <1>1. /\ Len(revs) \in Nat /\ page.draftNo \in Nat /\ page.publishedNo \in Nat
        /\ page.draftNo \in 1..Len(revs)
        /\ revs \in Seq(Revision)
    BY PageFacts
  <1>2. r \in Request /\ RequestInv(r)
    BY DEF IndInv, TypeOK
  <1>3. /\ Len(revs') = Len(revs) + 1
        /\ \A i \in 1..Len(revs) : revs'[i] = revs[i]
    BY <1>1, AppendProperties
  <1>4. r.base \in Nat /\ r.baseId \in Nat /\ r.no \in Nat /\ r.target \in Nat
        /\ r.seen.draftNo \in Nat /\ r.seen.publishedNo \in Nat
    BY <1>2 DEF Request, Page
  <1> HIDE DEF r
  <1>a. r.phase = "idle" \/ r.base <= page'.draftNo
    BY <1>1, <1>2, <1>4 DEF RequestInv
  <1>b. r.op = "restore" /\ r.phase \in {"read", "base"} =>
          r.target \in 1..Len(revs')
    BY <1>1, <1>2, <1>3, <1>4 DEF RequestInv
  <1>c. r.phase \in {"base", "commit"} =>
          /\ r.seen.status # "absent"
          /\ r.seen.draftNo = r.base
          /\ r.seen.draftId = r.seen.draftNo
          /\ r.seen.draftNo >= 1
          /\ r.seen.publishedNo <= page'.publishedNo
          /\ r.op = "restore" => revs'[r.seen.draftNo].kind = "draft"
    BY <1>1, <1>2, <1>3, <1>4 DEF RequestInv
  <1>d. r.phase = "commit" /\ r.op # "archive" =>
          /\ r.baseId \in r.base..page'.draftNo
          /\ revs'[r.baseId].kind = "draft"
          /\ r.doc \in Docs
          /\ r.op = "publish" => r.doc = revs'[r.baseId].doc
    BY <1>1, <1>2, <1>3, <1>4 DEF RequestInv
  <1>e. r.phase \in {"append", "reply"} /\ r.op # "archive"
          /\ (r.phase = "append" \/ r.outcome = "ok") =>
            /\ r.no \in 1..Len(revs')
            /\ revs'[r.no].via = r.op
            /\ revs'[r.no].key = r.key
    BY <1>1, <1>2, <1>3, <1>4 DEF RequestInv
  <1>f. r.outcome = "rebase" /\ r.op # "collab" =>
          /\ r.no \in 1..Len(revs')
          /\ r.no > r.base
          /\ revs'[r.no].kind = "draft"
    BY <1>1, <1>2, <1>3, <1>4 DEF RequestInv
  <1>g. r.phase = "conflict" => r.base < page'.draftNo
    BY <1>1, <1>2, <1>4 DEF RequestInv
  <1>h. req'[q] = r
    BY DEF r
  <1> QED
    BY ZenonT(30), <1>2, <1>a, <1>b, <1>c, <1>d, <1>e, <1>f, <1>g, <1>h DEF RequestInv

(* A transaction that adds a revision with the next number, based on the   *)
(* current draft, and moves one head to it.                                *)
LEMMA CommitStep ==
  ASSUME IndInv, NEW p \in Procs, req[p].phase = "commit",
         req[p].op # "archive",
         NEW rev \in Revision, rev.no = Len(revs) + 1,
         rev.base = page.draftNo, rev.from = page.draftNo,
         rev.via = req[p].op, rev.key = req[p].key,
         rev.kind = "published" => rev.doc = revs[page.draftNo].doc,
         revs' = Append(revs, rev),
         page' \in Page, page'.status # "absent",
         rev.kind = "draft" =>
           /\ page'.draftNo = Len(revs) + 1 /\ page'.draftId = Len(revs) + 1
           /\ page'.publishedNo = page.publishedNo
           /\ page'.publishedId = page.publishedId,
         rev.kind = "published" =>
           /\ page'.publishedNo = Len(revs) + 1
           /\ page'.publishedId = Len(revs) + 1
           /\ page'.draftNo = page.draftNo /\ page'.draftId = page.draftId,
         \/ idem' = idem
         \/ \E k \in IdemKeys : /\ idem' = [idem EXCEPT ![k] = Len(revs) + 1]
                                /\ k = <<rev.via, rev.key>>,
         outbox' \in Seq(Event), UNCHANGED replay,
         req' = [req EXCEPT ![p] = [req[p] EXCEPT !.phase = "append",
                                                  !.no = Len(revs) + 1]]
  PROVE  IndInv'
  <1> DEFINE r == req[p]
             n == Len(revs) + 1
             r2 == [r EXCEPT !.phase = "append", !.no = n]
  <1>1. page.status # "absent" /\ r \in Request /\ RequestInv(r)
    BY ActiveMeansPage DEF IndInv
  <1>2. /\ page \in Page /\ revs \in Seq(Revision) /\ Len(revs) \in Nat
        /\ page.draftNo \in Nat /\ page.publishedNo \in Nat
        /\ page.draftNo \in 1..Len(revs) /\ page.draftId = page.draftNo
        /\ page.publishedNo \in 0..Len(revs)
        /\ page.publishedId = page.publishedNo
        /\ revs[page.draftNo].kind = "draft"
    BY <1>1, PageFacts
  <1>3. /\ Len(revs') = n /\ revs'[n] = rev /\ revs' \in Seq(Revision)
        /\ \A i \in 1..Len(revs) : revs'[i] = revs[i]
    BY <1>2, AppendProperties
  <1>4. page'.draftNo \in Nat /\ page'.publishedNo \in Nat
    BY DEF Page
  <1>5. rev.kind \in {"draft", "published"}
    BY DEF Revision
  <1>6. page'.draftNo >= page.draftNo /\ page'.publishedNo >= page.publishedNo
    BY <1>2, <1>5
  <1>7. TypeOK'
    <2>1. idem' \in [IdemKeys -> Nat]
      BY <1>2 DEF IndInv, TypeOK
    <2>2. r2 \in Request
      <3>1. n \in Nat
        BY <1>2
      <3> HIDE DEF n
      <3> QED
        BY <1>1, <3>1, AppendingType
    <2>3. req' \in [Procs -> Request]
      BY <2>2 DEF IndInv, TypeOK
    <2>4. replay' \in Seq(ReplayEntry)
      BY DEF IndInv, TypeOK
    <2> QED
      BY <1>3, <2>1, <2>3, <2>4 DEF TypeOK
  <1>8. StoreInv'
    <2>1. \A i \in 1..n : revs'[i].no = i
      BY <1>2, <1>3 DEF IndInv, StoreInv, NumbersFollowAcceptance
    <2>2. NextRevisionNo(page)' = n + 1
      BY <1>2, <1>4, <1>5 DEF NextRevisionNo
    <2>3. \A i \in 1..n :
            /\ revs'[i].kind = "draft" => i <= page'.draftNo
            /\ revs'[i].kind = "published" => i <= page'.publishedNo
      <3>1. ASSUME NEW i \in 1..Len(revs)
            PROVE  /\ revs'[i].kind = "draft" => i <= page'.draftNo
                   /\ revs'[i].kind = "published" => i <= page'.publishedNo
        BY <1>2, <1>3, <1>4, <1>6 DEF IndInv, StoreInv
      <3>2. /\ revs'[n].kind = "draft" => n <= page'.draftNo
            /\ revs'[n].kind = "published" => n <= page'.publishedNo
        BY <1>2, <1>3
      <3> QED
        BY <1>2, <3>1, <3>2
    <2>4. /\ page'.draftNo \in 1..n /\ page'.draftId = page'.draftNo
          /\ page'.publishedNo \in 0..n /\ page'.publishedId = page'.publishedNo
      BY <1>2, <1>5
    <2>5. /\ revs'[page'.draftNo].kind = "draft"
          /\ page'.publishedNo # 0 => revs'[page'.publishedNo].kind = "published"
      <3>1. page.publishedNo # 0 => revs[page.publishedNo].kind = "published"
        BY <1>1 DEF IndInv, StoreInv
      <3> QED
        BY <1>2, <1>3, <1>5, <3>1
    <2>6. NumbersFollowAcceptance'
      BY <1>3, <2>1, <2>2 DEF NumbersFollowAcceptance
    <2> HIDE DEF n
    <2> QED
      BY <1>3, <2>3, <2>4, <2>5, <2>6 DEF StoreInv
  <1>9. BasedOnLatestDraft'
    <2>1. ASSUME NEW i \in 2..n
          PROVE  /\ revs'[i].base \in 1..(i - 1)
                 /\ revs'[revs'[i].base].kind = "draft"
                 /\ revs'[revs'[i].base].no = revs'[i].from
                 /\ \A j \in (revs'[i].base + 1)..(i - 1) : revs'[j].kind # "draft"
                 /\ revs'[i].kind = "published" =>
                      revs'[i].doc = revs'[revs'[i].base].doc
      <3>1. CASE i = n
        <4>1. revs'[i] = rev /\ rev.base = page.draftNo
          BY <1>3, <3>1
        <4>3. revs'[page.draftNo].no = rev.from
          BY <1>2, <1>3 DEF IndInv, StoreInv, NumbersFollowAcceptance
        <4>2. \A j \in (page.draftNo + 1)..(n - 1) : revs'[j].kind # "draft"
          BY <1>2, <1>3 DEF IndInv, StoreInv
        <4> QED
          BY <1>2, <1>3, <3>1, <4>1, <4>2, <4>3
      <3>2. CASE i # n
        <4>1. i \in 2..Len(revs)
          BY <1>2, <3>2
        <4>2. revs'[i] = revs[i]
          BY <1>2, <1>3, <4>1
        <4>3. /\ revs[i].base \in 1..(i - 1)
              /\ revs[revs[i].base].kind = "draft"
              /\ revs[revs[i].base].no = revs[i].from
              /\ \A j \in (revs[i].base + 1)..(i - 1) : revs[j].kind # "draft"
              /\ revs[i].kind = "published" => revs[i].doc = revs[revs[i].base].doc
          BY <4>1 DEF IndInv, BasedOnLatestDraft
        <4>4. \A j \in 1..(i - 1) : revs'[j] = revs[j]
          BY <1>2, <1>3, <4>1
        <4>5. \A j \in (revs[i].base + 1)..(i - 1) : j \in 1..(i - 1)
          BY <4>1, <4>3
        <4> QED
          BY <4>2, <4>3, <4>4, <4>5
      <3> QED
        BY <3>1, <3>2
    <2> QED
      BY <1>3, <2>1 DEF BasedOnLatestDraft
  <1>10. IdemInv'
    <2>1. ASSUME NEW k \in IdemKeys, idem'[k] # 0
          PROVE  /\ idem'[k] \in 1..n
                 /\ revs'[idem'[k]].via = k[1]
                 /\ revs'[idem'[k]].key = k[2]
      <3>1. CASE idem'[k] = idem[k]
        BY <1>2, <1>3, <2>1, <3>1 DEF IndInv, IdemInv
      <3>2. CASE idem'[k] # idem[k]
        <4>1. k = <<rev.via, rev.key>> /\ idem'[k] = n
          BY <3>2 DEF IndInv, TypeOK
        <4> QED
          BY <1>2, <1>3, <4>1
      <3> QED
        BY <3>1, <3>2
    <2> QED
      BY <1>3, <2>1 DEF IdemInv
  <1>11. ASSUME NEW q \in Procs PROVE RequestInv(req[q])'
    <2>1. CASE q = p
      <3>1. req'[q] = r2
        BY <2>1 DEF IndInv, TypeOK
      <3>2. /\ r2.phase = "append" /\ r2.no = n /\ r2.op = r.op
            /\ r2.outcome = r.outcome /\ r2.base = r.base /\ r2.key = r.key
            /\ r2.doc = r.doc
        BY <1>1 DEF Request
      <3>3. /\ r.op # "none" /\ r.outcome = "none" /\ r.base <= page'.draftNo
            /\ r.key # NoKey => r.op \in KeyedOps
            /\ r.op \in KeyedOps => r.doc \in Docs
        BY <1>1, <1>2, <1>4, <1>6 DEF RequestInv, Request
      <3>4. n \in 1..n /\ revs'[n].via = r.op /\ revs'[n].key = r.key
        BY <1>2, <1>3
      <3> HIDE DEF r2
      <3> QED
        BY <1>3, <3>1, <3>2, <3>3, <3>4 DEF RequestInv
    <2>2. CASE q # p
      <3>1. req'[q] = req[q]
        BY <2>2 DEF IndInv, TypeOK
      <3> QED
        BY <1>1, <1>4, <1>6, <3>1, KnowledgeIsMonotone
    <2> QED
      BY <2>1, <2>2
  <1> QED
    BY <1>7, <1>8, <1>9, <1>10, <1>11 DEF IndInv

(* Creation: the first revision of the page. *)
LEMMA CreateStep ==
  ASSUME IndInv, CreatePage
  PROVE  IndInv'
  <1> DEFINE pg == [NoPage EXCEPT !.status = "draft", !.draftId = 1,
                                  !.draftNo = 1]
  <1>1. PICK d \in Docs :
          revs' = <<[no |-> 1, kind |-> "draft", base |-> 0, from |-> 0,
                     doc |-> d, via |-> "create", key |-> NoKey]>>
    BY DEF CreatePage
  <1>2. page' = pg
    BY DEF CreatePage
  <1>3. /\ page'.status = "draft" /\ page'.draftId = 1 /\ page'.draftNo = 1
        /\ page'.publishedId = 0 /\ page'.publishedNo = 0 /\ page' \in Page
    BY <1>2 DEF NoPage, Page
  <1>4. revs = <<>> /\ req = [p \in Procs |-> Idle] /\ UNCHANGED <<idem, replay, req>>
    BY DEF CreatePage, IndInv, StoreInv
  <1>5. revs' \in Seq(Revision) /\ Len(revs') = 1 /\ revs'[1].kind = "draft"
        /\ revs'[1].no = 1
    BY <1>1 DEF Revision
  <1>6. outbox' \in Seq(Event)
    <2>1. /\ [type |-> "page.created", rev |-> 1] \in Event
          /\ [type |-> "page.draft.saved", rev |-> 1] \in Event
      BY DEF Event
    <2>2. ReferenceEvents(1) \in Seq(Event)
      BY DEF ReferenceEvents, Event
    <2>3. <<[type |-> "page.created", rev |-> 1],
            [type |-> "page.draft.saved", rev |-> 1]>> \in Seq(Event)
      BY <2>1
    <2> QED
      BY <2>2, <2>3, ConcatProperties DEF CreatePage
  <1>7. TypeOK'
    BY <1>3, <1>4, <1>5, <1>6 DEF IndInv, TypeOK
  <1>8. StoreInv'
    BY <1>3, <1>5 DEF StoreInv, NumbersFollowAcceptance, NextRevisionNo
  <1>9. BasedOnLatestDraft'
    BY <1>5 DEF BasedOnLatestDraft
  <1>10. IdemInv'
    <2>1. \A k \in IdemKeys : idem[k] = 0
      BY <1>4 DEF IndInv, IdemInv
    <2> QED
      BY <1>4, <2>1 DEF IdemInv
  <1>11. ASSUME NEW q \in Procs PROVE RequestInv(req[q])'
    <2>1. req'[q] = Idle
      BY <1>4
    <2> QED
      BY <2>1 DEF RequestInv, Idle, NewRequest
  <1> QED
    BY <1>7, <1>8, <1>9, <1>10, <1>11 DEF IndInv

(* The records of a transaction are events. *)
LEMMA OutboxType ==
  ASSUME IndInv, NEW e \in Event, NEW id \in Nat
  PROVE  Append(outbox, e) \o ReferenceEvents(id) \in Seq(Event)
  <1>1. ReferenceEvents(id) \in Seq(Event)
    BY DEF ReferenceEvents, Event
  <1>2. Append(outbox, e) \in Seq(Event)
    BY AppendProperties DEF IndInv, TypeOK
  <1> QED
    BY <1>1, <1>2, ConcatProperties

(* The transaction of autosave, collaborative commit and restore. *)
LEMMA SaveDraftStep ==
  ASSUME IndInv, Store = "postgres", NEW p \in Procs, SaveDraftRevision(p)
  PROVE  IndInv'
  <1> DEFINE r == req[p]
             n == Len(revs) + 1
             rev == [no |-> n, kind |-> "draft", base |-> r.baseId,
                     from |-> r.base, doc |-> r.doc, via |-> r.op, key |-> r.key]
  <1>1. /\ r.phase = "commit" /\ r.op \in DraftOps
        /\ ~Stale(r) /\ ~DuplicateNo(NextRevisionNo(r.seen))
    BY DEF SaveDraftRevision
  <1>2. page.status # "absent" /\ r \in Request /\ RequestInv(r)
    BY <1>1, ActiveMeansPage DEF IndInv
  <1>3. /\ NextRevisionNo(r.seen) = n /\ r.baseId = page.draftNo /\ r.doc \in Docs
    BY <1>1, CommitIsCurrent
  <1>4. n \in Nat /\ page \in Page
    BY <1>2, PageFacts
  <1>5. revs' = Append(revs, rev) /\ page' = WithDraftHead(r, n, n)
        /\ idem' = RecordKey(r, n) /\ UNCHANGED replay
        /\ outbox' = Append(outbox, [type |-> "page.draft.saved", rev |-> n])
                     \o ReferenceEvents(n)
        /\ req' = [req EXCEPT ![p] = [r EXCEPT !.phase = "append", !.no = n]]
    BY <1>3 DEF SaveDraftRevision
  <1> HIDE DEF n
  <1>6. rev \in Revision
    BY <1>1, <1>2, <1>3, <1>4 DEF Revision, Request
  <1>7. [type |-> "page.draft.saved", rev |-> n] \in Event
    BY <1>4 DEF Event
  <1>8. outbox' \in Seq(Event)
    BY <1>4, <1>5, <1>7, OutboxType
  <1>9. r.seen.status # "absent" /\ r.seen \in Page
    BY <1>1, <1>2 DEF RequestInv, Request
  <1>10. /\ page' \in Page /\ page'.status # "absent"
         /\ page'.draftNo = n /\ page'.draftId = n
         /\ page'.publishedNo = page.publishedNo
         /\ page'.publishedId = page.publishedId
    BY <1>4, <1>5, <1>9 DEF WithDraftHead, Page
  <1>11. \/ idem' = idem
         \/ \E k \in IdemKeys : /\ idem' = [idem EXCEPT ![k] = n]
                                /\ k = <<rev.via, rev.key>>
    <2>1. CASE idem' = idem
      BY <2>1
    <2>2. CASE idem' # idem
      <3>1. r.op \in KeyedOps /\ r.key # NoKey
            /\ idem' = [idem EXCEPT ![IdemKey(r)] = n]
        BY <1>5, <2>2 DEF RecordKey
      <3>2. r.key \in Keys
        BY <1>2, <3>1 DEF Request
      <3>3. IdemKey(r) \in IdemKeys /\ IdemKey(r) = <<rev.via, rev.key>>
        BY <3>1, <3>2 DEF IdemKey, IdemKeys
      <3> QED
        BY <3>1, <3>3
    <2> QED
      BY <2>1, <2>2
  <1>12. /\ rev.no = n /\ rev.kind = "draft" /\ rev.base = page.draftNo
         /\ rev.from = page.draftNo /\ rev.via = r.op /\ rev.key = r.key
    BY <1>1, <1>3 DEF Stale
  <1> HIDE DEF rev
  <1> USE DEF n
  <1> QED
    BY <1>1, <1>5, <1>6, <1>8, <1>10, <1>11, <1>12, CommitStep

(* The transaction of a publication. *)
LEMMA SavePublishedStep ==
  ASSUME IndInv, Store = "postgres", NEW p \in Procs, SavePublishedRevision(p)
  PROVE  IndInv'
  <1> DEFINE r == req[p]
             n == Len(revs) + 1
             rev == [no |-> n, kind |-> "published", base |-> r.baseId,
                     from |-> r.base, doc |-> r.doc, via |-> r.op, key |-> NoKey]
  <1>1. /\ r.phase = "commit" /\ r.op = "publish"
        /\ ~Stale(r) /\ ~DuplicateNo(NextRevisionNo(r.seen))
    BY DEF SavePublishedRevision
  <1>2. page.status # "absent" /\ r \in Request /\ RequestInv(r)
    BY <1>1, ActiveMeansPage DEF IndInv
  <1>3. /\ NextRevisionNo(r.seen) = n /\ r.baseId = page.draftNo /\ r.doc \in Docs
        /\ r.doc = revs[page.draftNo].doc
    BY <1>1, CommitIsCurrent
  <1>4. n \in Nat /\ page \in Page
    BY <1>2, PageFacts
  <1>5. revs' = Append(revs, rev) /\ page' = WithPublishedHead(r, n, n)
        /\ UNCHANGED <<idem, replay>>
        /\ outbox' = Append(outbox, [type |-> "page.published", rev |-> n])
                     \o ReferenceEvents(n)
        /\ req' = [req EXCEPT ![p] = [r EXCEPT !.phase = "append", !.no = n]]
    BY <1>3 DEF SavePublishedRevision
  <1>k. r.key = NoKey
    BY <1>1, <1>2 DEF RequestInv
  <1> HIDE DEF n
  <1>6. rev \in Revision
    BY <1>1, <1>2, <1>3, <1>4 DEF Revision, Request
  <1>7. [type |-> "page.published", rev |-> n] \in Event
    BY <1>4 DEF Event
  <1>8. outbox' \in Seq(Event)
    BY <1>4, <1>5, <1>7, OutboxType
  <1>10. /\ page' \in Page /\ page'.status # "absent"
         /\ page'.publishedNo = n /\ page'.publishedId = n
         /\ page'.draftNo = page.draftNo /\ page'.draftId = page.draftId
    BY <1>4, <1>5 DEF WithPublishedHead, Page
  <1>12. /\ rev.no = n /\ rev.kind = "published" /\ rev.base = page.draftNo
         /\ rev.from = page.draftNo /\ rev.via = r.op /\ rev.key = r.key /\ rev.doc = r.doc
    BY <1>1, <1>3, <1>k DEF Stale
  <1> HIDE DEF rev
  <1> USE DEF n
  <1> QED
    BY <1>1, <1>3, <1>5, <1>6, <1>8, <1>10, <1>12, CommitStep

(* An archival changes the status and nothing the handlers rely on. *)
LEMMA ArchiveStep ==
  ASSUME IndInv, Store = "postgres", NEW p \in Procs, ArchivePage(p)
  PROVE  IndInv'
  <1> DEFINE r == req[p]
             r2 == Answer(r, "ok", r.seen.draftNo)
  <1>1. /\ r.phase = "commit" /\ r.op = "archive" /\ UNCHANGED <<revs, idem, replay>>
        /\ req' = [req EXCEPT ![p] = r2]
    BY DEF ArchivePage
  <1>2. page.status # "absent" /\ r \in Request /\ RequestInv(r)
    BY <1>1, ActiveMeansPage DEF IndInv
  <1>3. page \in Page /\ page.draftNo \in Nat
    BY <1>2, PageFacts
  <1>4. /\ page' \in Page /\ page'.status = "archived"
        /\ page'.draftNo = page.draftNo /\ page'.draftId = page.draftId
        /\ page'.publishedNo = page.publishedNo
        /\ page'.publishedId = page.publishedId
    BY <1>3 DEF ArchivePage, WithArchivedStatus, Page
  <1>5. r.seen.draftNo \in Nat /\ r.seen.draftId \in Nat
    BY <1>2 DEF Request, Page
  <1>6. outbox' \in Seq(Event)
    <2>1. [type |-> "page.archived", rev |-> r.seen.draftId] \in Event
      BY <1>5 DEF Event
    <2>2. outbox \in Seq(Event)
      BY DEF IndInv, TypeOK
    <2> QED
      BY <2>1, <2>2, AppendProperties DEF ArchivePage
  <1>7. r2 \in Request
    BY <1>2, <1>5, AnswerType
  <1>8. TypeOK'
    BY <1>1, <1>4, <1>6, <1>7 DEF IndInv, TypeOK
  <1>9. StoreInv' /\ BasedOnLatestDraft' /\ IdemInv'
    BY <1>1, <1>2, <1>4
       DEF IndInv, StoreInv, NumbersFollowAcceptance, NextRevisionNo,
           BasedOnLatestDraft, IdemInv
  <1>10. ASSUME NEW q \in Procs PROVE RequestInv(req[q])'
    <2>1. CASE q = p
      <3>1. req'[q] = r2
        BY <1>1, <2>1 DEF IndInv, TypeOK
      <3>2. RequestInv(r2)
        BY <1>1, <1>2 DEF RequestInv, Answer
      <3> HIDE DEF r2
      <3> QED
        BY <1>1, <1>4, <3>1, <3>2 DEF RequestInv
    <2>2. CASE q # p
      <3>1. req'[q] = req[q] /\ RequestInv(req[q])
        BY <1>1, <2>2 DEF IndInv, TypeOK
      <3> QED
        BY <1>1, <1>4, <3>1 DEF RequestInv
    <2> QED
      BY <2>1, <2>2
  <1> QED
    BY <1>8, <1>9, <1>10 DEF IndInv

-------------------------------------------------------------------------------
(* The theorems. *)

(* Every step of the handlers preserves the inductive invariant. *)
LEMMA IndInvStep ==
  ASSUME Store = "postgres", IndInv, [Next]_vars
  PROVE  IndInv'
  <1>1. CASE CreatePage
    BY <1>1, CreateStep
  <1>2. CASE ExpireReplayWindow
    BY <1>2, ExpireStep
  <1>3. ASSUME NEW p \in Procs, Step(p) PROVE IndInv'
    <2>1. CASE StartDraftWrite(p) \/ StartPublishOrArchive(p) \/ StartRestore(p)
      BY <2>1, StartSteps
    <2>2. CASE LookupHit(p) \/ LookupMiss(p)
      BY <2>2, LookupSteps
    <2>3. CASE \/ ReadArchivedPage(p) \/ ReadStalePage(p) \/ ReadCurrentPage(p)
               \/ ReadPageToRestore(p) \/ ReadPageToArchive(p)
      BY <2>3, ReadPageSteps
    <2>4. CASE ReadDraftRevision(p) \/ ReadTargetRevision(p)
      BY <2>4, ReadRevisionSteps
    <2>5. CASE SaveDraftRevision(p)
      BY <2>5, SaveDraftStep
    <2>6. CASE SavePublishedRevision(p)
      BY <2>6, SavePublishedStep
    <2>7. CASE ArchivePage(p)
      BY <2>7, ArchiveStep
    <2>8. CASE \/ RejectStale(p) \/ RejectDuplicate(p) \/ BuildConflictPayload(p)
               \/ ArchiveConflictReadFails(p)
      BY <2>8, RejectSteps
    <2>9. CASE RecordReplayWindow(p) \/ Reply(p) \/ Abort(p)
      BY <2>9, FinishSteps
    <2> QED
      BY <1>3, <2>1, <2>2, <2>3, <2>4, <2>5, <2>6, <2>7, <2>8, <2>9 DEF Step
  <1>4. CASE UNCHANGED vars
    <2> USE <1>4 DEF vars, IndInv
    <2>1. TypeOK' /\ IdemInv'
      BY DEF TypeOK, IdemInv
    <2>2. StoreInv' /\ BasedOnLatestDraft'
      BY DEF StoreInv, NumbersFollowAcceptance, NextRevisionNo,
             BasedOnLatestDraft
    <2>3. ASSUME NEW q \in Procs PROVE RequestInv(req[q])'
      BY DEF RequestInv
    <2> QED
      BY <2>1, <2>2, <2>3
  <1> QED
    BY <1>1, <1>2, <1>3, <1>4 DEF Next

(* The inductive invariant holds in every behaviour on the Postgres store. *)
THEOREM Invariance ==
  ASSUME Store = "postgres" PROVE Spec => []IndInv
  <1>1. IndInv /\ [Next]_vars => IndInv'
    BY IndInvStep
  <1> QED
    BY <1>1, InitInv, PTL DEF Spec

(* On the Postgres store every variable keeps its type. *)
THEOREM TypeCorrect ==
  ASSUME Store = "postgres" PROVE Spec => []TypeOK
  <1>1. IndInv => TypeOK
    BY DEF IndInv
  <1> QED
    BY <1>1, Invariance, PTL

(* On the Postgres store revisions are numbered 1, 2, 3, ... in the order  *)
(* their transactions commit: the conditional UPDATE and the UNIQUE        *)
(* constraint together repair the number each handler computed from an     *)
(* earlier read.                                                           *)
THEOREM RevisionNumbering ==
  ASSUME Store = "postgres" PROVE Spec => []NumbersFollowAcceptance
  <1>1. IndInv => NumbersFollowAcceptance
    BY DEF IndInv, StoreInv
  <1> QED
    BY <1>1, Invariance, PTL

(* On the Postgres store the heads of the page row are the latest accepted *)
(* draft and the latest publication, whatever requests overlap.            *)
THEOREM NoLostHead ==
  ASSUME Store = "postgres" PROVE Spec => []HeadsAreLatest
  <1>1. IndInv => HeadsAreLatest
    <2> SUFFICES ASSUME IndInv PROVE HeadsAreLatest
      OBVIOUS
    <2>1. CASE page.status = "absent"
      <3>1. page = NoPage /\ revs = <<>>
        BY <2>1 DEF IndInv, StoreInv
      <3> QED
        BY <3>1 DEF HeadsAreLatest, NoPage
    <2>2. CASE page.status # "absent"
      BY <2>2, PageFacts
         DEF HeadsAreLatest, IndInv, StoreInv, NumbersFollowAcceptance
    <2> QED
      BY <2>1, <2>2
  <1> QED
    BY <1>1, Invariance, PTL

(* On the Postgres store no save overwrites a draft its author had not     *)
(* seen, and a published revision is the draft it was made from.           *)
THEOREM NoSilentOverwrite ==
  ASSUME Store = "postgres" PROVE Spec => []BasedOnLatestDraft
  <1>1. IndInv => BasedOnLatestDraft
    BY DEF IndInv
  <1> QED
    BY <1>1, Invariance, PTL

(* On the Postgres store a rejected save, publication or archival is told  *)
(* of a draft newer than its base.                                         *)
THEOREM ConflictsTellNewer ==
  ASSUME Store = "postgres" PROVE Spec => []RebaseIsProgress
  <1>1. IndInv => RebaseIsProgress
    <2> SUFFICES ASSUME IndInv, NEW p \in Procs, req[p].outcome = "rebase",
                        req[p].op # "collab"
                 PROVE  /\ req[p].no > req[p].base
                        /\ \E i \in 1..Len(revs) : revs[i].no = req[p].no
                                                   /\ revs[i].kind = "draft"
      BY DEF RebaseIsProgress
    <2>1. /\ req[p].no \in 1..Len(revs) /\ req[p].no > req[p].base
          /\ revs[req[p].no].kind = "draft"
      BY DEF IndInv, RequestInv
    <2> QED
      BY <2>1 DEF IndInv, StoreInv, NumbersFollowAcceptance
  <1> QED
    BY <1>1, Invariance, PTL

(* A step that changes one request, and neither the row nor the outbox. *)
LEMMA ArchiveQuietStep ==
  ASSUME IndInv, ArchiveInv, NEW p \in Procs, NEW r2,
         UNCHANGED <<page, outbox>>, req' = [req EXCEPT ![p] = r2],
         r2.seen.status # "archived", r2.phase = "append" => r2.op # "archive",
         r2.outcome = "ok" /\ r2.op = "archive" /\ r2.no # 0 => ArchiveRecorded
  PROVE  ArchiveInv'
  <1>1. \A q \in Procs : req'[q] = IF q = p THEN r2 ELSE req[q]
    BY DEF IndInv, TypeOK
  <1>2. ArchiveRecorded' <=> ArchiveRecorded
    BY DEF ArchiveRecorded
  <1> QED
    BY <1>1, <1>2 DEF ArchiveInv

(* So is a step that answers. *)
LEMMA ArchiveAnswerStep ==
  ASSUME IndInv, ArchiveInv, NEW p \in Procs, NEW outcome, NEW no,
         UNCHANGED <<page, outbox>>,
         req' = [req EXCEPT ![p] = Answer(req[p], outcome, no)],
         outcome = "ok" /\ req[p].op = "archive" /\ no # 0 => ArchiveRecorded
  PROVE  ArchiveInv'
  <1> DEFINE r2 == Answer(req[p], outcome, no)
  <1>1. /\ r2.seen.status # "archived" /\ r2.outcome = outcome
        /\ r2.op = req[p].op /\ r2.no = no /\ r2.phase = "reply"
    BY DEF Answer, NoPage
  <1> HIDE DEF r2
  <1>2. req' = [req EXCEPT ![p] = r2]
    BY DEF r2
  <1> QED
    BY <1>1, <1>2, ArchiveQuietStep

(* An event that has been added stays. *)
LEMMA ArchiveRecordedStays ==
  ASSUME TypeOK, NEW e \in Event, NEW t \in Seq(Event),
         outbox' = Append(outbox, e) \o t \/ outbox' = Append(outbox, e)
  PROVE  /\ ArchiveRecorded => ArchiveRecorded'
         /\ e.type = "page.archived" => ArchiveRecorded'
  <1> DEFINE a == Append(outbox, e)
             n == Len(outbox)
  <1>1. outbox \in Seq(Event) /\ n \in Nat
    BY DEF TypeOK
  <1>2. /\ a \in Seq(Event) /\ Len(a) = n + 1
        /\ \A i \in 1..n : a[i] = outbox[i]
        /\ a[n + 1] = e
    BY <1>1
  <1>3. /\ a \o t \in Seq(Event) /\ Len(a \o t) = Len(a) + Len(t)
        /\ \A i \in 1..Len(a) : (a \o t)[i] = a[i]
    <2> HIDE DEF a
    <2>1. a \in Seq(Event)
      BY <1>2
    <2> QED
      BY <2>1, ConcatProperties
  <1>4. Len(t) \in Nat
    OBVIOUS
  <1>5. /\ n + 1 \in 1..Len(outbox')
        /\ \A i \in 1..n : i \in 1..Len(outbox')
        /\ \A i \in 1..n : outbox'[i] = outbox[i]
        /\ outbox'[n + 1] = e
    <2> HIDE DEF a, n
    <2>1. CASE outbox' = a
      BY <1>1, <1>2, <2>1
    <2>2. CASE outbox' = a \o t
      BY <1>1, <1>2, <1>3, <1>4, <2>2
    <2> QED
      BY <2>1, <2>2 DEF a
  <1> QED
    BY <1>5 DEF ArchiveRecorded

(* A committed archival has its event from then on. *)
LEMMA ArchiveInvStep == IndInv /\ ArchiveInv /\ [Next]_vars => ArchiveInv'
  <1> SUFFICES ASSUME IndInv, ArchiveInv, [Next]_vars PROVE ArchiveInv'
    OBVIOUS
  <1>1. CASE UNCHANGED vars
    BY <1>1 DEF vars, ArchiveInv, ArchiveRecorded
  <1>2. CASE CreatePage
    <2>1. \A p \in Procs : req[p] = Idle
      BY <1>2 DEF CreatePage, IndInv, StoreInv
    <2>2. UNCHANGED req /\ page'.status = "draft"
      BY <1>2 DEF CreatePage, NoPage
    <2>3. Idle.outcome = "none" /\ Idle.seen.status = "absent"
      BY DEF Idle, NewRequest, NoPage
    <2> QED
      BY <2>1, <2>2, <2>3 DEF ArchiveInv
  <1>3. CASE ExpireReplayWindow
    BY <1>3 DEF ExpireReplayWindow, store, ArchiveInv, ArchiveRecorded
  <1>4. ASSUME NEW p \in Procs, Step(p) PROVE ArchiveInv'
    <2> DEFINE r == req[p]
    <2>1. /\ r \in Request /\ r.seen.status # "archived"
          /\ r.phase # "reply" => r.outcome = "none"
      BY DEF IndInv, TypeOK, RequestInv, ArchiveInv
    <2>2. ASSUME NEW phase \in {"idle", "lookup", "read"},
                 NEW op, NEW base, NEW key, NEW doc, NEW target,
                 req' = [req EXCEPT ![p] =
                           NewRequest(phase, op, base, key, doc, target)],
                 UNCHANGED <<page, outbox>>
          PROVE  ArchiveInv'
      <3>1. /\ NewRequest(phase, op, base, key, doc, target).seen.status = "absent"
            /\ NewRequest(phase, op, base, key, doc, target).outcome = "none"
            /\ NewRequest(phase, op, base, key, doc, target).phase # "append"
        BY DEF NewRequest, NoPage
      <3> QED
        BY <2>2, <3>1, ArchiveQuietStep
    <2>3. ASSUME NEW r2, req' = [req EXCEPT ![p] = r2], UNCHANGED <<page, outbox>>,
                 r2.seen.status # "archived", r2.outcome # "ok",
                 r2.phase # "append"
          PROVE  ArchiveInv'
      BY <2>3, ArchiveQuietStep
    <2>4. CASE StartDraftWrite(p)
      BY <2>2, <2>4 DEF StartDraftWrite, store
    <2>5. CASE StartPublishOrArchive(p)
      BY <2>2, <2>5 DEF StartPublishOrArchive, store
    <2>6. CASE StartRestore(p)
      BY <2>2, <2>6 DEF StartRestore, store
    <2>7. CASE Reply(p) \/ Abort(p)
      <3>1. /\ UNCHANGED <<page, outbox>>
            /\ req' = [req EXCEPT ![p] = NewRequest("idle", "none", 0, NoKey, NoDoc, 0)]
        BY <2>7 DEF Reply, Abort, Idle, store
      <3> QED
        BY <2>2, <3>1
    <2>8. CASE LookupHit(p)
      <3>1. r.op # "archive"
        BY <2>8, ConstantsAssumption DEF LookupHit, IndInv, RequestInv
      <3> QED
        BY <2>8, <3>1, ArchiveAnswerStep DEF LookupHit, store
    <2>9. CASE ReadArchivedPage(p)
      BY <2>9, ArchiveAnswerStep DEF ReadArchivedPage, store
    <2>10. CASE RejectDuplicate(p)
      BY <2>10, ArchiveAnswerStep DEF RejectDuplicate, store
    <2>11. CASE BuildConflictPayload(p)
      BY <2>11, ArchiveAnswerStep DEF BuildConflictPayload, store
    <2>12. CASE ArchiveConflictReadFails(p)
      BY <2>12, ArchiveAnswerStep DEF ArchiveConflictReadFails, store
    <2>13. CASE RecordReplayWindow(p)
      <3>1. r.op # "archive"
        BY <2>13 DEF RecordReplayWindow, ArchiveInv
      <3>2. UNCHANGED <<page, outbox>> /\ req' = [req EXCEPT ![p] = Answer(r, "ok", r.no)]
        BY <2>13 DEF RecordReplayWindow, store
      <3> QED
        BY <3>1, <3>2, ArchiveAnswerStep
    <2>14. CASE LookupMiss(p)
      <3> DEFINE r2 == [r EXCEPT !.phase = "read"]
      <3>1. /\ r2.seen.status # "archived" /\ r2.outcome # "ok"
            /\ r2.phase # "append"
        BY <2>1, <2>14 DEF LookupMiss, Request
      <3>2. UNCHANGED <<page, outbox>> /\ req' = [req EXCEPT ![p] = r2]
        BY <2>14 DEF LookupMiss, store
      <3> HIDE DEF r2
      <3> QED
        BY <2>3, <3>1, <3>2
    <2>15. CASE ReadCurrentPage(p)
      <3> DEFINE r2 == [r EXCEPT !.phase = "base", !.seen = page]
      <3>1. /\ r2.seen.status # "archived" /\ r2.outcome # "ok"
            /\ r2.phase # "append"
        BY <2>1, <2>15 DEF ReadCurrentPage, Request
      <3>2. UNCHANGED <<page, outbox>> /\ req' = [req EXCEPT ![p] = r2]
        BY <2>15 DEF ReadCurrentPage, store
      <3> HIDE DEF r2
      <3> QED
        BY <2>3, <3>1, <3>2
    <2>16. CASE ReadPageToRestore(p)
      <3> DEFINE r2 == [r EXCEPT !.phase = "base", !.seen = page,
                             !.base = page.draftNo]
      <3>1. /\ r2.seen.status # "archived" /\ r2.outcome # "ok"
            /\ r2.phase # "append"
        BY <2>1, <2>16 DEF ReadPageToRestore, Request
      <3>2. UNCHANGED <<page, outbox>> /\ req' = [req EXCEPT ![p] = r2]
        BY <2>16 DEF ReadPageToRestore, store
      <3> HIDE DEF r2
      <3> QED
        BY <2>3, <3>1, <3>2
    <2>17. CASE ReadDraftRevision(p)
      <3> DEFINE r2 == [r EXCEPT !.phase = "commit", !.baseId = page.draftId,
                             !.doc = IF r.op = "publish"
                                     THEN revs[page.draftId].doc ELSE r.doc]
      <3>1. /\ r2.seen.status # "archived" /\ r2.outcome # "ok"
            /\ r2.phase # "append"
        BY <2>1, <2>17 DEF ReadDraftRevision, Request
      <3>2. UNCHANGED <<page, outbox>> /\ req' = [req EXCEPT ![p] = r2]
        BY <2>17 DEF ReadDraftRevision, store
      <3> HIDE DEF r2
      <3> QED
        BY <2>3, <3>1, <3>2
    <2>18. CASE ReadTargetRevision(p)
      <3> DEFINE r2 == [r EXCEPT !.phase = "commit", !.baseId = r.seen.draftId,
                             !.doc = revs[r.target].doc]
      <3>1. /\ r2.seen.status # "archived" /\ r2.outcome # "ok"
            /\ r2.phase # "append"
        BY <2>1, <2>18 DEF ReadTargetRevision, Request
      <3>2. UNCHANGED <<page, outbox>> /\ req' = [req EXCEPT ![p] = r2]
        BY <2>18 DEF ReadTargetRevision, store
      <3> HIDE DEF r2
      <3> QED
        BY <2>3, <3>1, <3>2
    <2>19. CASE ReadStalePage(p)
      <3>1. CASE r.op = "collab"
        BY <2>19, <3>1, ArchiveAnswerStep DEF ReadStalePage, store
      <3>2. CASE r.op # "collab"
        <4> DEFINE r2 == [r EXCEPT !.phase = "conflict"]
        <4>1. /\ r2.seen.status # "archived" /\ r2.outcome # "ok"
              /\ r2.phase # "append"
          BY <2>1, <2>19, <3>2 DEF ReadStalePage, Request
        <4>2. UNCHANGED <<page, outbox>> /\ req' = [req EXCEPT ![p] = r2]
          BY <2>19, <3>2 DEF ReadStalePage, store
        <4> HIDE DEF r2
        <4> QED
          BY <2>3, <4>1, <4>2
      <3> QED
        BY <3>1, <3>2
    <2>20. CASE RejectStale(p)
      <3>1. CASE r.op = "collab"
        BY <2>20, <3>1, ArchiveAnswerStep DEF RejectStale, store
      <3>2. CASE r.op = "restore"
        BY <2>20, <3>2, ArchiveAnswerStep DEF RejectStale, store
      <3>3. CASE r.op \notin {"collab", "restore"}
        <4> DEFINE r2 == [r EXCEPT !.phase = "conflict"]
        <4>1. /\ r2.seen.status # "archived" /\ r2.outcome # "ok"
              /\ r2.phase # "append"
          BY <2>1, <2>20, <3>3 DEF RejectStale, Request
        <4>2. UNCHANGED <<page, outbox>> /\ req' = [req EXCEPT ![p] = r2]
          BY <2>20, <3>3 DEF RejectStale, store
        <4> HIDE DEF r2
        <4> QED
          BY <2>3, <4>1, <4>2
      <3> QED
        BY <3>1, <3>2, <3>3
    <2>21. CASE ReadPageToArchive(p)
      <3>1. CASE page.status = "archived"
        <4>1. ArchiveRecorded
          BY <3>1 DEF ArchiveInv
        <4> QED
          BY <2>21, <3>1, <4>1, ArchiveAnswerStep DEF ReadPageToArchive, store
      <3>2. CASE page.status # "archived"
        <4> DEFINE r2 == [r EXCEPT !.phase = "commit", !.seen = page]
        <4>1. /\ r2.seen.status # "archived" /\ r2.outcome # "ok"
              /\ r2.phase # "append"
          BY <2>1, <2>21, <3>2 DEF ReadPageToArchive, Request
        <4>2. UNCHANGED <<page, outbox>> /\ req' = [req EXCEPT ![p] = r2]
          BY <2>21, <3>2 DEF ReadPageToArchive, store
        <4> HIDE DEF r2
        <4> QED
          BY <2>3, <4>1, <4>2
      <3> QED
        BY <3>1, <3>2
    <2>22. ASSUME NEW e \in Event, NEW t \in Seq(Event), NEW r2,
                  outbox' = Append(outbox, e) \o t \/ outbox' = Append(outbox, e),
                  req' = [req EXCEPT ![p] = r2], r2.seen.status # "archived",
                  r2.phase = "append" => r2.op # "archive",
                  \/ e.type = "page.archived"
                  \/ page'.status # "archived" /\ r2.outcome # "ok"
           PROVE  ArchiveInv'
      <3>1. /\ ArchiveRecorded => ArchiveRecorded'
            /\ e.type = "page.archived" => ArchiveRecorded'
        BY <2>22, ArchiveRecordedStays DEF IndInv
      <3>2. \A q \in Procs : req'[q] = IF q = p THEN r2 ELSE req[q]
        BY <2>22 DEF IndInv, TypeOK
      <3> QED
        BY <2>22, <3>1, <3>2 DEF ArchiveInv
    <2>23. /\ \A id \in Nat : ReferenceEvents(id) \in Seq(Event)
           /\ \A id \in Nat : /\ [type |-> "page.draft.saved", rev |-> id] \in Event
                              /\ [type |-> "page.published", rev |-> id] \in Event
                              /\ [type |-> "page.archived", rev |-> id] \in Event
           /\ Len(revs) + 1 \in Nat /\ r.seen.draftId \in Nat /\ page \in Page
      BY <2>1 DEF ReferenceEvents, Event, IndInv, TypeOK, Request, Page
    <2>24. CASE SaveDraftRevision(p)
      <3>1. page'.status # "archived"
        BY <2>1, <2>23, <2>24 DEF SaveDraftRevision, WithDraftHead, Page, Request
      <3>2. \A no : /\ [r EXCEPT !.phase = "append", !.no = no].seen.status # "archived"
                    /\ [r EXCEPT !.phase = "append", !.no = no].outcome = r.outcome
                    /\ [r EXCEPT !.phase = "append", !.no = no].op = r.op
        BY <2>1 DEF Request
      <3> QED
        BY <2>1, <2>22, <2>23, <2>24, <3>1, <3>2 DEF SaveDraftRevision
    <2>25. CASE SavePublishedRevision(p)
      <3>1. page'.status # "archived"
        BY <2>1, <2>23, <2>25 DEF SavePublishedRevision, WithPublishedHead, Page, Request
      <3>2. \A no : /\ [r EXCEPT !.phase = "append", !.no = no].seen.status # "archived"
                    /\ [r EXCEPT !.phase = "append", !.no = no].outcome = r.outcome
                    /\ [r EXCEPT !.phase = "append", !.no = no].op = r.op
        BY <2>1 DEF Request
      <3> QED
        BY <2>1, <2>22, <2>23, <2>25, <3>1, <3>2 DEF SavePublishedRevision
    <2>26. CASE ArchivePage(p)
      <3>1. <<>> \in Seq(Event)
        OBVIOUS
      <3>2. /\ Answer(r, "ok", r.seen.draftNo).seen.status # "archived"
            /\ Answer(r, "ok", r.seen.draftNo).phase = "reply"
        BY DEF Answer, NoPage
      <3> QED
        BY <2>22, <2>23, <2>26, <3>1, <3>2 DEF ArchivePage
    <2> QED
      BY <1>4, <2>4, <2>5, <2>6, <2>7, <2>8, <2>9, <2>10, <2>11, <2>12, <2>13,
         <2>14, <2>15, <2>16, <2>17, <2>18, <2>19, <2>20, <2>21, <2>24, <2>25,
         <2>26 DEF Step
  <1> QED
    BY <1>1, <1>2, <1>3, <1>4 DEF Next

(* On the Postgres store a success names a committed revision of this      *)
(* operation and key, and an archival that succeeds was committed unless   *)
(* its answer is empty.                                                    *)
THEOREM AcksAreCommitted ==
  ASSUME Store = "postgres" PROVE Spec => []AckedIsCommitted
  <1>1. IndInv /\ ArchiveInv => AckedIsCommitted
    <2> SUFFICES ASSUME IndInv, ArchiveInv, NEW p \in Procs,
                        req[p].outcome = "ok"
                 PROVE  IF req[p].op = "archive"
                        THEN req[p].no = 0 \/ ArchiveRecorded
                        ELSE \E i \in 1..Len(revs) :
                               /\ revs[i].no = req[p].no
                               /\ revs[i].via = req[p].op
                               /\ revs[i].key = req[p].key
      BY DEF AckedIsCommitted
    <2>1. CASE req[p].op = "archive"
      BY <2>1 DEF ArchiveInv
    <2>2. CASE req[p].op # "archive"
      <3>1. RequestInv(req[p])
        BY DEF IndInv
      <3>2. req[p].phase = "reply"
        BY <3>1 DEF RequestInv
      <3>3. /\ req[p].no \in 1..Len(revs) /\ revs[req[p].no].via = req[p].op
            /\ revs[req[p].no].key = req[p].key
        BY <2>2, <3>1, <3>2 DEF RequestInv
      <3> QED
        BY <2>2, <3>3 DEF IndInv, StoreInv, NumbersFollowAcceptance
    <2> QED
      BY <2>1, <2>2
  <1>2. Init => ArchiveInv
    BY DEF Init, ArchiveInv, Idle, NewRequest, NoPage
  <1>3. Spec => []ArchiveInv
    BY <1>2, ArchiveInvStep, Invariance, PTL DEF Spec
  <1> QED
    BY <1>1, <1>3, Invariance, PTL

-------------------------------------------------------------------------------
(* Idempotency keys. *)

(* A step of one handler that leaves the revisions and the keys alone and   *)
(* does not bring a keyed request past its lookup.                          *)
LEMMA KeyQuietStep ==
  ASSUME IndInv, KeyInv, NEW p \in Procs, NEW r2,
         UNCHANGED <<revs, idem>>, req' = [req EXCEPT ![p] = r2],
         \/ r2.phase \notin {"read", "base", "commit"}
         \/ r2.key = NoKey
         \/ /\ req[p].phase \in {"read", "base", "commit"}
            /\ r2.op = req[p].op /\ r2.key = req[p].key
            /\ r2.base = req[p].base
  PROVE  KeyInv'
  <1>1. ASSUME NEW q \in Procs PROVE MissInv(req[q])'
    <2>1. req'[q] = IF q = p THEN r2 ELSE req[q]
      BY DEF IndInv, TypeOK
    <2>2. MissInv(req[q]) /\ MissInv(req[p])
      BY DEF KeyInv
    <2> QED
      BY <2>1, <2>2 DEF MissInv
  <1>2. KeyUsedOnce'
    BY DEF KeyInv, KeyUsedOnce
  <1> QED
    BY <1>1, <1>2 DEF KeyInv

(* A lookup that misses proves that the key has produced no revision. *)
LEMMA KeyMissStep ==
  ASSUME IndInv, KeyInv, LookupMayFail = FALSE, NEW p \in Procs, LookupMiss(p)
  PROVE  KeyInv'
  <1> DEFINE r == req[p]
             r2 == [r EXCEPT !.phase = "read"]
  <1>1. /\ r.phase = "lookup" /\ idem[<<r.op, r.key>>] = 0
        /\ UNCHANGED <<revs, idem>> /\ req' = [req EXCEPT ![p] = r2]
    BY DEF LookupMiss, store, IdemKey
  <1>2. r \in Request /\ RequestInv(r)
    BY DEF IndInv, TypeOK
  <1>3. r.key # NoKey /\ r.op \in KeyedOps
    BY <1>1, <1>2, ConstantsAssumption DEF RequestInv
  <1>4. \A i \in 1..Len(revs) : ~(revs[i].via = r.op /\ revs[i].key = r.key)
    <2> SUFFICES ASSUME NEW i \in 1..Len(revs),
                        revs[i].via = r.op, revs[i].key = r.key
                 PROVE  FALSE
      OBVIOUS
    <2>1. idem[<<r.op, r.key>>] = i
      BY <1>3 DEF KeyInv, KeyUsedOnce
    <2>2. i # 0
      BY DEF IndInv, TypeOK
    <2> QED
      BY <1>1, <2>1, <2>2
  <1>5. r2.op = r.op /\ r2.key = r.key
    BY <1>2 DEF Request
  <1>6. ASSUME NEW q \in Procs PROVE MissInv(req[q])'
    <2>1. req'[q] = IF q = p THEN r2 ELSE req[q]
      BY <1>1 DEF IndInv, TypeOK
    <2>2. MissInv(req[q])
      BY DEF KeyInv
    <2> HIDE DEF r2
    <2> QED
      BY <1>1, <1>4, <1>5, <2>1, <2>2 DEF MissInv
  <1>7. KeyUsedOnce'
    BY <1>1 DEF KeyInv, KeyUsedOnce
  <1> QED
    BY <1>1, <1>6, <1>7 DEF KeyInv

(* A commit: the base it passed the conditional UPDATE with is the draft    *)
(* head, so an earlier revision of its key would be newer than the head.    *)
LEMMA KeyCommitStep ==
  ASSUME IndInv, KeyInv, Store = "postgres", NEW p \in Procs,
         SaveDraftRevision(p) \/ SavePublishedRevision(p)
  PROVE  KeyInv'
  <1> DEFINE r == req[p]
             n == Len(revs) + 1
             r2 == [r EXCEPT !.phase = "append", !.no = n]
  <1>1. /\ r.phase = "commit" /\ r.op # "archive"
        /\ ~Stale(r) /\ ~DuplicateNo(NextRevisionNo(r.seen))
    BY DEF SaveDraftRevision, SavePublishedRevision
  <1>2. page.status # "absent" /\ r \in Request /\ RequestInv(r)
    BY <1>1, ActiveMeansPage DEF IndInv
  <1>3. NextRevisionNo(r.seen) = n /\ r.base = page.draftNo
    BY <1>1, CommitIsCurrent
  <1>4. revs \in Seq(Revision) /\ Len(revs) \in Nat /\ n \in Nat
        /\ page.draftNo \in Nat /\ page.draftNo \in 1..Len(revs)
    BY <1>2, PageFacts
  <1>5. PICK rev : /\ revs' = Append(revs, rev)
                   /\ rev.via = r.op
                   /\ rev.kind = IF r.op = "publish" THEN "published" ELSE "draft"
                   /\ r.op # "publish" => rev.key = r.key
    BY DEF SaveDraftRevision, SavePublishedRevision
  <1>6. /\ req' = [req EXCEPT ![p] = r2]
        /\ idem' = IF r.op = "publish" THEN idem ELSE RecordKey(r, n)
    BY <1>3 DEF SaveDraftRevision, SavePublishedRevision
  <1>7. /\ Len(revs') = n /\ revs'[n] = rev
        /\ \A i \in 1..Len(revs) : revs'[i] = revs[i]
    BY <1>4, <1>5
  <1>8. \A i \in 1..n : i \in 1..Len(revs) \/ i = n
    BY <1>4
  <1>9. r.op \in KeyedOps /\ r.key # NoKey =>
          \A i \in 1..Len(revs) : ~(revs[i].via = r.op /\ revs[i].key = r.key)
    <2> SUFFICES ASSUME r.op \in KeyedOps, r.key # NoKey,
                        NEW i \in 1..Len(revs),
                        revs[i].via = r.op, revs[i].key = r.key
                 PROVE  FALSE
      OBVIOUS
    <2>1. i > r.base
      BY <1>1 DEF KeyInv, MissInv
    <2>2. i <= page.draftNo
      BY DEF KeyInv, IndInv, StoreInv
    <2> QED
      BY <1>3, <1>4, <2>1, <2>2
  <1>10. r.op \in KeyedOps /\ r.key # NoKey =>
           /\ IdemKey(r) \in IdemKeys /\ IdemKey(r) = <<r.op, r.key>>
           /\ idem[IdemKey(r)] = 0
    <2> SUFFICES ASSUME r.op \in KeyedOps, r.key # NoKey
                 PROVE  /\ IdemKey(r) \in IdemKeys /\ IdemKey(r) = <<r.op, r.key>>
                        /\ idem[IdemKey(r)] = 0
      OBVIOUS
    <2>1. IdemKey(r) \in IdemKeys /\ IdemKey(r) = <<r.op, r.key>>
      BY <1>2 DEF IdemKey, IdemKeys, Request
    <2>2. idem[IdemKey(r)] # 0 =>
            /\ idem[IdemKey(r)] \in 1..Len(revs)
            /\ revs[idem[IdemKey(r)]].via = r.op
            /\ revs[idem[IdemKey(r)]].key = r.key
      BY <2>1 DEF IndInv, IdemInv
    <2> QED
      BY <1>9, <2>1, <2>2
  <1> HIDE DEF n, r2
  <1>11. KeyUsedOnce'
    <2> SUFFICES ASSUME NEW i \in 1..n, revs'[i].via \in KeyedOps,
                        revs'[i].key # NoKey
                 PROVE  /\ idem'[<<revs'[i].via, revs'[i].key>>] = i
                        /\ \A j \in 1..n :
                             revs'[j].via = revs'[i].via
                             /\ revs'[j].key = revs'[i].key => i = j
      BY <1>7 DEF KeyUsedOnce
    <2>1. CASE i = n
      <3>1. r.op \in KeyedOps /\ r.key # NoKey /\ revs'[i].via = r.op
            /\ revs'[i].key = r.key
        BY <1>5, <1>7, <2>1
      <3>2. idem' = [idem EXCEPT ![<<r.op, r.key>>] = n]
            /\ <<r.op, r.key>> \in IdemKeys
        BY <1>6, <1>10, <3>1 DEF RecordKey
      <3>3. idem'[<<r.op, r.key>>] = n
        BY <3>2 DEF IndInv, TypeOK
      <3> QED
        BY <1>7, <1>8, <1>9, <2>1, <3>1, <3>3
    <2>2. CASE i # n
      <3>1. i \in 1..Len(revs) /\ revs'[i] = revs[i]
        BY <1>7, <1>8, <2>2
      <3>2. /\ idem[<<revs[i].via, revs[i].key>>] = i
            /\ \A j \in 1..Len(revs) :
                 revs[j].via = revs[i].via /\ revs[j].key = revs[i].key => i = j
        BY <3>1 DEF KeyInv, KeyUsedOnce
      <3>3. ~(revs[i].via = r.op /\ revs[i].key = r.key)
        BY <1>9, <3>1
      <3>4. ~(rev.via = revs[i].via /\ rev.key = revs[i].key)
        BY <1>5, <3>1, <3>3
      <3>5. \A j \in 1..n : revs'[j].via = revs[i].via
                            /\ revs'[j].key = revs[i].key => i = j
        BY <1>7, <1>8, <3>2, <3>4
      <3>6. idem'[<<revs[i].via, revs[i].key>>] = i
        <4>1. CASE idem' = idem
          BY <3>2, <4>1
        <4>2. CASE idem' # idem
          <5>1. r.op \in KeyedOps /\ r.key # NoKey
                /\ idem' = [idem EXCEPT ![IdemKey(r)] = n]
            BY <1>6, <4>2 DEF RecordKey
          <5>2. IdemKey(r) = <<r.op, r.key>> /\ IdemKey(r) \in IdemKeys
            BY <1>10, <5>1
          <5>3. <<revs[i].via, revs[i].key>> \in IdemKeys
            <6>1. revs[i] \in Revision
              BY <3>1 DEF IndInv, TypeOK
            <6>2. revs[i].key \in Keys
              BY <3>1, <6>1 DEF Revision
            <6> QED
              BY <3>1, <6>2 DEF IdemKeys
          <5>4. <<revs[i].via, revs[i].key>> # <<r.op, r.key>>
            BY <3>3
          <5> QED
            BY <3>2, <5>1, <5>2, <5>3, <5>4 DEF IndInv, TypeOK
        <4> QED
          BY <4>1, <4>2
      <3> QED
        BY <3>1, <3>5, <3>6
    <2> QED
      BY <2>1, <2>2
  <1>12. ASSUME NEW i \in 1..n, revs'[i].via \in KeyedOps
         PROVE  revs'[i].kind = "draft"
    <2>1. CASE i = n
      BY <1>5, <1>7, <1>12, <2>1
    <2>2. CASE i # n
      BY <1>7, <1>8, <1>12, <2>2 DEF KeyInv
    <2> QED
      BY <2>1, <2>2
  <1>13. ASSUME NEW q \in Procs PROVE MissInv(req[q])'
    <2>1. CASE q = p
      <3>1. req'[q] = r2
        BY <1>6, <2>1 DEF IndInv, TypeOK
      <3>2. r2.phase = "append"
        BY <1>2 DEF Request, r2
      <3> QED
        BY <3>1, <3>2 DEF MissInv
    <2>2. CASE q # p
      <3>1. req'[q] = req[q] /\ MissInv(req[q]) /\ RequestInv(req[q])
            /\ req[q] \in Request
        BY <1>6, <2>2 DEF IndInv, TypeOK, KeyInv
      <3>2. req[q].phase # "idle" => n > req[q].base
        BY <1>4, <3>1 DEF RequestInv, Request, n
      <3> QED
        BY <1>7, <1>8, <3>1, <3>2 DEF MissInv
    <2> QED
      BY <2>1, <2>2
  <1> QED
    BY <1>7, <1>11, <1>12, <1>13 DEF KeyInv

(* Every step preserves the invariant of the keys.  A request gets past its *)
(* lookup only by LookupMiss, and nothing changes its key or, for a keyed   *)
(* request, its base afterwards.                                            *)
LEMMA KeyInvStep ==
  ASSUME Store = "postgres", LookupMayFail = FALSE, IndInv, KeyInv, [Next]_vars
  PROVE  KeyInv'
  <1>1. CASE CreatePage
    <2>1. PICK d : revs' = <<[no |-> 1, kind |-> "draft", base |-> 0, from |-> 0,
                              doc |-> d, via |-> "create", key |-> NoKey]>>
      BY <1>1 DEF CreatePage
    <2>2. Len(revs') = 1 /\ revs'[1].via = "create"
      BY <2>1
    <2>3. req' = [p \in Procs |-> Idle]
      BY <1>1 DEF CreatePage, IndInv, StoreInv
    <2>4. ASSUME NEW q \in Procs PROVE MissInv(req[q])'
      BY <2>3 DEF MissInv, Idle, NewRequest
    <2>5. KeyUsedOnce'
      BY <2>2 DEF KeyUsedOnce
    <2> QED
      BY <2>2, <2>4, <2>5 DEF KeyInv
  <1>2. CASE ExpireReplayWindow \/ UNCHANGED vars
    <2>1. UNCHANGED <<revs, idem, req>>
      BY <1>2 DEF ExpireReplayWindow, store, vars
    <2>2. KeyUsedOnce'
      BY <2>1 DEF KeyInv, KeyUsedOnce
    <2>3. ASSUME NEW q \in Procs PROVE MissInv(req[q])'
      BY <2>1 DEF KeyInv, MissInv
    <2> QED
      BY <2>1, <2>2, <2>3 DEF KeyInv
  <1>3. ASSUME NEW p \in Procs, Step(p) PROVE KeyInv'
    <2> DEFINE r == req[p]
    <2>0. r \in Request /\ RequestInv(r)
      BY DEF IndInv, TypeOK
    <2>1. CASE StartDraftWrite(p)
      <3>1. PICK op, b, k, d :
              req' = [req EXCEPT ![p] =
                       NewRequest(IF k = NoKey THEN "read" ELSE "lookup",
                                  op, b, k, d, 0)]
        BY <2>1 DEF StartDraftWrite
      <3> DEFINE r2 == NewRequest(IF k = NoKey THEN "read" ELSE "lookup",
                                  op, b, k, d, 0)
      <3>2. r2.phase \notin {"read", "base", "commit"} \/ r2.key = NoKey
        BY DEF NewRequest
      <3>3. UNCHANGED <<revs, idem>>
        BY <2>1 DEF StartDraftWrite, store
      <3> HIDE DEF r2
      <3> QED
        BY <3>1, <3>2, <3>3, KeyQuietStep DEF r2
    <2>2. CASE StartPublishOrArchive(p) \/ StartRestore(p)
      <3>1. PICK op, b, t :
              req' = [req EXCEPT ![p] = NewRequest("read", op, b, NoKey, NoDoc, t)]
        BY <2>2 DEF StartPublishOrArchive, StartRestore
      <3> DEFINE r2 == NewRequest("read", op, b, NoKey, NoDoc, t)
      <3>2. r2.key = NoKey
        BY DEF NewRequest
      <3>3. UNCHANGED <<revs, idem>>
        BY <2>2 DEF StartPublishOrArchive, StartRestore, store
      <3> HIDE DEF r2
      <3> QED
        BY <3>1, <3>2, <3>3, KeyQuietStep DEF r2
    <2>3. CASE LookupMiss(p)
      BY <2>3, KeyMissStep
    <2>4. CASE SaveDraftRevision(p) \/ SavePublishedRevision(p)
      BY <2>4, KeyCommitStep
    <2>5. ASSUME NEW outcome, NEW no, UNCHANGED <<revs, idem>>,
                 req' = [req EXCEPT ![p] = Answer(r, outcome, no)]
          PROVE  KeyInv'
      <3>1. Answer(r, outcome, no).phase = "reply"
        BY DEF Answer
      <3> QED
        BY <2>5, <3>1, KeyQuietStep
    <2>6. CASE \/ LookupHit(p) \/ ReadArchivedPage(p) \/ ArchivePage(p)
               \/ RejectDuplicate(p) \/ BuildConflictPayload(p)
               \/ ArchiveConflictReadFails(p) \/ RecordReplayWindow(p)
      BY <2>5, <2>6 DEF LookupHit, ReadArchivedPage, ArchivePage,
                        RejectDuplicate, BuildConflictPayload,
                        ArchiveConflictReadFails, RecordReplayWindow, store
    <2>7. CASE ReadStalePage(p) \/ RejectStale(p)
      <3>1. UNCHANGED <<revs, idem>>
        BY <2>7 DEF ReadStalePage, RejectStale, store
      <3>2. CASE req' = [req EXCEPT ![p] = [r EXCEPT !.phase = "conflict"]]
        <4>1. [r EXCEPT !.phase = "conflict"].phase = "conflict"
          BY <2>0 DEF Request
        <4> QED
          BY <3>1, <3>2, <4>1, KeyQuietStep
      <3>3. CASE req' # [req EXCEPT ![p] = [r EXCEPT !.phase = "conflict"]]
        BY <2>5, <2>7, <3>1, <3>3 DEF ReadStalePage, RejectStale
      <3> QED
        BY <3>2, <3>3
    <2>8. CASE ReadCurrentPage(p)
      <3> DEFINE r2 == [r EXCEPT !.phase = "base", !.seen = page]
      <3>1. /\ req' = [req EXCEPT ![p] = r2] /\ UNCHANGED <<revs, idem>>
            /\ r.phase = "read"
        BY <2>8 DEF ReadCurrentPage, store
      <3>2. r2.op = r.op /\ r2.key = r.key /\ r2.base = r.base
        BY <2>0 DEF Request
      <3> HIDE DEF r2
      <3> QED
        BY <3>1, <3>2, KeyQuietStep
    <2>9. CASE ReadPageToRestore(p)
      <3> DEFINE r2 == [r EXCEPT !.phase = "base", !.seen = page,
                                 !.base = page.draftNo]
      <3>1. req' = [req EXCEPT ![p] = r2] /\ UNCHANGED <<revs, idem>>
        BY <2>9 DEF ReadPageToRestore, store
      <3>2. r2.key = NoKey
        BY <2>0, <2>9 DEF ReadPageToRestore, RequestInv, Request
      <3> HIDE DEF r2
      <3> QED
        BY <3>1, <3>2, KeyQuietStep
    <2>10. CASE ReadPageToArchive(p)
      <3> DEFINE r2 == [r EXCEPT !.phase = "commit", !.seen = page]
      <3>1. UNCHANGED <<revs, idem>>
        BY <2>10 DEF ReadPageToArchive, store
      <3>2. r2.key = NoKey
        BY <2>0, <2>10 DEF ReadPageToArchive, RequestInv, Request
      <3>3. CASE req' = [req EXCEPT ![p] = r2]
        <4> HIDE DEF r2
        <4> QED
          BY <3>1, <3>2, <3>3, KeyQuietStep
      <3>4. CASE req' # [req EXCEPT ![p] = r2]
        BY <2>5, <2>10, <3>1, <3>4 DEF ReadPageToArchive
      <3> QED
        BY <3>3, <3>4
    <2>11. CASE ReadDraftRevision(p) \/ ReadTargetRevision(p)
      <3>1. PICK b, d :
              req' = [req EXCEPT ![p] = [r EXCEPT !.phase = "commit",
                                                  !.baseId = b, !.doc = d]]
        BY <2>11 DEF ReadDraftRevision, ReadTargetRevision
      <3> DEFINE r2 == [r EXCEPT !.phase = "commit", !.baseId = b, !.doc = d]
      <3>2. UNCHANGED <<revs, idem>> /\ r.phase = "base"
        BY <2>11 DEF ReadDraftRevision, ReadTargetRevision, store
      <3>3. r2.op = r.op /\ r2.key = r.key /\ r2.base = r.base
        BY <2>0 DEF Request
      <3> HIDE DEF r2
      <3> QED
        BY <3>1, <3>2, <3>3, KeyQuietStep DEF r2
    <2>12. CASE Reply(p) \/ Abort(p)
      <3>1. req' = [req EXCEPT ![p] = Idle] /\ UNCHANGED <<revs, idem>>
        BY <2>12 DEF Reply, Abort, store
      <3>2. Idle.key = NoKey
        BY DEF Idle, NewRequest
      <3> QED
        BY <3>1, <3>2, KeyQuietStep
    <2> QED
      BY <1>3, <2>1, <2>2, <2>3, <2>4, <2>6, <2>7, <2>8, <2>9, <2>10, <2>11,
         <2>12 DEF Step
  <1> QED
    BY <1>1, <1>2, <1>3 DEF Next

(* On the Postgres store, as long as no lookup of a key fails, a key        *)
(* produces at most one revision, however requests that carry it overlap,   *)
(* get lost or are repeated with another base.                              *)
THEOREM KeysAreIdempotent ==
  ASSUME Store = "postgres", LookupMayFail = FALSE
  PROVE  Spec => []KeyUsedOnce
  <1>1. Init => KeyInv
    <2> SUFFICES ASSUME Init PROVE KeyInv
      OBVIOUS
    <2>1. ASSUME NEW q \in Procs PROVE MissInv(req[q])
      BY DEF Init, MissInv, Idle, NewRequest
    <2> QED
      BY <2>1 DEF Init, KeyInv, KeyUsedOnce
  <1>2. IndInv /\ KeyInv /\ [Next]_vars => KeyInv'
    BY KeyInvStep
  <1>3. KeyInv => KeyUsedOnce
    BY DEF KeyInv
  <1> QED
    BY <1>1, <1>2, <1>3, Invariance, PTL DEF Spec

-------------------------------------------------------------------------------
(* The handlers implement the ledger. *)

(* Appending a revision appends its entry. *)
LEMMA LedgerLogAppend ==
  ASSUME NEW s \in Seq(Revision), NEW rev \in Revision
  PROVE  LedgerLog(Append(s, rev))
           = Append(LedgerLog(s), [kind |-> rev.kind, base |-> rev.base,
                                   doc |-> rev.doc])
  <1> DEFINE E == [kind : {"draft", "published"}, base : Nat, doc : Docs]
             e == [kind |-> rev.kind, base |-> rev.base, doc |-> rev.doc]
             t == Append(s, rev)
  <1>1. t \in Seq(Revision) /\ Len(t) = Len(s) + 1 /\ Len(s) \in Nat
        /\ t[Len(t)] = rev /\ \A i \in 1..Len(s) : t[i] = s[i]
    BY AppendProperties
  <1>2. e \in E
    BY DEF Revision
  <1>3. ASSUME NEW u \in Seq(Revision)
        PROVE  LedgerLog(u) \in Seq(E) /\ Len(LedgerLog(u)) = Len(u)
    <2>1. Len(u) \in Nat /\ \A i \in 1..Len(u) : u[i] \in Revision
      OBVIOUS
    <2>2. \A i \in 1..Len(u) : [kind |-> u[i].kind, base |-> u[i].base,
                                doc |-> u[i].doc] \in E
      BY <2>1 DEF Revision
    <2> HIDE DEF E
    <2>3. LedgerLog(u) \in Seq(E)
      BY <2>1, <2>2, IsASeq DEF LedgerLog
    <2> QED
      BY <2>1, <2>3, LenProperties DEF LedgerLog
  <1> HIDE DEF E, e, t
  <1>4. /\ Append(LedgerLog(s), e) \in Seq(E)
        /\ Len(Append(LedgerLog(s), e)) = Len(t)
        /\ Append(LedgerLog(s), e)[Len(t)] = e
        /\ \A i \in 1..Len(s) : Append(LedgerLog(s), e)[i] = LedgerLog(s)[i]
    BY <1>1, <1>2, <1>3, AppendProperties
  <1>5. \A i \in 1..Len(t) : LedgerLog(t)[i] = Append(LedgerLog(s), e)[i]
    <2>1. ASSUME NEW i \in 1..Len(s)
          PROVE  LedgerLog(t)[i] = LedgerLog(s)[i]
      BY <1>1 DEF LedgerLog
    <2>2. LedgerLog(t)[Len(t)] = e
      BY <1>1 DEF LedgerLog, e
    <2> QED
      BY <1>1, <1>4, <2>1, <2>2
  <1>6. LedgerLog(t) = Append(LedgerLog(s), e)
    BY <1>1, <1>3, <1>4, <1>5, SeqEqual
  <1> QED
    BY <1>6 DEF e, t

(* A step of the handlers is a step of the ledger or leaves it alone. *)
LEMMA LedgerStep ==
  ASSUME Store = "postgres", IndInv, [Next]_vars
  PROVE  [Ledger!Next]_(Ledger!vars)
  <1> DEFINE log == LedgerLog(revs)
  <1>1. CASE CreatePage
    <2>1. PICK d \in Docs :
            revs' = <<[no |-> 1, kind |-> "draft", base |-> 0, from |-> 0,
                       doc |-> d, via |-> "create", key |-> NoKey]>>
      BY <1>1 DEF CreatePage
    <2>2. revs = <<>> /\ page = NoPage
      BY <1>1 DEF CreatePage, IndInv, StoreInv
    <2>3. page'.draftNo = 1 /\ page'.publishedNo = page.publishedNo
      BY <1>1, <2>2 DEF CreatePage, NoPage
    <2>4. log = <<>>
      BY <2>2 DEF LedgerLog
    <2>5. LedgerLog(revs') = <<[kind |-> "draft", base |-> 0, doc |-> d]>>
      BY <2>1 DEF LedgerLog
    <2> HIDE DEF log
    <2> QED
      BY <2>3, <2>4, <2>5 DEF log, Ledger!Next, Ledger!Create, Ledger!Entry
  <1>2. ASSUME NEW p \in Procs, SaveDraftRevision(p) \/ SavePublishedRevision(p)
        PROVE  Ledger!Next
    <2> DEFINE r == req[p]
               kind == IF r.op = "publish" THEN "published" ELSE "draft"
               e == [kind |-> kind, base |-> page.draftNo, doc |-> r.doc]
    <2>1. /\ r.phase = "commit" /\ r.op # "archive"
          /\ ~Stale(r) /\ ~DuplicateNo(NextRevisionNo(r.seen))
      BY <1>2 DEF SaveDraftRevision, SavePublishedRevision
    <2>2. page.status # "absent" /\ r \in Request
      BY <2>1, ActiveMeansPage
    <2>3. /\ NextRevisionNo(r.seen) = Len(revs) + 1 /\ r.baseId = page.draftNo
          /\ r.doc \in Docs
          /\ r.op = "publish" => r.doc = revs[page.draftNo].doc
      BY <2>1, CommitIsCurrent
    <2>4. /\ revs \in Seq(Revision) /\ Len(revs) \in Nat /\ page \in Page
          /\ page.draftNo \in 1..Len(revs) /\ page.draftNo \in Nat
      BY <2>2, PageFacts
    <2>5. PICK rev \in Revision :
            /\ revs' = Append(revs, rev) /\ rev.kind = kind
            /\ rev.base = page.draftNo /\ rev.doc = r.doc
      <3>1. CASE SaveDraftRevision(p)
        <4> DEFINE rev == [no |-> Len(revs) + 1, kind |-> "draft",
                           base |-> page.draftNo, from |-> r.base,
                           doc |-> r.doc, via |-> r.op, key |-> r.key]
        <4>1. revs' = Append(revs, rev) /\ r.op \in DraftOps
          BY <2>3, <3>1 DEF SaveDraftRevision
        <4>2. rev \in Revision
          BY <2>2, <2>3, <2>4, <4>1 DEF Revision, Request
        <4> QED
          BY <4>1, <4>2
      <3>2. CASE SavePublishedRevision(p)
        <4> DEFINE rev == [no |-> Len(revs) + 1, kind |-> "published",
                           base |-> page.draftNo, from |-> r.base,
                           doc |-> r.doc, via |-> r.op, key |-> NoKey]
        <4>1. revs' = Append(revs, rev) /\ r.op = "publish"
          BY <2>3, <3>2 DEF SavePublishedRevision
        <4>2. rev \in Revision
          BY <2>2, <2>3, <2>4, <4>1 DEF Revision, Request
        <4> QED
          BY <4>1, <4>2
      <3> QED
        BY <1>2, <3>1, <3>2
    <2>6. LedgerLog(revs') = Append(log, e)
      BY <2>4, <2>5, LedgerLogAppend
    <2>7. Len(log) = Len(revs) /\ log # <<>>
          /\ log[page.draftNo].doc = revs[page.draftNo].doc
      BY <2>4, LenProperties DEF LedgerLog
    <2> HIDE DEF log
    <2>8. CASE SaveDraftRevision(p)
      <3>1. page'.draftNo = Len(revs) + 1 /\ page'.publishedNo = page.publishedNo
        BY <2>3, <2>4, <2>8 DEF SaveDraftRevision, WithDraftHead, Page
      <3>2. kind = "draft"
        BY <2>8 DEF SaveDraftRevision
      <3> QED
        BY <2>3, <2>6, <2>7, <3>1, <3>2
           DEF log, Ledger!Next, Ledger!Save, Ledger!Entry
    <2>9. CASE SavePublishedRevision(p)
      <3>1. page'.publishedNo = Len(revs) + 1 /\ page'.draftNo = page.draftNo
        BY <2>3, <2>4, <2>9 DEF SavePublishedRevision, WithPublishedHead, Page
      <3>2. kind = "published" /\ r.op = "publish"
        BY <2>9 DEF SavePublishedRevision
      <3> QED
        BY <2>3, <2>6, <2>7, <3>1, <3>2
           DEF log, Ledger!Next, Ledger!Publish, Ledger!Entry
    <2> QED
      BY <1>2, <2>8, <2>9
  <1>3. ASSUME NEW p \in Procs, ArchivePage(p) PROVE UNCHANGED Ledger!vars
    <2>1. page \in Page /\ UNCHANGED revs
      BY <1>3 DEF IndInv, TypeOK, ArchivePage
    <2>2. UNCHANGED <<page.draftNo, page.publishedNo>>
      BY <1>3, <2>1 DEF ArchivePage, WithArchivedStatus, Page
    <2> QED
      BY <2>1, <2>2 DEF Ledger!vars
  <1>4. CASE UNCHANGED store
    BY <1>4 DEF store, Ledger!vars
  <1> QED
    BY <1>1, <1>2, <1>3, <1>4
       DEF Next, Step, vars, store, ExpireReplayWindow, StartDraftWrite,
           StartPublishOrArchive, StartRestore, LookupHit, LookupMiss,
           ReadArchivedPage, ReadStalePage, ReadCurrentPage, ReadPageToRestore,
           ReadPageToArchive, ReadDraftRevision, ReadTargetRevision, RejectStale,
           RejectDuplicate, BuildConflictPayload, ArchiveConflictReadFails,
           RecordReplayWindow, Reply, Abort

(* On the Postgres store the interleaved handlers implement the atomic,     *)
(* append-only ledger: every committed transaction is one Create, Save or   *)
(* Publish, and nothing else changes the history.                           *)
THEOREM LedgerRefinement ==
  ASSUME Store = "postgres" PROVE Spec => ImplementsLedger
  <1>1. Init => Ledger!Init
    BY DEF Init, Ledger!Init, NoPage, LedgerLog
  <1>2. IndInv /\ [Next]_vars => [Ledger!Next]_(Ledger!vars)
    BY LedgerStep
  <1> QED
    BY <1>1, <1>2, Invariance, PTL DEF Spec, ImplementsLedger, Ledger!Spec

-------------------------------------------------------------------------------
(* What a step of the handlers does to the revisions and the keys. *)

(* Revisions are only added, and keys only recorded. *)
LEMMA HistoryGrows ==
  ASSUME Store = "postgres", IndInv, [Next]_vars
  PROVE  /\ Len(revs) <= Len(revs')
         /\ \A i \in 1..Len(revs) : revs'[i].via = revs[i].via
                                    /\ revs'[i].key = revs[i].key
         /\ \A k \in IdemKeys : idem[k] # 0 => idem'[k] # 0
  <1>0. revs \in Seq(Revision) /\ idem \in [IdemKeys -> Nat]
    BY DEF IndInv, TypeOK
  <1>1. CASE CreatePage
    <2>1. revs = <<>> /\ idem' = idem
      BY <1>1 DEF CreatePage, IndInv, StoreInv
    <2>2. Len(revs') = 1
      BY <1>1 DEF CreatePage
    <2> QED
      BY <2>1, <2>2
  <1>2. CASE UNCHANGED <<revs, idem>>
    BY <1>0, <1>2
  <1>3. ASSUME NEW p \in Procs, SaveDraftRevision(p) \/ SavePublishedRevision(p)
        PROVE  /\ Len(revs) <= Len(revs')
               /\ \A i \in 1..Len(revs) : revs'[i].via = revs[i].via
                                          /\ revs'[i].key = revs[i].key
               /\ \A k \in IdemKeys : idem[k] # 0 => idem'[k] # 0
    <2>1. PICK rev : revs' = Append(revs, rev)
      BY <1>3 DEF SaveDraftRevision, SavePublishedRevision
    <2>2. /\ Len(revs') = Len(revs) + 1
          /\ \A i \in 1..Len(revs) : revs'[i] = revs[i]
      BY <1>0, <2>1
    <2>3. idem' = idem \/ idem' = RecordKey(req[p], Len(revs) + 1)
      BY <1>3 DEF SaveDraftRevision, SavePublishedRevision
    <2>4. \A k \in IdemKeys : idem[k] # 0 => idem'[k] # 0
      BY <1>0, <2>3 DEF RecordKey
    <2> QED
      BY <1>0, <2>2, <2>4
  <1>4. CASE ExpireReplayWindow
    BY <1>2, <1>4 DEF ExpireReplayWindow, store
  <1>5. ASSUME NEW p \in Procs, Step(p)
        PROVE  SaveDraftRevision(p) \/ SavePublishedRevision(p)
               \/ UNCHANGED <<revs, idem>>
    BY <1>5 DEF Step, StartDraftWrite, StartPublishOrArchive, StartRestore,
       LookupHit, LookupMiss, ReadArchivedPage, ReadStalePage, ReadCurrentPage,
       ReadPageToRestore, ReadPageToArchive, ReadDraftRevision,
       ReadTargetRevision, ArchivePage, RejectStale, RejectDuplicate,
       BuildConflictPayload, ArchiveConflictReadFails, RecordReplayWindow,
       Reply, Abort, store
  <1>6. CASE UNCHANGED vars
    BY <1>2, <1>6 DEF vars
  <1> QED
    BY <1>1, <1>2, <1>3, <1>4, <1>5, <1>6 DEF Next

(* A patch that is committed stays committed. *)
LEMMA CommittedStays ==
  ASSUME Store = "postgres", IndInv, [Next]_vars, NEW k, Committed(k)
  PROVE  Committed(k)'
  <1>1. PICK i \in 1..Len(revs) : revs[i].via = "collab" /\ revs[i].key = k
    BY DEF Committed
  <1>2. Len(revs) \in Nat /\ Len(revs') \in Nat
    <2>1. IndInv'
      BY IndInvStep
    <2> QED
      BY <2>1 DEF IndInv, TypeOK
  <1>3. i \in 1..Len(revs')
    BY <1>2, HistoryGrows
  <1> QED
    BY <1>1, <1>3, HistoryGrows DEF Committed

(* Whatever all entries of the window and the new one have in common, all   *)
(* entries of the window after RecordReplayWindow have.                     *)
LEMMA WindowKeepsType ==
  ASSUME NEW T, replay \in Seq(T), NEW p \in Procs, RecordReplayWindow(p),
         [no |-> req[p].no, op |-> req[p].op,
          patch |-> IF req[p].op = "collab" THEN req[p].key ELSE NoKey] \in T
  PROVE  replay' \in Seq(T)
  <1> DEFINE r == req[p]
             entry == [no |-> r.no, op |-> r.op,
                       patch |-> IF r.op = "collab" THEN r.key ELSE NoKey]
  <1>1. entry \in T
    OBVIOUS
  <1>2. Len(replay) \in Nat /\ \A j \in 1..Len(replay) : replay[j] \in T
    OBVIOUS
  <1> HIDE DEF entry
  <1>3. ASSUME NEW expired \in 0..(IF ReplayStore = "memory"
                                   THEN Len(replay) ELSE 0)
        PROVE  LastEntries(
                 Append(SubSeq(replay, expired + 1, Len(replay)), entry),
                 ReplayLimit) \in Seq(T)
    <2>1. expired \in 0..Len(replay)
      BY <1>2
    <2>2. SubSeq(replay, expired + 1, Len(replay)) \in Seq(T)
      <3>1. \A j \in (expired + 1)..Len(replay) : replay[j] \in T
        BY <1>2, <2>1
      <3>2. expired + 1 \in Int /\ Len(replay) \in Int
        BY <1>2, <2>1
      <3> QED
        BY <3>1, <3>2, SubSeqProperties
    <2>3. Append(SubSeq(replay, expired + 1, Len(replay)), entry) \in Seq(T)
      BY <1>1, <2>2, AppendProperties
    <2> QED
      BY <2>3, LastEntriesType, ConstantsAssumption
  <1> QED
    BY <1>3 DEF RecordReplayWindow, entry

(* Only RecordReplayWindow and the expiry of the window change it. *)
LEMMA WindowSteps ==
  ASSUME [Next]_vars
  PROVE  \/ \E p \in Procs : RecordReplayWindow(p)
         \/ ExpireReplayWindow
         \/ replay' = replay
  <1>1. ASSUME NEW p \in Procs, Step(p) PROVE RecordReplayWindow(p) \/ replay' = replay
    BY <1>1 DEF Step, StartDraftWrite, StartPublishOrArchive, StartRestore,
       LookupHit, LookupMiss, ReadArchivedPage, ReadStalePage, ReadCurrentPage,
       ReadPageToRestore, ReadPageToArchive, ReadDraftRevision,
       ReadTargetRevision, SaveDraftRevision, SavePublishedRevision,
       ArchivePage, RejectStale, RejectDuplicate, BuildConflictPayload,
       ArchiveConflictReadFails, Reply, Abort
  <1>2. CASE CreatePage \/ UNCHANGED vars
    BY <1>2 DEF CreatePage, vars
  <1> QED
    BY <1>1, <1>2 DEF Next

(* A handler appends to the replay window only what it has committed. *)
LEMMA AppendedIsCommitted ==
  ASSUME IndInv, PatchInv, NEW p \in Procs, RecordReplayWindow(p),
         NEW i \in 1..Len(replay'), replay'[i].patch # NoKey
  PROVE  Committed(replay'[i].patch)
  <1> DEFINE r == req[p]
             entry == [no |-> r.no, op |-> r.op,
                       patch |-> IF r.op = "collab" THEN r.key ELSE NoKey]
             T == {e \in ReplayEntry : e.patch # NoKey => Committed(e.patch)}
  <1>1. r.phase = "append" /\ r \in Request /\ RequestInv(r)
    BY DEF RecordReplayWindow, IndInv, TypeOK
  <1>2. entry \in ReplayEntry
    BY <1>1 DEF ReplayEntry, Request, RequestInv
  <1>3. entry.patch # NoKey => Committed(entry.patch)
    BY <1>1 DEF RequestInv, Committed
  <1>4. entry \in T
    BY <1>2, <1>3
  <1>5. replay \in Seq(ReplayEntry) /\ Len(replay) \in Nat
    BY DEF IndInv, TypeOK
  <1>6. \A j \in 1..Len(replay) : replay[j] \in T
    BY <1>5 DEF PatchInv
  <1> HIDE DEF entry, T
  <1>7. replay \in Seq(T)
    BY <1>5, <1>6, SeqDef
  <1>8. replay' \in Seq(T)
    BY <1>4, <1>7, WindowKeepsType DEF entry
  <1>9. replay'[i] \in T
    BY <1>8
  <1> QED
    BY <1>9 DEF T

(* PatchInv is preserved by the handlers: a save records its key in the     *)
(* transaction that makes the revision.                                     *)
LEMMA PatchInvStep ==
  ASSUME Store = "postgres", IndInv, PatchInv, [Next]_vars
  PROVE  PatchInv'
  <1>1. ASSUME NEW i \in 1..Len(replay'), replay'[i].patch # NoKey,
               NEW k, k = replay'[i].patch
        PROVE  Committed(k)'
    <2>1. CASE \E p \in Procs : RecordReplayWindow(p)
      <3>1. Committed(k)
        BY <1>1, <2>1, AppendedIsCommitted
      <3> QED
        BY <3>1, CommittedStays
    <2>2. CASE replay' = replay
      <3>1. Committed(k)
        BY <1>1, <2>2 DEF PatchInv
      <3> QED
        BY <3>1, CommittedStays
    <2>3. CASE ExpireReplayWindow
      BY <1>1, <2>3 DEF ExpireReplayWindow
    <2> QED
      BY <2>1, <2>2, <2>3, WindowSteps
  <1>2. ASSUME NEW i \in 1..Len(revs'), revs'[i].via = "collab",
               revs'[i].key \in Keys
        PROVE  idem'[<<"collab", revs'[i].key>>] # 0
    <2>0. revs \in Seq(Revision) /\ idem \in [IdemKeys -> Nat]
      BY DEF IndInv, TypeOK
    <2>1. CASE i \in 1..Len(revs)
      <3>1. idem[<<"collab", revs[i].key>>] # 0 /\ revs'[i].key = revs[i].key
        BY <1>2, <2>1, HistoryGrows DEF PatchInv
      <3>2. <<"collab", revs[i].key>> \in IdemKeys
        BY <1>2, <3>1 DEF IdemKeys
      <3> QED
        BY <3>1, <3>2, HistoryGrows
    <2>2. ASSUME NEW p \in Procs, SaveDraftRevision(p), i \notin 1..Len(revs)
          PROVE  idem'[<<"collab", revs'[i].key>>] # 0
      <3> DEFINE r == req[p]
                 rev == [no |-> NextRevisionNo(r.seen), kind |-> "draft",
                         base |-> r.baseId, from |-> r.base, doc |-> r.doc,
                         via |-> r.op, key |-> r.key]
      <3>0. revs' = Append(revs, rev)
        BY <2>2 DEF SaveDraftRevision
      <3>1. rev.via = r.op /\ rev.key = r.key
        OBVIOUS
      <3> HIDE DEF rev
      <3>2. revs'[i] = rev
        BY <1>2, <2>0, <2>2, <3>0
      <3>3. r.op = "collab" /\ r.key \in Keys /\ r.key # NoKey
        BY <1>2, <3>1, <3>2, ConstantsAssumption
      <3>4. IdemKey(r) = <<"collab", revs'[i].key>> /\ IdemKey(r) \in IdemKeys
        BY <3>1, <3>2, <3>3 DEF IdemKey, IdemKeys
      <3>5. idem' = RecordKey(r, Len(revs) + 1)
        BY <2>2 DEF SaveDraftRevision
      <3>6. CASE idem[IdemKey(r)] # 0
        BY <3>3, <3>4, <3>5, <3>6 DEF RecordKey
      <3>7. CASE idem[IdemKey(r)] = 0
        BY <2>0, <3>3, <3>4, <3>5, <3>7 DEF RecordKey
      <3> QED
        BY <3>6, <3>7
    <2>3. ASSUME NEW p \in Procs, SavePublishedRevision(p), i \notin 1..Len(revs)
          PROVE  FALSE
      <3>1. PICK rev : revs' = Append(revs, rev) /\ rev.via = req[p].op
        BY <2>3 DEF SavePublishedRevision
      <3>2. revs'[i] = rev
        BY <1>2, <2>0, <2>3, <3>1
      <3> QED
        BY <1>2, <2>3, <3>1, <3>2 DEF SavePublishedRevision
    <2>4. CASE CreatePage
      <3>1. \E d \in Docs :
              revs' = <<[no |-> 1, kind |-> "draft", base |-> 0, from |-> 0,
                         doc |-> d, via |-> "create", key |-> NoKey]>>
        BY <2>4 DEF CreatePage
      <3> QED
        BY <1>2, <3>1
    <2>5. ASSUME NEW p \in Procs, Step(p)
          PROVE  SaveDraftRevision(p) \/ SavePublishedRevision(p) \/ revs' = revs
      BY <2>5 DEF Step, StartDraftWrite, StartPublishOrArchive, StartRestore,
         LookupHit, LookupMiss, ReadArchivedPage, ReadStalePage, ReadCurrentPage,
         ReadPageToRestore, ReadPageToArchive, ReadDraftRevision,
         ReadTargetRevision, ArchivePage, RejectStale, RejectDuplicate,
         BuildConflictPayload, ArchiveConflictReadFails, RecordReplayWindow,
         Reply, Abort, store
    <2>6. CASE ExpireReplayWindow \/ UNCHANGED vars
      BY <1>2, <2>1, <2>6 DEF ExpireReplayWindow, vars, store
    <2> QED
      BY <1>2, <2>1, <2>2, <2>3, <2>4, <2>5, <2>6 DEF Next
  <1> QED
    BY <1>1, <1>2 DEF PatchInv

-------------------------------------------------------------------------------
(* The resynchronisation. *)

(* While handlers run, what a resynchronisation has found stays true. *)
LEMMA SyncInvQuiet ==
  ASSUME Store = "postgres", IndInv, SyncInv, [Next]_vars, UNCHANGED sync
  PROVE  SyncInv'
  <1>1. SyncTypeOK'
    BY DEF SyncInv, SyncTypeOK
  <1>2. ReplayedIsCommitted'
    <2> SUFFICES ASSUME NEW k \in sync.replayed PROVE Committed(k)'
      BY DEF ReplayedIsCommitted, Committed
    <2>1. Committed(k)
      BY DEF SyncInv, ReplayedIsCommitted, Committed
    <2> QED
      BY <2>1, CommittedStays
  <1>3. Len(revs) \in Nat /\ Len(revs') \in Nat
    <2>1. IndInv'
      BY IndInvStep
    <2> QED
      BY <2>1 DEF IndInv, TypeOK
  <1>4. sync'.head \in 0..Len(revs')
    BY <1>3, HistoryGrows DEF SyncInv
  <1>5. ASSUME NEW i \in 1..sync.head
        PROVE  revs'[i].via = revs[i].via /\ revs'[i].key = revs[i].key
    <2>1. i \in 1..Len(revs)
      BY <1>3 DEF SyncInv
    <2> QED
      BY <2>1, HistoryGrows
  <1> QED
    BY <1>1, <1>2, <1>4, <1>5 DEF SyncInv

(* The steps of the resynchronisation itself. *)
LEMMA SyncInvStep ==
  ASSUME IndInv, PatchInv, SyncInv, SyncStep
  PROVE  SyncInv'
  <1>0. UNCHANGED vars
    BY DEF SyncStep, StartSync, ReadSyncHead, ListReplayEntries, ClassifyPatch,
           AnswerSync, EndSync
  <1>a. /\ UNCHANGED <<page, revs, idem, replay>>
        /\ sync \in Sync /\ revs \in Seq(Revision) /\ Len(revs) \in Nat
    BY <1>0 DEF vars, SyncInv, SyncTypeOK, IndInv, TypeOK
  <1>1. CASE EndSync
    <2>1. sync' = NoSync
      BY <1>1 DEF EndSync
    <2>2. /\ sync' \in Sync /\ sync'.replayed = {} /\ sync'.head = 0
          /\ sync'.phase = "idle"
      BY <2>1 DEF NoSync, Sync
    <2> QED
      BY <1>a, <2>2 DEF SyncInv, SyncTypeOK, ReplayedIsCommitted
  <1>6. CASE StartSync
    <2>1. PICK l \in 1..page.draftNo, t \in 0..page.draftNo, ps \in SUBSET Keys :
            sync' = [NoSync EXCEPT !.phase = "head", !.last = l, !.token = t,
                                   !.pending = ps]
      BY <1>6 DEF StartSync
    <2>2. page.draftNo \in Nat
      BY DEF IndInv, TypeOK, Page
    <2>3. l \in Nat /\ t \in Nat
      BY <2>2
    <2>4. sync' = [phase |-> "head", last |-> l, pending |-> ps, token |-> t,
                   head |-> 0, entries |-> {}, todo |-> {}, replayed |-> {},
                   mode |-> "none"]
      BY <2>1 DEF NoSync
    <2>5. /\ sync' \in Sync /\ sync'.replayed = {} /\ sync'.head = 0
          /\ sync'.phase = "head"
      BY <2>3, <2>4 DEF Sync
    <2> QED
      BY <1>a, <2>5 DEF SyncInv, SyncTypeOK, ReplayedIsCommitted
  <1>2. CASE ReadSyncHead
    <2>1. sync' = [sync EXCEPT !.phase = "entries", !.head = page.draftId]
      BY <1>2 DEF ReadSyncHead
    <2>2. page.draftId \in 0..Len(revs)
      <3>1. CASE page.status = "absent"
        BY <1>a, <3>1 DEF IndInv, StoreInv, NoPage
      <3>2. CASE page.status # "absent"
        BY <1>a, <3>2 DEF IndInv, StoreInv
      <3> QED
        BY <3>1, <3>2
    <2>3. /\ sync' \in Sync /\ sync'.head = page.draftId
          /\ sync'.replayed = sync.replayed /\ sync'.phase = "entries"
      <3>1. page.draftId \in Nat
        BY <1>a, <2>2
      <3> HIDE <2>2
      <3> QED
        BY <1>a, <2>1, <3>1 DEF Sync
    <2> QED
      BY <1>a, <2>2, <2>3 DEF SyncInv, SyncTypeOK, ReplayedIsCommitted
  <1>3. CASE ListReplayEntries
    <2> DEFINE window == {replay[i] : i \in 1..Len(replay)}
               listed == {e \in window : e.no > sync.last}
               found == sync.pending \cap InWindow(listed)
               rest == sync.pending \ InWindow(listed)
    <2>1. sync' = [sync EXCEPT !.phase = "classify", !.entries = listed,
                               !.replayed = found, !.todo = rest]
      BY <1>3 DEF ListReplayEntries
    <2>2. listed \in SUBSET ReplayEntry
      BY DEF IndInv, TypeOK
    <2>3. found \in SUBSET Keys /\ rest \in SUBSET Keys
      BY <1>a DEF Sync
    <2>4. ASSUME NEW k \in found PROVE Committed(k)
      <3>1. PICK e \in listed : e.patch = k /\ k # NoKey
        BY DEF InWindow
      <3>2. PICK i \in 1..Len(replay) : replay[i] = e
        OBVIOUS
      <3> QED
        BY <3>1, <3>2 DEF PatchInv
    <2>5. sync.pending \ (found \cup rest) = {}
      OBVIOUS
    <2> HIDE DEF listed, found, rest
    <2>6. /\ sync' \in Sync /\ sync'.replayed = found /\ sync'.todo = rest
          /\ sync'.head = sync.head /\ sync'.pending = sync.pending
          /\ sync'.phase = "classify"
      BY <1>a, <2>1, <2>2, <2>3 DEF Sync
    <2>7. ReplayedIsCommitted'
      BY <1>a, <2>4, <2>6 DEF ReplayedIsCommitted, Committed
    <2> QED
      BY <1>a, <2>5, <2>6, <2>7 DEF SyncInv, SyncTypeOK
  <1>4. CASE ClassifyPatch
    <2>1. PICK k \in sync.todo :
            \/ /\ idem[<<"collab", k>>] # 0
               /\ sync' = [sync EXCEPT !.todo = @ \ {k}, !.replayed = @ \cup {k}]
            \/ /\ idem[<<"collab", k>>] = 0 \/ LookupMayFail
               /\ sync' = [sync EXCEPT !.todo = @ \ {k}]
      BY <1>4 DEF ClassifyPatch
    <2>2. k \in Keys /\ <<"collab", k>> \in IdemKeys /\ sync.phase = "classify"
      BY <1>4, <1>a DEF Sync, IdemKeys, ClassifyPatch
    <2>3. CASE /\ idem[<<"collab", k>>] # 0
               /\ sync' = [sync EXCEPT !.todo = @ \ {k}, !.replayed = @ \cup {k}]
      <3>1. Committed(k)
        BY <2>2, <2>3 DEF IndInv, IdemInv, Committed
      <3>2. sync' = [sync EXCEPT !.todo = @ \ {k}, !.replayed = @ \cup {k}]
        BY <2>3
      <3>3. /\ sync' \in Sync /\ sync'.replayed = sync.replayed \cup {k}
            /\ sync'.todo = sync.todo \ {k} /\ sync'.head = sync.head
            /\ sync'.pending = sync.pending /\ sync'.phase = "classify"
        BY <1>a, <2>2, <3>2 DEF Sync
      <3>4. ReplayedIsCommitted'
        BY <1>a, <3>1, <3>3 DEF ReplayedIsCommitted, Committed, SyncInv
      <3> QED
        BY <1>a, <2>2, <3>3, <3>4 DEF SyncInv, SyncTypeOK
    <2>4. CASE /\ idem[<<"collab", k>>] = 0 \/ LookupMayFail
               /\ sync' = [sync EXCEPT !.todo = @ \ {k}]
      <3>1. ~LookupMayFail => \A i \in 1..Len(revs) :
                                 ~(revs[i].via = "collab" /\ revs[i].key = k)
        BY <2>2, <2>4 DEF PatchInv
      <3>2. sync' = [sync EXCEPT !.todo = @ \ {k}]
        BY <2>4
      <3>3. /\ sync' \in Sync /\ sync'.replayed = sync.replayed
            /\ sync'.todo = sync.todo \ {k} /\ sync'.head = sync.head
            /\ sync'.pending = sync.pending /\ sync'.phase = "classify"
        BY <1>a, <2>2, <3>2 DEF Sync
      <3>4. ReplayedIsCommitted'
        BY <1>a, <3>3 DEF ReplayedIsCommitted, SyncInv
      <3>5. \A i \in 1..sync.head : i \in 1..Len(revs)
        BY <1>a DEF SyncInv
      <3> QED
        BY <1>a, <2>2, <3>1, <3>3, <3>4, <3>5 DEF SyncInv, SyncTypeOK
    <2> QED
      BY <2>1, <2>3, <2>4
  <1>5. CASE AnswerSync
    <2>1. PICK mode \in {"resume", "replace"} :
            sync' = [sync EXCEPT !.phase = "done", !.mode = mode]
      BY <1>5 DEF AnswerSync
    <2>2. /\ sync' \in Sync /\ sync'.replayed = sync.replayed
          /\ sync'.todo = {} /\ sync.todo = {} /\ sync'.head = sync.head
          /\ sync'.pending = sync.pending /\ sync.phase = "classify"
      BY <1>5, <1>a, <2>1 DEF Sync, AnswerSync
    <2>3. ReplayedIsCommitted'
      BY <1>a, <2>2 DEF ReplayedIsCommitted, SyncInv
    <2> QED
      BY <1>a, <2>2, <2>3 DEF SyncInv, SyncTypeOK
  <1> QED
    BY <1>1, <1>2, <1>3, <1>4, <1>5, <1>6 DEF SyncStep

-------------------------------------------------------------------------------
(* The document an editor keeps. *)

(* What an entry says of a revision stays true: revisions are only added. *)
LEMMA EntryStays ==
  ASSUME Store = "postgres", IndInv, [Next]_vars, NEW e, EntryInv(e)
  PROVE  EntryInv(e)'
  <1>1. Len(revs) \in Nat /\ Len(revs') \in Nat
    <2>1. IndInv'
      BY IndInvStep
    <2> QED
      BY <2>1 DEF IndInv, TypeOK
  <1>2. e.no \in 1..Len(revs) => e.no \in 1..Len(revs')
    BY <1>1, HistoryGrows
  <1> QED
    BY <1>2, HistoryGrows DEF EntryInv

(* A handler appends its own, committed revision to the window. *)
LEMMA AppendedEntryIsTrue ==
  ASSUME IndInv, \A j \in 1..Len(replay) : EntryInv(replay[j]),
         NEW p \in Procs, RecordReplayWindow(p), NEW i \in 1..Len(replay')
  PROVE  EntryInv(replay'[i])
  <1> DEFINE r == req[p]
             entry == [no |-> r.no, op |-> r.op,
                       patch |-> IF r.op = "collab" THEN r.key ELSE NoKey]
             T == {e \in ReplayEntry : EntryInv(e)}
  <1>1. r.phase = "append" /\ r \in Request /\ RequestInv(r)
    BY DEF RecordReplayWindow, IndInv, TypeOK
  <1>2. entry \in ReplayEntry
    BY <1>1 DEF ReplayEntry, Request, RequestInv
  <1>3. EntryInv(entry)
    BY <1>1 DEF RequestInv, EntryInv
  <1>4. entry \in T
    BY <1>2, <1>3
  <1>5. replay \in Seq(ReplayEntry) /\ Len(replay) \in Nat
    BY DEF IndInv, TypeOK
  <1>6. \A j \in 1..Len(replay) : replay[j] \in T
    BY <1>5
  <1> HIDE DEF entry, T
  <1>7. replay \in Seq(T)
    BY <1>5, <1>6, SeqDef
  <1>8. replay' \in Seq(T)
    BY <1>4, <1>7, WindowKeepsType DEF entry
  <1>9. replay'[i] \in T
    BY <1>8
  <1> QED
    BY <1>9 DEF T

(* While handlers run, the window stays true and so does what was decided. *)
LEMMA KeptInvQuiet ==
  ASSUME Store = "postgres", IndInv, KeptInv, [Next]_vars, UNCHANGED sync
  PROVE  KeptInv'
  <1>1. ASSUME NEW i \in 1..Len(replay'), NEW e, e = replay'[i]
        PROVE  EntryInv(e)'
    <2>1. CASE \E p \in Procs : RecordReplayWindow(p)
      <3>1. EntryInv(e)
        BY <1>1, <2>1, AppendedEntryIsTrue DEF KeptInv
      <3> QED
        BY <3>1, EntryStays
    <2>2. CASE replay' = replay
      <3>1. EntryInv(e)
        BY <1>1, <2>2 DEF KeptInv
      <3> QED
        BY <3>1, EntryStays
    <2>3. CASE ExpireReplayWindow
      BY <1>1, <2>3 DEF ExpireReplayWindow
    <2> QED
      BY <2>1, <2>2, <2>3, WindowSteps
  <1>2. ASSUME NEW e \in sync.entries PROVE EntryInv(e)'
    <2>1. EntryInv(e)
      BY DEF KeptInv
    <2> QED
      BY <2>1, EntryStays
  <1>3. \A i \in 1..Len(replay') : EntryInv(replay[i])'
    BY <1>1
  <1>4. \A e \in sync'.entries : EntryInv(e)'
    BY <1>2
  <1> QED
    BY <1>3, <1>4 DEF KeptInv, Answered

(* The steps of the resynchronisation itself. *)
LEMMA KeptInvStep ==
  ASSUME IndInv, SyncInv, KeptInv, SyncStep
  PROVE  KeptInv'
  <1>0. UNCHANGED vars
    BY DEF SyncStep, StartSync, ReadSyncHead, ListReplayEntries, ClassifyPatch,
           AnswerSync, EndSync
  <1>a. /\ UNCHANGED <<page, revs, replay>>
        /\ sync \in Sync /\ Len(revs) \in Nat
    BY <1>0 DEF vars, SyncInv, SyncTypeOK, IndInv, TypeOK
  <1>b. \A e : EntryInv(e)' <=> EntryInv(e)
    BY <1>a DEF EntryInv
  <1>c. \A i \in 1..Len(replay') : EntryInv(replay[i])'
    BY <1>a DEF KeptInv, EntryInv
  <1>1. CASE StartSync \/ EndSync
    <2>1. CASE StartSync
      <3>1. PICK l, t, ps :
              sync' = [NoSync EXCEPT !.phase = "head", !.last = l, !.token = t,
                                     !.pending = ps]
        BY <2>1 DEF StartSync
      <3>2. sync' = [phase |-> "head", last |-> l, pending |-> ps, token |-> t,
                     head |-> 0, entries |-> {}, todo |-> {}, replayed |-> {},
                     mode |-> "none"]
        BY <3>1 DEF NoSync
      <3>3. /\ sync'.entries = {} /\ sync'.replayed = {} /\ sync'.todo = {}
            /\ sync'.phase # "done"
        BY <3>2
      <3> QED
        BY <1>c, <3>3 DEF KeptInv, Answered
    <2>2. CASE EndSync
      <3>1. /\ sync'.entries = {} /\ sync'.replayed = {} /\ sync'.todo = {}
            /\ sync'.phase # "done"
        BY <2>2 DEF EndSync, NoSync
      <3> QED
        BY <1>c, <3>1 DEF KeptInv, Answered
    <2> QED
      BY <1>1, <2>1, <2>2
  <1>2. CASE ReadSyncHead
    <2>1. /\ sync'.entries = sync.entries /\ sync'.replayed = sync.replayed
          /\ sync'.todo = sync.todo /\ sync'.pending = sync.pending
          /\ sync'.phase = "entries"
      BY <1>2, <1>a DEF ReadSyncHead, Sync
    <2> QED
      BY <1>b, <1>c, <2>1 DEF KeptInv, Answered
  <1>3. CASE ListReplayEntries
    <2> DEFINE window == {replay[i] : i \in 1..Len(replay)}
               listed == {e \in window : e.no > sync.last}
    <2>1. sync' = [sync EXCEPT !.phase = "classify", !.entries = listed,
                               !.replayed = sync.pending \cap InWindow(listed),
                               !.todo = sync.pending \ InWindow(listed)]
      BY <1>3 DEF ListReplayEntries
    <2>2. \A e \in listed : EntryInv(e)
      BY DEF KeptInv
    <2> HIDE DEF listed
    <2>3. /\ sync'.entries = listed /\ sync'.pending = sync.pending
          /\ sync'.replayed \cup sync'.todo \subseteq sync.pending
          /\ sync'.phase = "classify"
      BY <1>a, <2>1 DEF Sync
    <2> QED
      BY <1>b, <1>c, <2>2, <2>3 DEF KeptInv, Answered
  <1>4. CASE ClassifyPatch
    <2>1. PICK k \in sync.todo :
            \/ sync' = [sync EXCEPT !.todo = @ \ {k}, !.replayed = @ \cup {k}]
            \/ sync' = [sync EXCEPT !.todo = @ \ {k}]
      BY <1>4 DEF ClassifyPatch
    <2>2. sync.phase = "classify" /\ sync.replayed \cup sync.todo \subseteq sync.pending
      BY <1>4 DEF ClassifyPatch, KeptInv
    <2>3. /\ sync'.entries = sync.entries /\ sync'.pending = sync.pending
          /\ sync'.replayed \in {sync.replayed, sync.replayed \cup {k}}
          /\ sync'.todo = sync.todo \ {k} /\ sync'.phase = "classify"
      BY <1>a, <2>1, <2>2 DEF Sync
    <2>4. sync'.replayed \cup sync'.todo \subseteq sync.pending
      BY <2>2, <2>3
    <2> QED
      BY <1>b, <1>c, <2>3, <2>4 DEF KeptInv, Answered
  <1>5. CASE AnswerSync
    <2>1. /\ sync'.entries = sync.entries /\ sync'.pending = sync.pending
          /\ sync'.replayed = sync.replayed /\ sync'.todo = sync.todo
          /\ sync'.last = sync.last /\ sync'.head = sync.head
          /\ sync'.mode = "resume" => CanResumeWithoutReload(sync)
      BY <1>5, <1>a DEF AnswerSync, Sync
    <2>2. ASSUME CanResumeWithoutReload(sync), sync.head # 0
          PROVE  \/ sync.last = sync.head
                 \/ \A e \in sync.entries :
                       e.op = "collab" /\ e.patch \in sync.replayed
      <3>1. sync.head \in 1..Len(revs)
        BY <1>a, <2>2 DEF SyncInv
      <3>2. revs[sync.head].no = sync.head
        BY <3>1 DEF IndInv, StoreInv, NumbersFollowAcceptance
      <3> QED
        BY <2>2, <3>2 DEF CanResumeWithoutReload
    <2> QED
      BY <1>b, <1>c, <2>1, <2>2 DEF KeptInv
  <1> QED
    BY <1>1, <1>2, <1>3, <1>4, <1>5 DEF SyncStep

-------------------------------------------------------------------------------
(* The theorems. *)

LEMMA SyncInvariant ==
  ASSUME Store = "postgres"
  PROVE  SyncSpec => [](IndInv /\ PatchInv /\ SyncInv /\ KeptInv)
  <1>1. SyncInit => IndInv /\ PatchInv /\ SyncInv /\ KeptInv
    <2> SUFFICES ASSUME SyncInit PROVE IndInv /\ PatchInv /\ SyncInv /\ KeptInv
      OBVIOUS
    <2>1. Init /\ sync = NoSync /\ revs = <<>> /\ replay = <<>>
      BY DEF SyncInit, Init
    <2>2. /\ sync \in Sync /\ sync.replayed = {} /\ sync.head = 0
          /\ sync.phase = "idle" /\ sync.entries = {} /\ sync.todo = {}
      BY <2>1 DEF NoSync, Sync
    <2> QED
      BY <2>1, <2>2, InitInv
         DEF PatchInv, SyncInv, SyncTypeOK, ReplayedIsCommitted, KeptInv, Answered
  <1>2. IndInv /\ PatchInv /\ SyncInv /\ KeptInv /\ [SyncNext]_syncVars
          => (IndInv /\ PatchInv /\ SyncInv /\ KeptInv)'
    <2> SUFFICES ASSUME IndInv, PatchInv, SyncInv, KeptInv, [SyncNext]_syncVars
                 PROVE  (IndInv /\ PatchInv /\ SyncInv /\ KeptInv)'
      OBVIOUS
    <2>1. CASE SyncStep
      <3>1. UNCHANGED vars
        BY <2>1 DEF SyncStep, StartSync, ReadSyncHead, ListReplayEntries,
           ClassifyPatch, AnswerSync, EndSync
      <3> QED
        BY <2>1, <3>1, IndInvStep, PatchInvStep, SyncInvStep, KeptInvStep
    <2>2. CASE [Next]_vars /\ UNCHANGED sync
      BY <2>2, IndInvStep, PatchInvStep, SyncInvQuiet, KeptInvQuiet
    <2> QED
      BY <2>1, <2>2 DEF SyncNext, syncVars
  <1> QED
    BY <1>1, <1>2, PTL DEF SyncSpec

(* What ResumeEditorSync says is in the page is in the page: the editor may *)
(* drop a patch it is told of, whatever the replay window has lost or       *)
(* dropped, whatever lookup fails and whatever commits during the reads.    *)
THEOREM ReplayedPatchesAreCommitted ==
  ASSUME Store = "postgres"
  PROVE  SyncSpec => []ReplayedIsCommitted
  <1>1. SyncInv => ReplayedIsCommitted
    BY DEF SyncInv
  <1> QED
    BY <1>1, SyncInvariant, PTL

(* What ResumeEditorSync asks for again is not in the head it answers with, *)
(* although it reads the head first and the table of keys last.             *)
THEOREM MissingPatchesAreNotInHead ==
  ASSUME Store = "postgres", LookupMayFail = FALSE
  PROVE  SyncSpec => []MissingIsNotInHead
  <1>1. SyncInv => MissingIsNotInHead
    BY DEF SyncInv, MissingIsNotInHead, Answered
  <1> QED
    BY <1>1, SyncInvariant, PTL

(* An editor that ResumeEditorSync tells to keep its document has made every *)
(* draft change up to the head itself, as far as the window listed them,    *)
(* whatever commits between the reads and whatever the window has lost.     *)
THEOREM KeptDocumentsAreOwn ==
  ASSUME Store = "postgres"
  PROVE  SyncSpec => []KeptDocumentIsOwn
  <1>1. IndInv /\ SyncInv /\ KeptInv => KeptDocumentIsOwn
    <2> SUFFICES ASSUME IndInv, SyncInv, KeptInv, Answered, sync.mode = "resume",
                        NEW i \in 1..sync.head, revs[i].no > sync.last,
                        NEW e \in sync.entries, e.no = revs[i].no
                 PROVE  revs[i].via = "collab" /\ revs[i].key \in sync.pending
      BY DEF KeptDocumentIsOwn
    <2>1. /\ sync.head \in 0..Len(revs) /\ Len(revs) \in Nat
          /\ sync.last \in Nat
      BY DEF SyncInv, SyncTypeOK, Sync, IndInv, TypeOK
    <2>2. i \in 1..Len(revs) /\ sync.head # 0 /\ i <= sync.head
      BY <2>1
    <2>3. revs[i].no = i
      BY <2>2 DEF IndInv, StoreInv, NumbersFollowAcceptance
    <2>4. sync.last # sync.head
      BY <2>1, <2>2, <2>3
    <2>5. e.op = "collab" /\ e.patch \in sync.replayed
      BY <2>2, <2>4 DEF KeptInv
    <2>6. revs[i].via = "collab" /\ revs[i].key = e.patch
      BY <2>3, <2>5 DEF KeptInv, EntryInv
    <2> QED
      BY <2>5, <2>6 DEF KeptInv
  <1> QED
    BY <1>1, SyncInvariant, PTL

===============================================================================
