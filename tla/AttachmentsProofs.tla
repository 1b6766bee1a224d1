-------------------------- MODULE AttachmentsProofs --------------------------
(***************************************************************************)
(* Proofs about Attachments on the Postgres store, for any set of files,   *)
(* any number of handlers and of revisions.                                *)
(*                                                                         *)
(* SavedPagesOpen is about the end of a read; what makes it true happened  *)
(* when the document was saved.  The induction carries it along: a file    *)
(* that passed a check has left the states "absent" and "uploading" for    *)
(* good (Settled), a document is saved when all its files have passed, and *)
(* a reader starts from a saved document.                                  *)
(***************************************************************************)
EXTENDS Attachments, TLAPS

Settled(f) == file[f] \in {"ready", "deleted"}

(* The files of every revision are settled. *)
RevisionsSettled == \A i \in 1..Len(drafts) : \A f \in drafts[i] : Settled(f)

(* A session is completed when its file is ready, and never before. *)
SessionInv ==
    \A f \in Files : /\ f \in done => Settled(f)
                     /\ file[f] = "ready" => f \in done

(* What a handler knows of the file or the document it works on. *)
JobInv(p) ==
    /\ job[p].op \in {"complete", "delete"} => job[p].file \in Files
    /\ job[p].phase = "read" => job[p].left = {}
    /\ job[p].left \subseteq job[p].doc
    /\ \A f \in job[p].doc \ job[p].left : Settled(f)
    /\ job[p].op \in PageReads => \A f \in job[p].doc : Settled(f)
    /\ job[p].phase = "commit" => job[p].left = {}
    /\ job[p].op \in PageReads /\ job[p].outcome = "unavailable" =>
         \E f \in job[p].doc : file[f] = "deleted"

IndInv ==
    /\ TypeOK
    /\ RevisionsSettled
    /\ SessionInv
    /\ \A p \in Procs : JobInv(p)

(* What a step may do to the status of a file. *)
FileStep ==
    \A f \in Files : /\ file[f] = "deleted" => file'[f] = "deleted"
                     /\ file[f] = "ready" => file'[f] \in {"ready", "deleted"}

-------------------------------------------------------------------------------
(* On Postgres no step brings a deleted file back or unmakes a ready one. *)
LEMMA FilesMoveForward ==
    ASSUME TypeOK, FileStore = "postgres", [Next]_vars
    PROVE  FileStep
<1> USE DEF TypeOK, FileStep, FileStatus
<1>1. CASE UNCHANGED file
  BY <1>1
<1>2. ASSUME NEW f \in Files, StartUpload(f) PROVE FileStep
  BY <1>2 DEF StartUpload, CreateUploadSession
<1>3. ASSUME NEW p \in Procs, CompleteUpload(p) PROVE FileStep
  BY <1>3 DEF CompleteUpload, CompletableRow, Live, fileRows
<1>4. ASSUME NEW p \in Procs, SoftDelete(p) PROVE FileStep
  BY <1>4 DEF SoftDelete, Live
<1> QED
  BY <1>1, <1>2, <1>3, <1>4
  DEF Next, FileHandler, PageHandler, GetUploadSession, StartDelete, GetFile,
      StartSave, StartRestore, StartView, CheckAttachment, AllChecked,
      SaveDraft, Publish, End, fileRows, vars

(* A handler other than the one that steps keeps its invariant, and so do  *)
(* the revisions, because files only move forward.                         *)
LEMMA OthersKeepJobInv ==
    ASSUME TypeOK, FileStep, NEW p \in Procs, JobInv(p), job'[p] = job[p]
    PROVE  JobInv(p)'
BY DEF TypeOK, Job, FileStep, JobInv, Settled

(* Handler p goes from job to r; the others stay. *)
JobStep(p, r) ==
    /\ job' \in [Procs -> Job]
    /\ \A q \in Procs \ {p} : job'[q] = job[q]
    /\ job'[p] = r

(* A handler that replaces its job. *)
LEMMA JobReplaced ==
    ASSUME job \in [Procs -> Job], NEW p \in Procs, NEW r \in Job,
           job' = [job EXCEPT ![p] = r]
    PROVE  JobStep(p, r)
BY DEF JobStep

(* A handler that answers, or goes to its next phase. *)
LEMMA JobAnswered ==
    ASSUME job \in [Procs -> Job], NEW p \in Procs,
           NEW o \in {"ok", "notFound", "unavailable", "conflict"},
           Answer(p, o)
    PROVE  \E r \in Job : /\ JobStep(p, r)
                          /\ r.op = job[p].op /\ r.phase = "reply"
                          /\ r.file = job[p].file /\ r.doc = job[p].doc
                          /\ r.left = job[p].left /\ r.outcome = o
<1> DEFINE r == [job[p] EXCEPT !.phase = "reply", !.outcome = o]
<1>1. /\ r \in Job
      /\ r.op = job[p].op /\ r.phase = "reply" /\ r.file = job[p].file
      /\ r.doc = job[p].doc /\ r.left = job[p].left /\ r.outcome = o
  BY DEF Job
<1>2. job' = [job EXCEPT ![p] = r]
  BY DEF Answer
<1> HIDE DEF r
<1>3. JobStep(p, r)
  BY <1>1, <1>2, JobReplaced
<1> QED
  BY <1>1, <1>3

LEMMA JobGoesOn ==
    ASSUME job \in [Procs -> Job], NEW p \in Procs, Goto(p, "commit")
    PROVE  \E r \in Job : /\ JobStep(p, r)
                          /\ r.op = job[p].op /\ r.phase = "commit"
                          /\ r.file = job[p].file /\ r.doc = job[p].doc
                          /\ r.left = job[p].left
                          /\ r.outcome = job[p].outcome
<1> DEFINE r == [job[p] EXCEPT !.phase = "commit"]
<1>1. /\ r \in Job
      /\ r.op = job[p].op /\ r.phase = "commit" /\ r.file = job[p].file
      /\ r.doc = job[p].doc /\ r.left = job[p].left
      /\ r.outcome = job[p].outcome
  BY DEF Job
<1>2. job' = [job EXCEPT ![p] = r]
  BY DEF Goto
<1> HIDE DEF r
<1>3. JobStep(p, r)
  BY <1>1, <1>2, JobReplaced
<1> QED
  BY <1>1, <1>3

-------------------------------------------------------------------------------
LEMMA InitInd == Init => IndInv
<1> SUFFICES ASSUME Init PROVE IndInv
  OBVIOUS
<1> USE DEF Init
<1>1. Idle \in Job
  BY ConstantsAssumption DEF Idle, Job
<1>2. TypeOK
  BY <1>1 DEF TypeOK, FileStatus
<1>3. RevisionsSettled /\ SessionInv
  BY DEF RevisionsSettled, SessionInv
<1>4. \A p \in Procs : JobInv(p)
  BY DEF JobInv, Idle, PageReads
<1> QED
  BY <1>2, <1>3, <1>4 DEF IndInv

(* A step keeps the types. *)
LEMMA TypeStep ==
    ASSUME IndInv, [Next]_vars
    PROVE  TypeOK'
<1> USE DEF IndInv, TypeOK, fileRows, pageRows
<1>1. Idle \in Job
  BY ConstantsAssumption DEF Idle, Job
<1>2. ASSUME NEW f \in Files, StartUpload(f) PROVE TypeOK'
  BY <1>2 DEF StartUpload, CreateUploadSession, FileStatus
<1>3. ASSUME NEW p \in Procs, FileHandler(p) PROVE TypeOK'
  <2>1. CASE GetUploadSession(p) \/ StartDelete(p)
    <3> PICK f \in Files : \/ job' = [job EXCEPT ![p] = FileJob("complete", f)]
                           \/ job' = [job EXCEPT ![p] = FileJob("delete", f)]
      BY <2>1 DEF GetUploadSession, StartDelete
    <3>1. FileJob("complete", f) \in Job /\ FileJob("delete", f) \in Job
      BY DEF FileJob, Idle, Job
    <3> QED
      BY <2>1, <3>1 DEF GetUploadSession, StartDelete
  <2>2. CASE GetFile(p)
    <3>1. Goto(p, "commit") \/ Answer(p, "notFound")
      BY <2>2 DEF GetFile
    <3> QED
      BY <2>2, <3>1, JobAnswered, JobGoesOn DEF JobStep, GetFile
  <2>3. CASE CompleteUpload(p)
    <3>1. Answer(p, "ok") \/ Answer(p, "notFound")
      BY <2>3 DEF CompleteUpload
    <3>2. job[p].file \in Files
      BY <2>3 DEF CompleteUpload, JobInv
    <3>3. file' \in [Files -> FileStatus] /\ done' \subseteq Files
      BY <2>3, <3>2 DEF CompleteUpload, FileStatus
    <3> QED
      BY <2>3, <3>1, <3>3, JobAnswered, JobGoesOn DEF JobStep, CompleteUpload
  <2>4. CASE SoftDelete(p)
    <3>1. Answer(p, "ok") \/ Answer(p, "notFound")
      BY <2>4 DEF SoftDelete
    <3>2. file' \in [Files -> FileStatus]
      BY <2>4 DEF SoftDelete, FileStatus
    <3> QED
      BY <2>4, <3>1, <3>2, JobAnswered, JobGoesOn DEF JobStep, SoftDelete
  <2> QED
    BY <1>3, <2>1, <2>2, <2>3, <2>4 DEF FileHandler
<1>4. ASSUME NEW p \in Procs, PageHandler(p) PROVE TypeOK'
  <2>1. ASSUME NEW op \in {"save", "view", "restore"}, NEW doc \in SUBSET Files
        PROVE  PageJob(op, doc, DraftNo) \in Job
    BY ConstantsAssumption DEF PageJob, Idle, Job, PageReads, DraftNo
  <2>2. CASE StartSave(p) \/ StartRestore(p) \/ StartView(p)
    <3>1. \E op \in {"save", "view", "restore"}, doc \in SUBSET Files :
            job' = [job EXCEPT ![p] = PageJob(op, doc, DraftNo)]
      <4>1. CASE StartSave(p)
        BY <4>1 DEF StartSave
      <4>2. CASE StartRestore(p)
        <5> PICK target \in 1..Len(drafts) :
               job' = [job EXCEPT ![p] = PageJob("restore", drafts[target], DraftNo)]
          BY <4>2 DEF StartRestore
        <5>1. drafts[target] \in SUBSET Files
          OBVIOUS
        <5> QED
          BY <5>1
      <4>3. CASE StartView(p)
        <5> PICK rev \in {DraftNo, published} \ {0} :
               job' = [job EXCEPT ![p] = PageJob("view", drafts[rev], DraftNo)]
          BY <4>3 DEF StartView
        <5>1. drafts[rev] \in SUBSET Files
          BY DEF DraftNo
        <5> QED
          BY <5>1
      <4> QED
        BY <2>2, <4>1, <4>2, <4>3
    <3>2. UNCHANGED <<fileRows, pageRows>>
      BY <2>2 DEF StartSave, StartRestore, StartView
    <3> QED
      BY <2>1, <3>1, <3>2
  <2>3. CASE CheckAttachment(p)
    <3>1. CASE Answer(p, "unavailable")
      BY <2>3, <3>1, JobAnswered, JobGoesOn DEF JobStep, CheckAttachment
    <3>2. ASSUME NEW f \in job[p].left,
                 job' = [job EXCEPT ![p].left = @ \ {f}]
          PROVE  TypeOK'
      <4>1. [job[p] EXCEPT !.left = @ \ {f}] \in Job
        BY DEF Job
      <4>2. job' \in [Procs -> Job]
        BY <3>2, <4>1
      <4> QED
        BY <2>3, <4>2 DEF CheckAttachment
    <3> QED
      BY <2>3, <3>1, <3>2 DEF CheckAttachment
  <2>4. CASE AllChecked(p)
    <3>1. Goto(p, "commit") \/ Answer(p, "ok")
      BY <2>4 DEF AllChecked
    <3> QED
      BY <2>4, <3>1, JobAnswered, JobGoesOn DEF JobStep, AllChecked
  <2>5. CASE SaveDraft(p)
    <3>1. Answer(p, "ok") \/ Answer(p, "conflict")
      BY <2>5 DEF SaveDraft
    <3>2. drafts' \in Seq(SUBSET Files) /\ Len(drafts') >= Len(drafts)
      <4>1. job[p].doc \in SUBSET Files
        BY DEF Job
      <4> QED
        BY <2>5, <4>1 DEF SaveDraft
    <3> QED
      BY <2>5, <3>1, <3>2, JobAnswered, JobGoesOn DEF JobStep, SaveDraft
  <2> QED
    BY <1>4, <2>2, <2>3, <2>4, <2>5 DEF PageHandler
<1>5. ASSUME NEW p \in Procs, End(p) PROVE TypeOK'
  BY <1>1, <1>5 DEF End
<1>6. CASE Publish
  BY <1>6 DEF Publish, DraftNo
<1>7. CASE UNCHANGED vars
  BY <1>7 DEF vars
<1> QED
  BY <1>2, <1>3, <1>4, <1>5, <1>6, <1>7 DEF Next

(* A step keeps what the handlers know. *)
LEMMA JobInvStep ==
    ASSUME IndInv, FileStore = "postgres", [Next]_vars
    PROVE  \A q \in Procs : JobInv(q)'
<1>1. FileStep
  BY FilesMoveForward DEF IndInv
<1> USE <1>1 DEF IndInv
<1>2. job \in [Procs -> Job]
  BY DEF TypeOK
<1>3. ASSUME NEW p \in Procs, NEW r, JobStep(p, r), JobInv(p)'
      PROVE  \A q \in Procs : JobInv(q)'
  BY <1>3, OthersKeepJobInv DEF JobStep
<1>4. CASE UNCHANGED job
  BY <1>4, OthersKeepJobInv
<1>5. ASSUME NEW p \in Procs,
             NEW o \in {"ok", "notFound", "conflict"}, Answer(p, o)
      PROVE  \A q \in Procs : JobInv(q)'
  <2> PICK r \in Job : /\ JobStep(p, r)
                       /\ r.op = job[p].op /\ r.phase = "reply"
                       /\ r.file = job[p].file /\ r.doc = job[p].doc
                       /\ r.left = job[p].left /\ r.outcome = o
    BY <1>2, <1>5, JobAnswered
  <2>1. JobInv(p)'
    BY DEF JobInv, JobStep, Settled, FileStep, TypeOK, Job
  <2> QED
    BY <2>1, <1>3
<1>6. ASSUME NEW p \in Procs, Goto(p, "commit"),
             job[p].left = {}
      PROVE  \A q \in Procs : JobInv(q)'
  <2> PICK r \in Job : /\ JobStep(p, r)
                       /\ r.op = job[p].op /\ r.phase = "commit"
                       /\ r.file = job[p].file /\ r.doc = job[p].doc
                       /\ r.left = job[p].left
                       /\ r.outcome = job[p].outcome
    BY <1>2, <1>6, JobGoesOn
  <2>1. JobInv(p)'
    BY <1>6 DEF JobInv, JobStep, Settled, FileStep, TypeOK, Job
  <2> QED
    BY <2>1, <1>3
<1>7. ASSUME NEW p \in Procs, GetUploadSession(p) \/ StartDelete(p)
      PROVE  \A q \in Procs : JobInv(q)'
  <2> PICK f \in Files, op \in {"complete", "delete"} :
         job' = [job EXCEPT ![p] = FileJob(op, f)]
    BY <1>7 DEF GetUploadSession, StartDelete
  <2>1. FileJob(op, f) \in Job
    BY DEF FileJob, Job
  <2>2. JobStep(p, FileJob(op, f))
    BY <1>2, <2>1, JobReplaced
  <2>3. JobInv(p)'
    BY <2>2 DEF JobInv, JobStep, FileJob, PageReads
  <2> QED
    BY <2>2, <2>3, <1>3
<1>8. ASSUME NEW p \in Procs, GetFile(p)
      PROVE  \A q \in Procs : JobInv(q)'
  <2>1. job[p].left = {}
    BY <1>8 DEF GetFile, JobInv
  <2> QED
    BY <1>5, <1>6, <1>8, <2>1 DEF GetFile
<1>9. ASSUME NEW p \in Procs, CompleteUpload(p) \/ SoftDelete(p) \/ SaveDraft(p)
      PROVE  \A q \in Procs : JobInv(q)'
  BY <1>5, <1>9 DEF CompleteUpload, SoftDelete, SaveDraft
<1>10. ASSUME NEW p \in Procs, NEW op \in {"save", "view", "restore"},
              NEW doc \in SUBSET Files,
              op # "save" => \A f \in doc : Settled(f),
              job' = [job EXCEPT ![p] = PageJob(op, doc, DraftNo)]
       PROVE  \A q \in Procs : JobInv(q)'
  <2>1. PageJob(op, doc, DraftNo) \in Job
    BY DEF PageJob, Job, PageReads, DraftNo, TypeOK
  <2>2. JobStep(p, PageJob(op, doc, DraftNo))
    BY <1>2, <1>10, <2>1, JobReplaced
  <2>3. JobInv(p)'
    BY <2>2, <1>10 DEF JobInv, JobStep, PageJob, PageReads, Settled, FileStep
  <2> QED
    BY <2>2, <2>3, <1>3
<1>11. ASSUME NEW p \in Procs, StartSave(p) \/ StartRestore(p) \/ StartView(p)
       PROVE  \A q \in Procs : JobInv(q)'
  <2>1. ASSUME NEW i \in 1..Len(drafts)
        PROVE  drafts[i] \in SUBSET Files /\ \A f \in drafts[i] : Settled(f)
    BY <2>1 DEF TypeOK, RevisionsSettled
  <2>2. CASE StartSave(p)
    BY <2>2, <1>10 DEF StartSave
  <2>3. CASE StartRestore(p)
    BY <2>1, <2>3, <1>10 DEF StartRestore
  <2>4. CASE StartView(p)
    <3> PICK rev \in {DraftNo, published} \ {0} :
           job' = [job EXCEPT ![p] = PageJob("view", drafts[rev], DraftNo)]
      BY <2>4 DEF StartView
    <3>1. rev \in 1..Len(drafts)
      BY DEF DraftNo, TypeOK
    <3> QED
      BY <3>1, <2>1, <1>10
  <2> QED
    BY <1>11, <2>2, <2>3, <2>4
<1>12. ASSUME NEW p \in Procs, CheckAttachment(p)
       PROVE  \A q \in Procs : JobInv(q)'
  <2> PICK f \in job[p].left :
         IF Available(f) THEN job' = [job EXCEPT ![p].left = @ \ {f}]
                         ELSE Answer(p, "unavailable")
    BY <1>12 DEF CheckAttachment
  <2>1. f \in Files /\ UNCHANGED file
    BY <1>2, <1>12 DEF CheckAttachment, fileRows, Job
  <2>2. CASE Available(f)
    <3> DEFINE r == [job[p] EXCEPT !.left = @ \ {f}]
    <3>1. /\ r \in Job /\ r.op = job[p].op /\ r.phase = job[p].phase
          /\ r.file = job[p].file /\ r.doc = job[p].doc
          /\ r.left = job[p].left \ {f} /\ r.outcome = job[p].outcome
      BY <1>2 DEF Job
    <3>2. job' = [job EXCEPT ![p] = r]
      BY <2>2
    <3> HIDE DEF r
    <3>3. JobStep(p, r)
      BY <1>2, <3>1, <3>2, JobReplaced
    <3>4. Settled(f)
      BY <2>2 DEF Available, GetFileMetadata, Settled
    <3>5. JobInv(p)'
      BY <2>1, <3>1, <3>3, <3>4, <1>12
      DEF JobInv, JobStep, Settled, CheckAttachment
    <3> QED
      BY <3>3, <3>5, <1>3
  <2>3. CASE ~Available(f)
    <3> PICK r \in Job : /\ JobStep(p, r)
                         /\ r.op = job[p].op /\ r.phase = "reply"
                         /\ r.file = job[p].file /\ r.doc = job[p].doc
                         /\ r.left = job[p].left /\ r.outcome = "unavailable"
      BY <1>2, <2>3, JobAnswered
    <3>1. job[p].op \in PageReads /\ f \in job[p].doc => file[f] = "deleted"
      BY <2>3 DEF JobInv, Settled, Available, GetFileMetadata, Live
    <3>2. f \in job[p].doc
      BY <1>12 DEF JobInv, CheckAttachment
    <3>3. JobInv(p)'
      BY <2>1, <3>1, <3>2 DEF JobInv, JobStep, Settled
    <3> QED
      BY <3>3, <1>3
  <2> QED
    BY <2>2, <2>3
<1>13. ASSUME NEW p \in Procs, AllChecked(p)
       PROVE  \A q \in Procs : JobInv(q)'
  BY <1>5, <1>6, <1>13 DEF AllChecked
<1>14. ASSUME NEW p \in Procs, End(p)
       PROVE  \A q \in Procs : JobInv(q)'
  <2>1. Idle \in Job
    BY DEF Idle, Job
  <2>2. JobStep(p, Idle)
    BY <1>2, <1>14, <2>1, JobReplaced DEF End
  <2>3. JobInv(p)'
    BY <2>2 DEF JobInv, JobStep, Idle, PageReads
  <2> QED
    BY <2>2, <2>3, <1>3
<1> QED
  BY <1>4, <1>7, <1>8, <1>9, <1>11, <1>12, <1>13, <1>14
  DEF Next, FileHandler, PageHandler, StartUpload, Publish, vars

(* A step keeps the revisions settled: a document is saved after the last   *)
(* of its files passed its check.                                          *)
LEMMA RevisionsStep ==
    ASSUME IndInv, FileStore = "postgres", [Next]_vars
    PROVE  RevisionsSettled'
<1>1. FileStep
  BY FilesMoveForward DEF IndInv
<1>2. CASE UNCHANGED drafts
  BY <1>1, <1>2 DEF IndInv, TypeOK, RevisionsSettled, Settled, FileStep
<1>3. ASSUME NEW p \in Procs, SaveDraft(p) PROVE RevisionsSettled'
  <2>1. CASE drafts' = Append(drafts, job[p].doc)
    <3>1. \A f \in job[p].doc : Settled(f)
      BY <1>3 DEF IndInv, JobInv, SaveDraft
    <3>2. UNCHANGED file
      BY <1>3 DEF SaveDraft, fileRows
    <3>3. ASSUME NEW i \in 1..Len(drafts')
          PROVE  \/ i \in 1..Len(drafts) /\ drafts'[i] = drafts[i]
                 \/ drafts'[i] = job[p].doc
      BY <2>1, <3>3 DEF IndInv, TypeOK
    <3> QED
      BY <3>1, <3>2, <3>3 DEF IndInv, RevisionsSettled, Settled
  <2> QED
    BY <1>2, <1>3, <2>1 DEF SaveDraft
<1> QED
  BY <1>2, <1>3
  DEF Next, FileHandler, PageHandler, StartUpload, GetUploadSession,
      StartDelete, GetFile, CompleteUpload, SoftDelete, StartSave,
      StartRestore, StartView, CheckAttachment, AllChecked, Publish, End,
      pageRows, vars

(* What a step may do to an upload session. *)
CompletionStep ==
    \A f \in Files :
        f \in done' \ done <=> file[f] = "uploading" /\ file'[f] = "ready"

(* A step completes a session together with its file. *)
LEMMA SessionStep ==
    ASSUME IndInv, FileStore = "postgres", [Next]_vars
    PROVE  SessionInv' /\ CompletionStep
<1> USE DEF IndInv, TypeOK, SessionInv, CompletionStep, Settled, FileStatus
<1>1. CASE UNCHANGED <<file, done>>
  BY <1>1
<1>2. ASSUME NEW f \in Files, StartUpload(f)
      PROVE  SessionInv' /\ CompletionStep
  BY <1>2 DEF StartUpload, CreateUploadSession
<1>3. ASSUME NEW p \in Procs, CompleteUpload(p)
      PROVE  SessionInv' /\ CompletionStep
  <2>1. job[p].file \in Files
    BY <1>3 DEF JobInv, CompleteUpload
  <2> QED
    BY <1>1, <1>3, <2>1 DEF CompleteUpload, CompletableRow, Live, fileRows
<1>4. ASSUME NEW p \in Procs, SoftDelete(p)
      PROVE  SessionInv' /\ CompletionStep
  BY <1>4 DEF SoftDelete, Live
<1> QED
  BY <1>1, <1>2, <1>3, <1>4
  DEF Next, FileHandler, PageHandler, GetUploadSession, StartDelete, GetFile,
      StartSave, StartRestore, StartView, CheckAttachment, AllChecked,
      SaveDraft, Publish, End, fileRows, vars

-------------------------------------------------------------------------------
(* IndInv is inductive on the Postgres store. *)
THEOREM AttachmentsInvariance ==
    ASSUME FileStore = "postgres"
    PROVE  Spec => []IndInv
<1>1. ASSUME IndInv, [Next]_vars PROVE IndInv'
  BY <1>1, TypeStep, RevisionsStep, SessionStep, JobInvStep DEF IndInv
<1> QED
  BY <1>1, InitInd, PTL DEF Spec

(* The types of the file rows, the page and the handlers hold throughout. *)
THEOREM AttachmentsTypeCorrect ==
    ASSUME FileStore = "postgres"
    PROVE  Spec => []TypeOK
<1>1. IndInv => TypeOK
  BY DEF IndInv
<1> QED
  BY <1>1, AttachmentsInvariance, PTL

(* GetPage, RecoverDraft and a restore refuse a saved document only when a  *)
(* file of it was deleted, for any number of files, saves and uploads.      *)
THEOREM SavedDocumentsOpen ==
    ASSUME FileStore = "postgres"
    PROVE  Spec => []SavedPagesOpen
<1>1. IndInv => SavedPagesOpen
  BY DEF IndInv, JobInv, SavedPagesOpen
<1> QED
  BY <1>1, AttachmentsInvariance, PTL

(* A completion never brings a deleted file back: the condition of its      *)
(* UPDATE makes up for the row having been read earlier.                    *)
THEOREM DeletionIsFinal ==
    ASSUME FileStore = "postgres"
    PROVE  Spec => DeletedIsFinal
<1>1. ASSUME IndInv, [Next]_vars
      PROVE  [\A f \in Files : file[f] = "deleted" => file'[f] = "deleted"]_vars
  BY <1>1, FilesMoveForward DEF IndInv, FileStep
<1> QED
  BY <1>1, AttachmentsInvariance, PTL DEF Spec, DeletedIsFinal

(* Session and file change together, also when a deletion comes between    *)
(* the reads of a completion and its transaction.                          *)
THEOREM CompletionAtomicity ==
    ASSUME FileStore = "postgres"
    PROVE  Spec => CompletionIsAtomic
<1>1. ASSUME IndInv, [Next]_vars
      PROVE  [\A f \in Files : f \in done' \ done <=>
                file[f] = "uploading" /\ file'[f] = "ready"]_vars
  BY <1>1, SessionStep DEF CompletionStep
<1> QED
  BY <1>1, AttachmentsInvariance, PTL DEF Spec, CompletionIsAtomic
===============================================================================
