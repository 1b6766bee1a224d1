----------------------------- MODULE Attachments -----------------------------
(***************************************************************************)
(* Files of the file service and the page that attaches them.              *)
(*                                                                         *)
(* A file is uploaded (a row in file_objects and one in upload_sessions),  *)
(* completed and soft-deleted by handlers of the file service; handlers of *)
(* the page service ask for its metadata, one attachment after another,    *)
(* before they save, restore or show a document.  Nothing locks a file     *)
(* between these steps, and the two services share no transaction.         *)
(*                                                                         *)
(* A document is reduced to the set of files it attaches; blocks are       *)
(* checked in any order, which covers every order they have in a document. *)
(* One page is modelled, its draft revisions as an atomic ledger (what     *)
(* PageLedger promises).  The object store is left out: the file service   *)
(* signs URLs for it but never asks what it holds.                         *)
(***************************************************************************)
EXTENDS Naturals, Sequences

CONSTANTS Files,         \* ids the file service may hand out
          NoFile,
          Procs,         \* handlers, of either service, active at once
          FileStore,     \* "postgres" or "memory"
          MaxRevisions   \* bound: no save starts once this many exist

ASSUME ConstantsAssumption ==
    /\ NoFile \notin Files
    /\ FileStore \in {"postgres", "memory"}
    /\ MaxRevisions \in Nat

VARIABLES file,       \* status of the row in file_objects; "absent" without one
          done,       \* files whose upload session has a completed_at
          drafts,     \* the files attached by each draft revision of the page
          published,  \* the draft revision that was published last, 0 if none
          job         \* what each handler is doing

vars == <<file, done, drafts, published, job>>
fileRows == <<file, done>>
pageRows == <<drafts, published>>

-------------------------------------------------------------------------------
FileStatus == {"absent", "uploading", "ready", "deleted"}

PageReads == {"view", "restore"}

(* left: the attachments of doc that were not checked yet. *)
Job == [op : {"none", "complete", "delete", "save"} \cup PageReads,
        phase : {"idle", "read", "check", "commit", "reply"},
        file : Files \cup {NoFile}, doc : SUBSET Files, left : SUBSET Files,
        base : Nat,
        outcome : {"none", "ok", "notFound", "unavailable", "conflict"}]

Idle == [op |-> "none", phase |-> "idle", file |-> NoFile, doc |-> {},
         left |-> {}, base |-> 0, outcome |-> "none"]

FileJob(op, f) ==
    [op |-> op, phase |-> "read", file |-> f, doc |-> {}, left |-> {},
     base |-> 0, outcome |-> "none"]

PageJob(op, doc, base) ==
    [op |-> op, phase |-> "check", file |-> NoFile, doc |-> doc, left |-> doc,
     base |-> base, outcome |-> "none"]

(* The row is there and not soft-deleted: deleted_at IS NULL. *)
Live(f) == file[f] \in {"uploading", "ready"}

(* The answer of the file service; the status counts only if exists is set. *)
GetFileMetadata(f) == [exists |-> Live(f), status |-> file[f]]

(* What it must be for an attachment to be accepted. *)
Available(f) ==
    GetFileMetadata(f).exists /\ GetFileMetadata(f).status = "ready"

DraftNo == Len(drafts)

Goto(p, phase) == job' = [job EXCEPT ![p].phase = phase]

Answer(p, outcome) ==
    job' = [job EXCEPT ![p] = [@ EXCEPT !.phase = "reply", !.outcome = outcome]]

-------------------------------------------------------------------------------
(* The file service *)

Init ==
    /\ file = [f \in Files |-> "absent"]
    /\ done = {}
    /\ drafts = <<{}>>
    /\ published = 0
    /\ job = [p \in Procs |-> Idle]

(* The row of the file and that of its session, in one transaction. *)
CreateUploadSession(f) == file' = [file EXCEPT ![f] = "uploading"]

(* New ids are made and an upload URL is signed before anything is stored. *)
StartUpload(f) ==
    /\ file[f] = "absent"
    /\ CreateUploadSession(f)
    /\ UNCHANGED <<done, pageRows, job>>

(* The upload session is read; neither its expiry nor an earlier           *)
(* completion is looked at.                                                 *)
GetUploadSession(p) ==
    /\ job[p] = Idle
    /\ \E f \in Files :
         /\ file[f] # "absent"
         /\ job' = [job EXCEPT ![p] = FileJob("complete", f)]
    /\ UNCHANGED <<fileRows, pageRows>>

StartDelete(p) ==
    /\ job[p] = Idle
    /\ \E f \in Files :
         /\ file[f] # "absent"
         /\ job' = [job EXCEPT ![p] = FileJob("delete", f)]
    /\ UNCHANGED <<fileRows, pageRows>>

(* GetFile of a completion or a deletion: a deleted file is not found. *)
GetFile(p) ==
    /\ job[p].phase = "read"
    /\ IF Live(job[p].file) THEN Goto(p, "commit") ELSE Answer(p, "notFound")
    /\ UNCHANGED <<fileRows, pageRows>>

(* Mutant of CompletableRow: the UPDATE lacks "deleted_at IS NULL". *)
AnyRow(f) == TRUE

(* The UPDATE of file_objects finds its row.  The memory store writes the  *)
(* row it is given without looking at the one it has.                       *)
CompletableRow(f) == FileStore = "memory" \/ Live(f)

(* Mutant of CompleteUpload: the session is marked outside a transaction. *)
CompleteWithoutTransaction(p) ==
    /\ job[p].phase = "commit"
    /\ job[p].op = "complete"
    /\ LET f == job[p].file IN
         /\ done' = done \cup {f}
         /\ IF CompletableRow(f)
            THEN file' = [file EXCEPT ![f] = "ready"] /\ Answer(p, "ok")
            ELSE UNCHANGED file /\ Answer(p, "notFound")
    /\ UNCHANGED pageRows

(* Mutant of CompleteUpload: the status is taken from the request. *)
CompleteWithRequestStatus(p) ==
    /\ job[p].phase = "commit"
    /\ job[p].op = "complete"
    /\ file' = [file EXCEPT ![job[p].file] = "completed"]
    /\ done' = done \cup {job[p].file}
    /\ Answer(p, "ok")
    /\ UNCHANGED pageRows

(* Session and file are updated in one transaction; if the file is gone    *)
(* both updates are rolled back.                                            *)
CompleteUpload(p) ==
    /\ job[p].phase = "commit"
    /\ job[p].op = "complete"
    /\ LET f == job[p].file IN
         IF CompletableRow(f)
         THEN /\ file' = [file EXCEPT ![f] = "ready"]
              /\ done' = done \cup {f}
              /\ Answer(p, "ok")
         ELSE /\ UNCHANGED fileRows
              /\ Answer(p, "notFound")
    /\ UNCHANGED pageRows

(* UPDATE ... WHERE deleted_at IS NULL; in memory a second deletion is a    *)
(* success as well.                                                         *)
SoftDelete(p) ==
    /\ job[p].phase = "commit"
    /\ job[p].op = "delete"
    /\ LET f == job[p].file IN
         IF FileStore = "memory" \/ Live(f)
         THEN file' = [file EXCEPT ![f] = "deleted"] /\ Answer(p, "ok")
         ELSE UNCHANGED file /\ Answer(p, "notFound")
    /\ UNCHANGED <<done, pageRows>>

-------------------------------------------------------------------------------
(* The page service *)

(* An autosave or a collaborative commit on the current draft reaches the   *)
(* check of its attachments.  The document may name any file id.           *)
StartSave(p) ==
    /\ job[p] = Idle
    /\ Len(drafts) < MaxRevisions
    /\ \E doc \in SUBSET Files :
         job' = [job EXCEPT ![p] = PageJob("save", doc, DraftNo)]
    /\ UNCHANGED <<fileRows, pageRows>>

(* A restore takes its document from an older revision. *)
StartRestore(p) ==
    /\ job[p] = Idle
    /\ Len(drafts) < MaxRevisions
    /\ \E target \in 1..Len(drafts) :
         job' = [job EXCEPT ![p] = PageJob("restore", drafts[target], DraftNo)]
    /\ UNCHANGED <<fileRows, pageRows>>

(* GetPage, RecoverDraft, GetRevisionHead and ResumeEditorSync read the     *)
(* draft or the published revision and check it like a save.               *)
StartView(p) ==
    /\ job[p] = Idle
    /\ \E rev \in {DraftNo, published} \ {0} :
         job' = [job EXCEPT ![p] = PageJob("view", drafts[rev], DraftNo)]
    /\ UNCHANGED <<fileRows, pageRows>>

(* Mutant of CheckAttachment: a save only asks whether the file is there. *)
CheckAttachmentExists(p) ==
    /\ job[p].phase = "check"
    /\ \E f \in job[p].left :
         IF Available(f) \/ (job[p].op = "save" /\ Live(f))
         THEN job' = [job EXCEPT ![p].left = @ \ {f}]
         ELSE Answer(p, "unavailable")
    /\ UNCHANGED <<fileRows, pageRows>>

(* One round of ValidateAndHydrate: a call of GetFileMetadata. *)
CheckAttachment(p) ==
    /\ job[p].phase = "check"
    /\ \E f \in job[p].left :
         IF Available(f)
         THEN job' = [job EXCEPT ![p].left = @ \ {f}]
         ELSE Answer(p, "unavailable")
    /\ UNCHANGED <<fileRows, pageRows>>

AllChecked(p) ==
    /\ job[p].phase = "check"
    /\ job[p].left = {}
    /\ IF job[p].op = "view" THEN Answer(p, "ok") ELSE Goto(p, "commit")
    /\ UNCHANGED <<fileRows, pageRows>>

(* The transaction of a save or a restore, conditional on the draft.       *)
SaveDraft(p) ==
    /\ job[p].phase = "commit"
    /\ job[p].op \in {"save", "restore"}
    /\ IF job[p].base = DraftNo
       THEN drafts' = Append(drafts, job[p].doc) /\ Answer(p, "ok")
       ELSE UNCHANGED drafts /\ Answer(p, "conflict")
    /\ UNCHANGED <<fileRows, published>>

(* A publication copies the draft; its attachments are not checked again.  *)
Publish ==
    /\ published' = DraftNo
    /\ UNCHANGED <<fileRows, drafts, job>>

-------------------------------------------------------------------------------
(* A handler ends: it has answered, was denied, or a call failed. *)
End(p) ==
    /\ job[p] # Idle
    /\ job' = [job EXCEPT ![p] = Idle]
    /\ UNCHANGED <<fileRows, pageRows>>

FileHandler(p) ==
    \/ GetUploadSession(p) \/ StartDelete(p) \/ GetFile(p)
    \/ CompleteUpload(p) \/ SoftDelete(p)

PageHandler(p) ==
    \/ StartSave(p) \/ StartRestore(p) \/ StartView(p)
    \/ CheckAttachment(p) \/ AllChecked(p) \/ SaveDraft(p)

Next ==
    \/ \E f \in Files : StartUpload(f)
    \/ \E p \in Procs : FileHandler(p) \/ PageHandler(p) \/ End(p)
    \/ Publish

Spec == Init /\ [][Next]_vars

-------------------------------------------------------------------------------
(* Properties *)

(* Every variable has its shape. *)
TypeOK ==
    /\ file \in [Files -> FileStatus]
    /\ done \subseteq Files
    /\ drafts \in Seq(SUBSET Files)
    /\ published \in 0..Len(drafts)
    /\ job \in [Procs -> Job]

(* A deleted file stays deleted, although a completion may have read its   *)
(* row before the deletion and writes it afterwards.                       *)
DeletedIsFinal ==
    [][\A f \in Files : file[f] = "deleted" => file'[f] = "deleted"]_vars

(* An upload session is completed exactly when its file becomes ready: a    *)
(* completion that comes after a deletion leaves no completed session.      *)
CompletionIsAtomic ==
    [][\A f \in Files :
         f \in done' \ done <=> file[f] = "uploading" /\ file'[f] = "ready"]_vars

(* A document that was accepted once can be opened and restored for ever,   *)
(* unless a file it attaches was deleted: a read is refused for no other    *)
(* reason, whatever uploads, completions and saves ran in between.          *)
SavedPagesOpen ==
    \A p \in Procs :
        job[p].op \in PageReads /\ job[p].outcome = "unavailable" =>
            \E f \in job[p].doc : file[f] = "deleted"

===============================================================================
