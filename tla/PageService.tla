----------------------------- MODULE PageService -----------------------------
(***************************************************************************)
(* The revision lifecycle of one page in the page service: create,         *)
(* autosave, collaborative commit, publish, restore and archive, run by    *)
(* concurrent request handlers against the page store.                     *)
(*                                                                         *)
(* Handlers take no lock.  Each one looks up its idempotency key, reads    *)
(* the page row, reads a revision, and then runs one transaction whose     *)
(* UPDATE is conditional on the draft number it saw; the replay window is  *)
(* appended after the commit.  Every one of these store calls is a step of *)
(* its own here, so the handlers interleave between any two of them.       *)
(*                                                                         *)
(* Pages are independent (each statement is keyed by the page id), so one  *)
(* page is modelled.  The title is left out: no operation changes it.      *)
(***************************************************************************)
EXTENDS Naturals, Sequences

CONSTANTS Procs,          \* request handlers that can be active at once
          Docs, NoDoc,    \* canonical document snapshots; no document
          Keys, NoKey,    \* Idempotency-Key / patch_id values; none sent
          Store,          \* "postgres" or "memory"
          LookupMayFail,  \* may the idempotency lookup fail (and be ignored)?
          ReplayStore,    \* "redis" or "memory"
          ReplayLimit,    \* entries kept in the replay window
          MaxRevisions    \* bound: no request starts once this many exist

ASSUME ConstantsAssumption ==
    /\ NoDoc \notin Docs
    /\ NoKey \notin Keys
    /\ Store \in {"postgres", "memory"}
    /\ LookupMayFail \in BOOLEAN
    /\ ReplayStore \in {"redis", "memory"}
    /\ ReplayLimit \in Nat \ {0}
    /\ MaxRevisions \in Nat

VARIABLES page,    \* the row of the page in table pages
          revs,    \* its rows in page_revisions; the id is the position
          idem,    \* page_draft_idempotency_keys: key -> revision id, 0 if none
          outbox,  \* page_outbox, in insertion order
          replay,  \* the replay window of the page
          req      \* the request each handler is working on

vars == <<page, revs, idem, outbox, replay, req>>
store == <<page, revs, idem, outbox>>

-------------------------------------------------------------------------------
(* Types *)

KeyedOps == {"autosave", "collab"}
DraftOps == KeyedOps \cup {"restore"}
Ops == DraftOps \cup {"publish", "archive"}

IdemKeys == KeyedOps \X Keys

Page == [status : {"absent", "draft", "published", "archived"},
         draftId : Nat, draftNo : Nat, publishedId : Nat, publishedNo : Nat]

(* from: the draft number the author of the revision named (a history field). *)
Revision == [no : Nat, kind : {"draft", "published"}, base : Nat, from : Nat,
             doc : Docs, via : Ops \cup {"create"}, key : Keys \cup {NoKey}]

Event == [type : {"page.created", "page.draft.saved", "page.published",
                  "page.archived", "page.links.extracted",
                  "page.attachments.changed"},
          rev : Nat]

ReplayEntry == [no : Nat, op : Ops, patch : Keys \cup {NoKey}]

Request == [phase : {"idle", "lookup", "read", "base", "commit", "append",
                     "conflict", "reply"},
            op : Ops \cup {"none"}, base : Nat, key : Keys \cup {NoKey},
            doc : Docs \cup {NoDoc}, target : Nat, seen : Page, baseId : Nat,
            outcome : {"none", "ok", "rebase", "archived", "error"}, no : Nat]

NoPage == [status |-> "absent", draftId |-> 0, draftNo |-> 0,
           publishedId |-> 0, publishedNo |-> 0]

NewRequest(phase, op, base, key, doc, target) ==
    [phase |-> phase, op |-> op, base |-> base, key |-> key, doc |-> doc,
     target |-> target, seen |-> NoPage, baseId |-> 0,
     outcome |-> "none", no |-> 0]

Idle == NewRequest("idle", "none", 0, NoKey, NoDoc, 0)

-------------------------------------------------------------------------------
(* Helpers *)

(* One more than the larger of the two heads of a page row. *)
NextRevisionNo(pg) ==
    IF pg.draftNo >= pg.publishedNo THEN pg.draftNo + 1 ELSE pg.publishedNo + 1

(* Autosave keys and patch ids live in the same table; a patch id gets the  *)
(* prefix "collab:", which is taken not to begin an Idempotency-Key.         *)
IdemKey(r) == <<r.op, r.key>>

(* The records every revision-creating transaction adds after its own. *)
ReferenceEvents(id) ==
    <<[type |-> "page.links.extracted", rev |-> id],
      [type |-> "page.attachments.changed", rev |-> id]>>

(* The handler has its answer: what it returns to the caller. *)
Answer(r, outcome, no) ==
    [phase |-> "reply", op |-> r.op, base |-> r.base, key |-> r.key,
     doc |-> NoDoc, target |-> 0, seen |-> NoPage, baseId |-> 0,
     outcome |-> outcome, no |-> no]

(* Mutant of Stale: the draft number is not compared with the base. *)
StaleUnchecked(r) == FALSE

(* The conditional UPDATE of the transaction finds no row. *)
Stale(r) == page.draftNo # r.base

(* Mutant of DuplicateNo: the schema lacks the constraint. *)
DuplicateNoAllowed(no) == FALSE

(* UNIQUE (page_id, revision_no); the memory store has no such constraint. *)
DuplicateNo(no) ==
    /\ Store = "postgres"
    /\ \E i \in 1..Len(revs) : revs[i].no = no

(* Mutant of RecordKey: only autosaves record their key. *)
RecordKeyOfAutosave(r, id) ==
    IF r.op # "autosave" \/ r.key = NoKey \/ idem[IdemKey(r)] # 0
    THEN idem ELSE [idem EXCEPT ![IdemKey(r)] = id]

(* The idempotency row of a keyed request: ON CONFLICT DO NOTHING in        *)
(* Postgres, an overwrite in the memory store.                              *)
RecordKey(r, id) ==
    IF \/ r.op \notin KeyedOps
       \/ r.key = NoKey
       \/ Store = "postgres" /\ idem[IdemKey(r)] # 0
    THEN idem
    ELSE [idem EXCEPT ![IdemKey(r)] = id]

(* Mutant of WithDraftHead: the UPDATE forgets current_draft_revision_id. *)
WithDraftNoOnly(r, id, no) ==
    [page EXCEPT !.status = r.seen.status, !.draftNo = no]

(* UPDATE pages of a draft save; the memory store replaces the whole row. *)
WithDraftHead(r, id, no) ==
    IF Store = "postgres"
    THEN [page EXCEPT !.status = r.seen.status, !.draftId = id, !.draftNo = no]
    ELSE [r.seen EXCEPT !.draftId = id, !.draftNo = no]

(* Mutant of WithPublishedHead: a publication becomes the draft head too. *)
WithBothHeads(r, id, no) ==
    [page EXCEPT !.status = "published", !.publishedId = id, !.publishedNo = no,
                 !.draftId = id, !.draftNo = no]

(* UPDATE pages of a publication. *)
WithPublishedHead(r, id, no) ==
    IF Store = "postgres"
    THEN [page EXCEPT !.status = "published", !.publishedId = id,
                      !.publishedNo = no]
    ELSE [r.seen EXCEPT !.status = "published", !.publishedId = id,
                        !.publishedNo = no]

(* UPDATE pages of an archival. *)
WithArchivedStatus(r) ==
    IF Store = "postgres"
    THEN [page EXCEPT !.status = "archived"]
    ELSE [r.seen EXCEPT !.status = "archived"]

-------------------------------------------------------------------------------
(* The handlers *)

Init ==
    /\ page = NoPage
    /\ revs = <<>>
    /\ idem = [k \in IdemKeys |-> 0]
    /\ outbox = <<>>
    /\ replay = <<>>
    /\ req = [p \in Procs |-> Idle]

(* Creation generates the page id, so nothing can race with it: one step. *)
CreatePage ==
    /\ page.status = "absent"
    /\ \E d \in Docs :
         revs' = <<[no |-> 1, kind |-> "draft", base |-> 0, from |-> 0,
                    doc |-> d, via |-> "create", key |-> NoKey]>>
    /\ page' = [NoPage EXCEPT !.status = "draft", !.draftId = 1, !.draftNo = 1]
    /\ outbox' = <<[type |-> "page.created", rev |-> 1],
                   [type |-> "page.draft.saved", rev |-> 1]>> \o ReferenceEvents(1)
    /\ UNCHANGED <<idem, replay, req>>

CanStart(p) ==
    /\ req[p].phase = "idle"
    /\ page.status # "absent"
    /\ Len(revs) < MaxRevisions

(* A client names as base a revision number it has been shown. *)
StartDraftWrite(p) ==
    /\ CanStart(p)
    /\ \E op \in KeyedOps, b \in 1..page.draftNo, k \in Keys \cup {NoKey},
          d \in Docs :
         req' = [req EXCEPT ![p] =
                   NewRequest(IF k = NoKey THEN "read" ELSE "lookup",
                              op, b, k, d, 0)]
    /\ UNCHANGED <<store, replay>>

StartPublishOrArchive(p) ==
    /\ CanStart(p)
    /\ \E op \in {"publish", "archive"}, b \in 1..page.draftNo :
         req' = [req EXCEPT ![p] = NewRequest("read", op, b, NoKey, NoDoc, 0)]
    /\ UNCHANGED <<store, replay>>

StartRestore(p) ==
    /\ CanStart(p)
    /\ \E t \in 1..Len(revs) :
         req' = [req EXCEPT ![p] =
                   NewRequest("read", "restore", 0, NoKey, NoDoc, t)]
    /\ UNCHANGED <<store, replay>>

(* Mutant of LookupHit: a repeated request is answered with the head. *)
LookupHitAnswersHead(p) ==
    /\ req[p].phase = "lookup"
    /\ idem[IdemKey(req[p])] # 0
    /\ req' = [req EXCEPT ![p] = Answer(req[p], "ok", page.draftNo)]
    /\ UNCHANGED <<store, replay>>

(* A recorded key answers with the revision it produced, whatever the state *)
(* of the page is now.                                                      *)
LookupHit(p) ==
    /\ req[p].phase = "lookup"
    /\ idem[IdemKey(req[p])] # 0
    /\ req' = [req EXCEPT ![p] =
                 Answer(req[p], "ok", revs[idem[IdemKey(req[p])]].no)]
    /\ UNCHANGED <<store, replay>>

(* No record, or a lookup error, which the handler treats the same way. *)
LookupMiss(p) ==
    /\ req[p].phase = "lookup"
    /\ idem[IdemKey(req[p])] = 0 \/ LookupMayFail
    /\ req' = [req EXCEPT ![p].phase = "read"]
    /\ UNCHANGED <<store, replay>>

(* GetPage returns an archived page: every handler but archival refuses. *)
ReadArchivedPage(p) ==
    /\ req[p].phase = "read"
    /\ req[p].op # "archive"
    /\ page.status = "archived"
    /\ req' = [req EXCEPT ![p] = Answer(req[p], "archived", 0)]
    /\ UNCHANGED <<store, replay>>

(* GetPage shows that the base is not the draft head.  Archival makes this *)
(* check before it looks at the status.                                    *)
ReadStalePage(p) ==
    LET r == req[p] IN
    /\ r.phase = "read"
    /\ r.op # "restore"
    /\ r.op = "archive" \/ page.status # "archived"
    /\ Stale(r)
    /\ req' = [req EXCEPT ![p] = IF r.op = "collab"
                                 THEN Answer(r, "rebase", page.draftNo)
                                 ELSE [r EXCEPT !.phase = "conflict"]]
    /\ UNCHANGED <<store, replay>>

(* GetPage shows that the base is the draft head of a mutable page. *)
ReadCurrentPage(p) ==
    LET r == req[p] IN
    /\ r.phase = "read"
    /\ r.op \notin {"restore", "archive"}
    /\ page.status # "archived"
    /\ ~Stale(r)
    /\ req' = [req EXCEPT ![p] = [r EXCEPT !.phase = "base", !.seen = page]]
    /\ UNCHANGED <<store, replay>>

(* A restore names no base: it takes the draft head it reads. *)
ReadPageToRestore(p) ==
    LET r == req[p] IN
    /\ r.phase = "read"
    /\ r.op = "restore"
    /\ page.status # "archived"
    /\ req' = [req EXCEPT ![p] = [r EXCEPT !.phase = "base", !.seen = page,
                                           !.base = page.draftNo]]
    /\ UNCHANGED <<store, replay>>

(* Archival of an archived page succeeds without a transaction. *)
ReadPageToArchive(p) ==
    LET r == req[p] IN
    /\ r.phase = "read"
    /\ r.op = "archive"
    /\ ~Stale(r)
    /\ req' = [req EXCEPT ![p] = IF page.status = "archived"
                                 THEN Answer(r, "ok", page.draftNo)
                                 ELSE [r EXCEPT !.phase = "commit",
                                                !.seen = page]]
    /\ UNCHANGED <<store, replay>>

(* GetRevision(draft), a second read of the store, which may see a newer    *)
(* head than the first: the base revision of a save, and the document of a  *)
(* publication.                                                             *)
ReadDraftRevision(p) ==
    LET r == req[p] IN
    /\ r.phase = "base"
    /\ r.op # "restore"
    /\ req' = [req EXCEPT ![p] =
                 [r EXCEPT !.phase = "commit", !.baseId = page.draftId,
                           !.doc = IF r.op = "publish"
                                   THEN revs[page.draftId].doc ELSE r.doc]]
    /\ UNCHANGED <<store, replay>>

(* Mutant of ReadTargetRevision: the restored document is not copied. *)
ReadTargetWithoutDocument(p) ==
    /\ req[p].phase = "base"
    /\ req[p].op = "restore"
    /\ req' = [req EXCEPT ![p].phase = "commit", ![p].baseId = req[p].seen.draftId]
    /\ UNCHANGED <<store, replay>>

(* GetRevisionByID of the revision to restore. *)
ReadTargetRevision(p) ==
    LET r == req[p] IN
    /\ r.phase = "base"
    /\ r.op = "restore"
    /\ req' = [req EXCEPT ![p] =
                 [r EXCEPT !.phase = "commit", !.baseId = r.seen.draftId,
                           !.doc = revs[r.target].doc]]
    /\ UNCHANGED <<store, replay>>

(* The transaction of autosave, collaborative commit and restore. *)
SaveDraftRevision(p) ==
    LET r == req[p]
        no == NextRevisionNo(r.seen)
        id == Len(revs) + 1 IN
    /\ r.phase = "commit"
    /\ r.op \in DraftOps
    /\ ~Stale(r)
    /\ ~DuplicateNo(no)
    /\ revs' = Append(revs, [no |-> no, kind |-> "draft", base |-> r.baseId,
                             from |-> r.base, doc |-> r.doc, via |-> r.op,
                             key |-> r.key])
    /\ page' = WithDraftHead(r, id, no)
    /\ idem' = RecordKey(r, id)
    /\ outbox' = Append(outbox, [type |-> "page.draft.saved", rev |-> id])
                 \o ReferenceEvents(id)
    /\ req' = [req EXCEPT ![p] = [r EXCEPT !.phase = "append", !.no = no]]
    /\ UNCHANGED replay

(* The transaction of a publication: it too is guarded by the draft number. *)
SavePublishedRevision(p) ==
    LET r == req[p]
        no == NextRevisionNo(r.seen)
        id == Len(revs) + 1 IN
    /\ r.phase = "commit"
    /\ r.op = "publish"
    /\ ~Stale(r)
    /\ ~DuplicateNo(no)
    /\ revs' = Append(revs, [no |-> no, kind |-> "published", base |-> r.baseId,
                             from |-> r.base, doc |-> r.doc, via |-> r.op,
                             key |-> NoKey])
    /\ page' = WithPublishedHead(r, id, no)
    /\ outbox' = Append(outbox, [type |-> "page.published", rev |-> id])
                 \o ReferenceEvents(id)
    /\ req' = [req EXCEPT ![p] = [r EXCEPT !.phase = "append", !.no = no]]
    /\ UNCHANGED <<idem, replay>>

(* The transaction of an archival creates no revision and keeps the heads. *)
ArchivePage(p) ==
    LET r == req[p] IN
    /\ r.phase = "commit"
    /\ r.op = "archive"
    /\ ~Stale(r)
    /\ page' = WithArchivedStatus(r)
    /\ outbox' = Append(outbox, [type |-> "page.archived",
                                 rev |-> r.seen.draftId])
    /\ req' = [req EXCEPT ![p] = Answer(r, "ok", r.seen.draftNo)]
    /\ UNCHANGED <<revs, idem, replay>>

(* The transaction is rolled back because the draft head has moved.  A     *)
(* collaborative commit answers with the head it saw, a restore passes the *)
(* error on, the others read the new head.                                 *)
RejectStale(p) ==
    LET r == req[p] IN
    /\ r.phase = "commit"
    /\ Stale(r)
    /\ req' = [req EXCEPT ![p] =
                 IF r.op = "collab" THEN Answer(r, "rebase", r.seen.draftNo)
                 ELSE IF r.op = "restore" THEN Answer(r, "error", 0)
                 ELSE [r EXCEPT !.phase = "conflict"]]
    /\ UNCHANGED <<store, replay>>

(* The transaction is rolled back by the constraint on revision numbers. *)
RejectDuplicate(p) ==
    /\ req[p].phase = "commit"
    /\ req[p].op # "archive"
    /\ ~Stale(req[p])
    /\ DuplicateNo(NextRevisionNo(req[p].seen))
    /\ req' = [req EXCEPT ![p] = Answer(req[p], "error", 0)]
    /\ UNCHANGED <<store, replay>>

(* Mutant of BuildConflictPayload: it names the base the client sent. *)
ConflictPayloadOfBase(p) ==
    /\ req[p].phase = "conflict"
    /\ req' = [req EXCEPT ![p] = Answer(req[p], "rebase", req[p].base)]
    /\ UNCHANGED <<store, replay>>

(* The conflict payload is built from a fresh read of the draft head. *)
BuildConflictPayload(p) ==
    /\ req[p].phase = "conflict"
    /\ req' = [req EXCEPT ![p] =
                 Answer(req[p], "rebase", revs[page.draftId].no)]
    /\ UNCHANGED <<store, replay>>

(* The read of the head fails after archival found its base stale: it      *)
(* returns the nil error of its first read, which the caller takes for     *)
(* success.                                                                *)
ArchiveConflictReadFails(p) ==
    /\ req[p].phase = "conflict"
    /\ req[p].op = "archive"
    /\ req[p].seen = NoPage
    /\ req' = [req EXCEPT ![p] = Answer(req[p], "ok", 0)]
    /\ UNCHANGED <<store, replay>>

(* The last n entries of a sequence. *)
LastEntries(s, n) == IF Len(s) > n THEN SubSeq(s, Len(s) - n + 1, Len(s)) ELSE s

(* Mutant of RecordReplayWindow: the key of an autosave passes for a patch id. *)
RecordReplayWithAnyKey(p) ==
    LET r == req[p]
        entry == [no |-> r.no, op |-> r.op, patch |-> r.key] IN
    /\ r.phase = "append"
    /\ replay' = LastEntries(Append(replay, entry), ReplayLimit)
    /\ req' = [req EXCEPT ![p] = Answer(r, "ok", r.no)]
    /\ UNCHANGED store

(* After the commit: append to the replay window and trim it to its limit. *)
(* The memory store also drops the entries that are past their ten minutes *)
(* here, and only here.  An error of the window is ignored: the handler     *)
(* answers as if the entry were there.                                      *)
RecordReplayWindow(p) ==
    LET r == req[p]
        entry == [no |-> r.no, op |-> r.op,
                  patch |-> IF r.op = "collab" THEN r.key ELSE NoKey] IN
    /\ r.phase = "append"
    /\ \/ \E expired \in 0..(IF ReplayStore = "memory" THEN Len(replay) ELSE 0) :
            replay' = LastEntries(
                        Append(SubSeq(replay, expired + 1, Len(replay)), entry),
                        ReplayLimit)
       \/ UNCHANGED replay
    /\ req' = [req EXCEPT ![p] = Answer(r, "ok", r.no)]
    /\ UNCHANGED store

(* Redis drops the whole window ten minutes after the last append. *)
ExpireReplayWindow ==
    /\ ReplayStore = "redis"
    /\ replay # <<>>
    /\ replay' = <<>>
    /\ UNCHANGED <<store, req>>

Reply(p) ==
    /\ req[p].phase = "reply"
    /\ req' = [req EXCEPT ![p] = Idle]
    /\ UNCHANGED <<store, replay>>

(* A handler ends without an answer of its own: denied, invalid, an         *)
(* unavailable dependency, a store error, a cancelled context, a crash.     *)
(* After the commit this loses the replay entry, and the client the answer. *)
Abort(p) ==
    /\ req[p].phase \notin {"idle", "reply"}
    /\ req' = [req EXCEPT ![p] = Idle]
    /\ UNCHANGED <<store, replay>>

Step(p) ==
    \/ StartDraftWrite(p) \/ StartPublishOrArchive(p) \/ StartRestore(p)
    \/ LookupHit(p) \/ LookupMiss(p)
    \/ ReadArchivedPage(p) \/ ReadStalePage(p) \/ ReadCurrentPage(p)
    \/ ReadPageToRestore(p) \/ ReadPageToArchive(p)
    \/ ReadDraftRevision(p) \/ ReadTargetRevision(p)
    \/ SaveDraftRevision(p) \/ SavePublishedRevision(p) \/ ArchivePage(p)
    \/ RejectStale(p) \/ RejectDuplicate(p) \/ BuildConflictPayload(p)
    \/ ArchiveConflictReadFails(p) \/ RecordReplayWindow(p) \/ Reply(p) \/ Abort(p)

Next ==
    \/ CreatePage
    \/ ExpireReplayWindow
    \/ \E p \in Procs : Step(p)

Spec == Init /\ [][Next]_vars

-------------------------------------------------------------------------------
(* Properties *)

(* Every variable has the shape the store and the handlers give it. *)
TypeOK ==
    /\ page \in Page
    /\ revs \in Seq(Revision)
    /\ idem \in [IdemKeys -> Nat]
    /\ outbox \in Seq(Event)
    /\ replay \in Seq(ReplayEntry)
    /\ req \in [Procs -> Request]

(* Revisions are numbered 1, 2, 3, ... in the order they are accepted, and  *)
(* the larger head of the row is the last number used: a save or a          *)
(* publication that raced with another one never leaves a gap, reuses a     *)
(* number or moves a head backwards.                                        *)
NumbersFollowAcceptance ==
    /\ \A i \in 1..Len(revs) : revs[i].no = i
    /\ NextRevisionNo(page) = Len(revs) + 1

(* The heads in the row are the latest draft and the latest published       *)
(* revision: no accepted save or publication is lost from the row.          *)
HeadsAreLatest ==
    /\ \A i \in 1..Len(revs) :
         /\ revs[i].kind = "draft" => i <= page.draftId
         /\ revs[i].kind = "published" => i <= page.publishedId
    /\ page.draftId # 0 =>
         /\ page.draftId \in 1..Len(revs)
         /\ revs[page.draftId].kind = "draft"
         /\ revs[page.draftId].no = page.draftNo
    /\ page.publishedId # 0 =>
         /\ page.publishedId \in 1..Len(revs)
         /\ revs[page.publishedId].kind = "published"
         /\ revs[page.publishedId].no = page.publishedNo

(* Each revision is based on the draft that was the head when it was        *)
(* accepted, and that is the draft its author named: no save silently       *)
(* overwrites one its author had not seen, although the check, the read of  *)
(* the base and the transaction are separate steps.  A published revision   *)
(* is a copy of that draft.                                                 *)
BasedOnLatestDraft ==
    \A i \in 2..Len(revs) :
        LET b == revs[i].base IN
        /\ b \in 1..(i - 1)
        /\ revs[b].kind = "draft"
        /\ revs[b].no = revs[i].from
        /\ \A j \in (b + 1)..(i - 1) : revs[j].kind # "draft"
        /\ revs[i].kind = "published" => revs[i].doc = revs[b].doc

(* A key produces at most one revision and its record names that revision,  *)
(* whatever requests carrying the key overlap, get lost or are repeated     *)
(* with a newer base.                                                       *)
KeyUsedOnce ==
    \A i \in 1..Len(revs) :
        revs[i].via \in KeyedOps /\ revs[i].key # NoKey =>
            /\ idem[<<revs[i].via, revs[i].key>>] = i
            /\ \A j \in 1..Len(revs) :
                 revs[j].via = revs[i].via /\ revs[j].key = revs[i].key => i = j

(* A rejected save, publication or archival is told of a draft that is      *)
(* newer than its base, so a client that rebases makes progress.            *)
RebaseIsProgress ==
    \A p \in Procs :
        req[p].outcome = "rebase" /\ req[p].op # "collab" =>
            /\ req[p].no > req[p].base
            /\ \E i \in 1..Len(revs) : revs[i].no = req[p].no
                                       /\ revs[i].kind = "draft"

(* The archival of the page was committed, with its event. *)
ArchiveRecorded ==
    \E i \in 1..Len(outbox) : outbox[i].type = "page.archived"

(* A success names a committed revision made by this operation and, for a   *)
(* keyed request, with this key: nothing is acknowledged that the store     *)
(* could still lose.  An archival that succeeds was committed, by this or   *)
(* an earlier request; the one success that says nothing is the empty one   *)
(* of a conflict whose head could not be read, which has no revision        *)
(* number.                                                                  *)
AckedIsCommitted ==
    \A p \in Procs :
        req[p].outcome = "ok" =>
            IF req[p].op = "archive"
            THEN req[p].no = 0 \/ ArchiveRecorded
            ELSE \E i \in 1..Len(revs) :
                   /\ revs[i].no = req[p].no
                   /\ revs[i].via = req[p].op
                   /\ revs[i].key = req[p].key

(* Once a page has been archived, no autosave, collaborative commit or      *)
(* publication is accepted: archived pages are read-only.                   *)
ArchivedIsReadOnly ==
    \A i, j \in 1..Len(outbox) :
        i < j /\ outbox[i].type = "page.archived" =>
            /\ outbox[j].type # "page.published"
            /\ outbox[j].type = "page.draft.saved" =>
                 revs[outbox[j].rev].via \notin KeyedOps

-------------------------------------------------------------------------------
(* The inductive invariant behind the properties above, for the Postgres   *)
(* store.                                                                  *)

(* The row and the revisions agree; requests exist only once the page does. *)
StoreInv ==
    /\ page.status = "absent" =>
         page = NoPage /\ revs = <<>> /\ req = [p \in Procs |-> Idle]
    /\ page.status # "absent" =>
         /\ page.draftNo \in 1..Len(revs)
         /\ page.draftId = page.draftNo
         /\ page.publishedNo \in 0..Len(revs)
         /\ page.publishedId = page.publishedNo
         /\ revs[page.draftNo].kind = "draft"
         /\ page.publishedNo # 0 => revs[page.publishedNo].kind = "published"
    /\ NumbersFollowAcceptance
    /\ \A i \in 1..Len(revs) :
         /\ revs[i].kind = "draft" => i <= page.draftNo
         /\ revs[i].kind = "published" => i <= page.publishedNo

(* A recorded key names a revision that carries the key. *)
IdemInv ==
    \A k \in IdemKeys : idem[k] # 0 =>
        /\ idem[k] \in 1..Len(revs)
        /\ revs[idem[k]].via = k[1]
        /\ revs[idem[k]].key = k[2]

(* What a handler knows at each point of its work.  The row it saw is at    *)
(* most as new as the row now, the revision it read is at least as new as   *)
(* the row it saw.                                                          *)
RequestInv(r) ==
    /\ r.phase = "idle" <=> r.op = "none"
    /\ r.phase # "reply" => r.outcome = "none"
    /\ r.phase # "idle" => r.base <= page.draftNo
    /\ r.phase = "lookup" => r.key \in Keys
    /\ r.key # NoKey => r.op \in KeyedOps
    /\ r.op \in KeyedOps /\ r.phase # "reply" => r.doc \in Docs
    /\ r.op = "restore" /\ r.phase \in {"read", "base"} =>
         r.target \in 1..Len(revs)
    /\ r.phase \in {"base", "commit"} =>
         /\ r.seen.status # "absent"
         /\ r.seen.draftNo = r.base
         /\ r.seen.draftId = r.seen.draftNo
         /\ r.seen.draftNo >= 1
         /\ r.seen.publishedNo <= page.publishedNo
         /\ r.op = "restore" => revs[r.seen.draftNo].kind = "draft"
    /\ r.phase = "commit" /\ r.op # "archive" =>
         /\ r.baseId \in r.base..page.draftNo
         /\ revs[r.baseId].kind = "draft"
         /\ r.doc \in Docs
         /\ r.op = "publish" => r.doc = revs[r.baseId].doc
    /\ r.phase = "conflict" => r.base < page.draftNo
    /\ r.phase \in {"append", "reply"} /\ r.op # "archive"
         /\ (r.phase = "append" \/ r.outcome = "ok") =>
              /\ r.no \in 1..Len(revs)
              /\ revs[r.no].via = r.op
              /\ revs[r.no].key = r.key
    /\ r.outcome = "rebase" /\ r.op # "collab" =>
         /\ r.no \in 1..Len(revs)
         /\ r.no > r.base
         /\ revs[r.no].kind = "draft"

(* A request that missed its key can only be preceded by revisions of that  *)
(* key that are newer than its base.                                        *)
MissInv(r) ==
    r.phase \in {"read", "base", "commit"} /\ r.key # NoKey =>
        \A i \in 1..Len(revs) :
            revs[i].via = r.op /\ revs[i].key = r.key => i > r.base

IndInv ==
    /\ TypeOK
    /\ StoreInv
    /\ BasedOnLatestDraft
    /\ IdemInv
    /\ \A p \in Procs : RequestInv(req[p])

KeyInv ==
    /\ KeyUsedOnce
    /\ \A i \in 1..Len(revs) : revs[i].via \in KeyedOps => revs[i].kind = "draft"
    /\ \A p \in Procs : MissInv(req[p])

(* Handlers stop at an archived page, so none holds a row that says so. *)
ArchiveInv ==
    /\ page.status = "archived" => ArchiveRecorded
    /\ \A p \in Procs :
         /\ req[p].seen.status # "archived"
         /\ req[p].phase = "append" => req[p].op # "archive"
         /\ req[p].outcome = "ok" /\ req[p].op = "archive" /\ req[p].no # 0 =>
              ArchiveRecorded

-------------------------------------------------------------------------------
(* The ledger the handlers implement: who made a revision, and with which   *)
(* key, is not part of it.                                                  *)
LedgerLog(s) ==
    [i \in 1..Len(s) |->
        [kind |-> s[i].kind, base |-> s[i].base, doc |-> s[i].doc]]

Ledger == INSTANCE PageLedger WITH
    log <- LedgerLog(revs),
    draft <- page.draftNo,
    published <- page.publishedNo

(* The interleaved handlers behave like atomic operations on the ledger:    *)
(* every transaction that commits is one ledger step, everything else is    *)
(* invisible.                                                               *)
ImplementsLedger == Ledger!Spec

===============================================================================
