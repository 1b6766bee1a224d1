------------------------------ MODULE EditorSync ------------------------------
(***************************************************************************)
(* Resynchronisation of an editor after a disconnect (ResumeEditorSync),   *)
(* against the handlers of PageService.  The editor names the revision it  *)
(* last saw, the patch ids it has no answer for and, if it has one, the    *)
(* token of an earlier resynchronisation; the service answers "resume"     *)
(* (keep your document) or "replace" (take this one), and tells which of   *)
(* the patches are in the page and which have to be sent again.            *)
(*                                                                         *)
(* The handler only reads, so one of them stands for all.  The draft head, *)
(* the replay window and the idempotency table are read one after another, *)
(* while other requests commit.                                            *)
(***************************************************************************)
EXTENDS PageService

VARIABLE sync   \* the resynchronisation in progress

syncVars == <<vars, sync>>

-------------------------------------------------------------------------------
Sync == [phase : {"idle", "head", "entries", "classify", "done"},
         last : Nat, pending : SUBSET Keys, token : Nat, head : Nat,
         entries : SUBSET ReplayEntry, todo : SUBSET Keys, replayed : SUBSET Keys,
         mode : {"none", "resume", "replace"}]

NoSync == [phase |-> "idle", last |-> 0, pending |-> {}, token |-> 0, head |-> 0,
           entries |-> {}, todo |-> {}, replayed |-> {}, mode |-> "none"]

(* The patches among the listed entries, whose order plays no part. *)
InWindow(entries) == {e.patch : e \in entries} \ {NoKey}

(* Mutant of CanResumeWithoutReload: one patch of this editor is enough. *)
CanResumeWithOwnPatch(s) ==
    IF s.last = revs[s.head].no
    THEN s.token \in {0, s.last}
    ELSE /\ s.token = s.last
         /\ \E e \in s.entries : e.op = "collab" /\ e.patch \in s.replayed

(* Every change since the last known revision that the window lists is a   *)
(* patch of this editor, and the token was issued for that revision.       *)
CanResumeWithoutReload(s) ==
    IF s.last = revs[s.head].no
    THEN s.token \in {0, s.last}
    ELSE /\ s.token = s.last
         /\ s.entries # {}
         /\ \A e \in s.entries : e.op = "collab" /\ e.patch \in s.replayed

-------------------------------------------------------------------------------
SyncInit == Init /\ sync = NoSync

(* A token is issued for a draft head: its number, 0 if none is sent. *)
StartSync ==
    /\ sync.phase = "idle"
    /\ page.status # "absent"
    /\ \E l \in 1..page.draftNo, t \in 0..page.draftNo, ps \in SUBSET Keys :
         sync' = [NoSync EXCEPT !.phase = "head", !.last = l, !.token = t,
                                !.pending = ps]
    /\ UNCHANGED vars

ReadSyncHead ==
    /\ sync.phase = "head"
    /\ sync' = [sync EXCEPT !.phase = "entries", !.head = page.draftId]
    /\ UNCHANGED vars

(* ListSinceRevision; the patches it lists need no lookup. *)
ListReplayEntries ==
    LET window == {replay[i] : i \in 1..Len(replay)}
        listed == {e \in window : e.no > sync.last} IN
    /\ sync.phase = "entries"
    /\ sync' = [sync EXCEPT !.phase = "classify", !.entries = listed,
                            !.replayed = sync.pending \cap InWindow(listed),
                            !.todo = sync.pending \ InWindow(listed)]
    /\ UNCHANGED vars

(* Mutant of ClassifyPatch: only the replay window is consulted. *)
ClassifyByWindowOnly ==
    /\ sync.phase = "classify"
    /\ \E k \in sync.todo : sync' = [sync EXCEPT !.todo = @ \ {k}]
    /\ UNCHANGED vars

(* GetDraftIdempotency of one patch; an error counts as not found. *)
ClassifyPatch ==
    /\ sync.phase = "classify"
    /\ \E k \in sync.todo :
         \/ /\ idem[<<"collab", k>>] # 0
            /\ sync' = [sync EXCEPT !.todo = @ \ {k}, !.replayed = @ \cup {k}]
         \/ /\ idem[<<"collab", k>>] = 0 \/ LookupMayFail
            /\ sync' = [sync EXCEPT !.todo = @ \ {k}]
    /\ UNCHANGED vars

AnswerSync ==
    /\ sync.phase = "classify"
    /\ sync.todo = {}
    /\ sync' = [sync EXCEPT !.phase = "done",
                            !.mode = IF CanResumeWithoutReload(sync)
                                     THEN "resume" ELSE "replace"]
    /\ UNCHANGED vars

(* The answer is delivered, or a store or a dependency fails before that. *)
EndSync ==
    /\ sync.phase # "idle"
    /\ sync' = NoSync
    /\ UNCHANGED vars

SyncStep ==
    StartSync \/ ReadSyncHead \/ ListReplayEntries \/ ClassifyPatch
    \/ AnswerSync \/ EndSync

SyncNext == SyncStep \/ (Next /\ UNCHANGED sync)

SyncSpec == SyncInit /\ [][SyncNext]_syncVars

-------------------------------------------------------------------------------
(* Properties *)

Answered == sync.phase = "done"

(* The resynchronisation record has its shape. *)
SyncTypeOK == sync \in Sync

(* A patch the editor is told is in the page really is: the editor drops it *)
(* from its queue, so a wrong answer here loses the edit.                   *)
ReplayedIsCommitted ==
    \A k \in sync.replayed :
        \E i \in 1..Len(revs) : revs[i].via = "collab" /\ revs[i].key = k

(* A patch the editor is told to send again is not in the head the answer   *)
(* names, although the head was read two calls before the table of keys.    *)
MissingIsNotInHead ==
    Answered =>
        \A k \in sync.pending \ sync.replayed, i \in 1..sync.head :
            ~(revs[i].via = "collab" /\ revs[i].key = k)

(* An editor that is told to keep its document has made every draft change  *)
(* between the revision it knows and the head it is told of, except those   *)
(* the window did not list: a change of somebody else is overlooked only if *)
(* its entry was not appended yet, was lost or has been trimmed.            *)
KeptDocumentIsOwn ==
    Answered /\ sync.mode = "resume" =>
        \A i \in 1..sync.head :
            revs[i].kind = "draft" /\ revs[i].no > sync.last =>
                \/ revs[i].via = "collab" /\ revs[i].key \in sync.pending
                \/ \A e \in sync.entries : e.no # revs[i].no

-------------------------------------------------------------------------------
(* The inductive invariant behind ReplayedIsCommitted and                  *)
(* MissingIsNotInHead, next to that of PageService.                        *)

Committed(k) == \E i \in 1..Len(revs) : revs[i].via = "collab" /\ revs[i].key = k

(* What the replay window and the table of keys say of patches is true, and *)
(* the table is complete.                                                  *)
PatchInv ==
    /\ \A i \in 1..Len(replay) :
         replay[i].patch # NoKey => Committed(replay[i].patch)
    /\ \A i \in 1..Len(revs) :
         revs[i].via = "collab" /\ revs[i].key \in Keys =>
             idem[<<"collab", revs[i].key>>] # 0

(* The head is a revision, and a patch that has been classified as missing, *)
(* with no lookup failing, is in no revision up to it.                      *)
SyncInv ==
    /\ SyncTypeOK
    /\ ReplayedIsCommitted
    /\ sync.head \in 0..Len(revs)
    /\ sync.phase \in {"classify", "done"} /\ ~LookupMayFail =>
         \A k \in sync.pending \ (sync.replayed \cup sync.todo), i \in 1..sync.head :
             ~(revs[i].via = "collab" /\ revs[i].key = k)
    /\ sync.phase = "done" => sync.todo = {}

(* An entry of a patch names the revision that holds the patch. *)
EntryInv(e) ==
    e.op = "collab" =>
        /\ e.no \in 1..Len(revs)
        /\ revs[e.no].via = "collab"
        /\ revs[e.no].key = e.patch

(* Behind KeptDocumentIsOwn: the window and what was listed of it are true, *)
(* only pending patches are classified, and "resume" was decided for a head *)
(* that is known, or for a list of nothing but patches of this editor.      *)
KeptInv ==
    /\ \A i \in 1..Len(replay) : EntryInv(replay[i])
    /\ \A e \in sync.entries : EntryInv(e)
    /\ sync.replayed \cup sync.todo \subseteq sync.pending
    /\ Answered /\ sync.mode = "resume" /\ sync.head # 0 =>
         \/ sync.last = sync.head
         \/ \A e \in sync.entries : e.op = "collab" /\ e.patch \in sync.replayed

===============================================================================
