------------------------------ MODULE CollabRoom ------------------------------
(***************************************************************************)
(* One collaboration room: the cached head of a page that the websocket    *)
(* sessions of the page edit against.                                      *)
(*                                                                         *)
(* SubmitPatch runs under an in-process lock per room; Join and the        *)
(* consumer of page events save the room without it, and REST autosaves    *)
(* reach the page without passing through the room at all.  Each call to   *)
(* the room store, the presence store or the page service is a step.       *)
(*                                                                         *)
(* The page service is taken at its word (PageLedger, KeyUsedOnce): a      *)
(* commit is atomic, conditional on the draft head, and answers a patch id *)
(* it has already accepted with the revision that id produced.             *)
(*                                                                         *)
(* A document is the sequence of the edits made to it, so that an edit     *)
(* applied twice or lost can be seen.                                      *)
(*                                                                         *)
(* Clients send any patch id on any base, also an id the page has recorded *)
(* on another base: that is what a rebase_required asks for when the       *)
(* answer to the first attempt was lost.  SubmitPatch then puts the number *)
(* of the old revision on a document computed from the base it was sent    *)
(* with now.  The field sound is history and tells such documents apart.   *)
(***************************************************************************)
EXTENDS Naturals, Sequences

CONSTANTS Sessions, NoSession,  \* websocket connections; the lock is free
          Patches, NoPatch,     \* patch ids; an edit that is not a patch
          Refreshers,           \* callbacks of the page-event subscriptions
          MaxRevisions,         \* bound on the revisions of the page
          MaxEdits              \* bound: nothing is submitted once the room, or a
                                \* session's copy of it, holds as many edits

ASSUME ConstantsAssumption ==
    /\ NoSession \notin Sessions
    /\ NoPatch \notin Patches
    /\ MaxRevisions \in Nat
    /\ MaxEdits \in Nat

VARIABLES log,       \* draft revisions of the page, in the page service
          room,      \* the cached room state, NoRoom if absent or expired
          lock,      \* the session that holds the room lock
          members,   \* sessions with a live presence entry
          call,      \* the envelope each session's goroutine works on
          refresh    \* what each event callback is doing

vars == <<log, room, lock, members, call, refresh>>

-------------------------------------------------------------------------------
Docs == Seq(Patches \cup {NoPatch})

Revision == [doc : Docs, patch : Patches \cup {NoPatch}, sound : BOOLEAN]

RoomState == [no : Nat, doc : Docs, sound : BOOLEAN]
NoRoom == [no |-> 0, doc |-> <<>>, sound |-> TRUE]

SubmitPhases == {"get", "reload", "saveReload", "check", "commit",
                 "saveAccepted", "head", "saveHead"}
JoinPhases == {"joinHead", "joinSave", "joinEnter"}

Call == [phase : {"idle", "lock"} \cup SubmitPhases \cup JoinPhases,
         patch : Patches \cup {NoPatch}, base : Nat, seen : RoomState,
         outcome : {"none", "accepted", "rebase", "rejected", "error"}, no : Nat]

Refresh == [phase : {"idle", "head", "save"}, seen : RoomState]

IdleCall == [phase |-> "idle", patch |-> NoPatch, base |-> 0, seen |-> NoRoom,
             outcome |-> "none", no |-> 0]

(* GetRevisionHead: the draft head of the page. *)
PageHead == [no |-> Len(log), doc |-> log[Len(log)].doc, sound |-> TRUE]

(* An edit that is not idempotent, such as insert_block. *)
ApplyPatch(doc, patch) == Append(doc, patch)

(* The goroutine of session s moves to the next call. *)
GoTo(s, phase, seen) ==
    call' = [call EXCEPT ![s].phase = phase, ![s].seen = seen]

(* Mutant of Finish: the rejection paths return without unlocking. *)
FinishLocked(s, outcome) ==
    /\ call' = [call EXCEPT ![s] =
                  IF outcome = "accepted"
                  THEN [IdleCall EXCEPT !.outcome = outcome, !.patch = call[s].patch,
                                        !.no = call[s].no]
                  ELSE [IdleCall EXCEPT !.outcome = outcome]]
    /\ lock' = IF outcome = "rejected" THEN lock ELSE NoSession

(* SubmitPatch returns: the deferred unlock runs and the answer is sent.    *)
(* Of an acceptance the patch and the number it was given are remembered.   *)
Finish(s, outcome) ==
    /\ call' = [call EXCEPT ![s] =
                  IF outcome = "accepted"
                  THEN [IdleCall EXCEPT !.outcome = outcome, !.patch = call[s].patch,
                                        !.no = call[s].no]
                  ELSE [IdleCall EXCEPT !.outcome = outcome]]
    /\ lock' = NoSession

-------------------------------------------------------------------------------
Init ==
    /\ log = <<[doc |-> <<>>, patch |-> NoPatch, sound |-> TRUE]>>
    /\ room = NoRoom
    /\ lock = NoSession
    /\ members = {}
    /\ call = [s \in Sessions |-> IdleCall]
    /\ refresh = [f \in Refreshers |-> [phase |-> "idle", seen |-> NoRoom]]

(* A REST autosave or restore changes the draft head past the room. *)
SaveOverREST ==
    /\ Len(log) < MaxRevisions
    /\ log' = Append(log, [doc |-> Append(PageHead.doc, NoPatch),
                           patch |-> NoPatch, sound |-> TRUE])
    /\ UNCHANGED <<room, lock, members, call, refresh>>

(* A client sends a patch, or sends one again, after losing the answer or   *)
(* after a rebase: on the base it likes.                                    *)
Submit(s) ==
    /\ call[s].phase = "idle"
    /\ Len(log) < MaxRevisions
    /\ Len(room.doc) < MaxEdits
    /\ \A q \in Sessions : Len(call[q].seen.doc) < MaxEdits
    /\ \E p \in Patches, b \in 1..Len(log) :
         call' = [call EXCEPT ![s] = [IdleCall EXCEPT !.phase = "lock",
                                                      !.patch = p, !.base = b]]
    /\ UNCHANGED <<log, room, lock, members, refresh>>

AcquireLock(s) ==
    /\ call[s].phase = "lock"
    /\ lock = NoSession
    /\ lock' = s
    /\ GoTo(s, "get", NoRoom)
    /\ UNCHANGED <<log, room, members, refresh>>

GetRoom(s) ==
    /\ call[s].phase = "get"
    /\ IF room = NoRoom THEN GoTo(s, "reload", NoRoom) ELSE GoTo(s, "check", room)
    /\ UNCHANGED <<log, room, lock, members, refresh>>

(* reloadRoom: read the head of the page ... *)
ReloadHead(s) ==
    /\ call[s].phase = "reload"
    /\ GoTo(s, "saveReload", PageHead)
    /\ UNCHANGED <<log, room, lock, members, refresh>>

(* ... and save it as the room. *)
SaveReload(s) ==
    /\ call[s].phase = "saveReload"
    /\ room' = call[s].seen
    /\ GoTo(s, "check", call[s].seen)
    /\ UNCHANGED <<log, lock, members, refresh>>

(* The presence list has no such session, or the patch does not apply. *)
RejectPatch(s) ==
    LET c == call[s] IN
    /\ c.phase = "check"
    /\ s \notin members \/ c.seen.no = c.base
    /\ Finish(s, "rejected")
    /\ UNCHANGED <<log, room, members, refresh>>

(* The base of the patch is not the head the room shows. *)
AskForRebase(s) ==
    LET c == call[s] IN
    /\ c.phase = "check"
    /\ s \in members
    /\ c.seen.no # c.base
    /\ Finish(s, "rebase")
    /\ UNCHANGED <<log, room, members, refresh>>

AcceptPatch(s) ==
    LET c == call[s] IN
    /\ c.phase = "check"
    /\ s \in members
    /\ c.seen.no = c.base
    /\ GoTo(s, "commit", c.seen)
    /\ UNCHANGED <<log, room, lock, members, refresh>>

(* What CommitCollaborativeRevision does to the page: nothing if the patch  *)
(* id is recorded, a new revision if the base is the head.                  *)
Recorded(p) == {i \in 1..Len(log) : log[i].patch = p}

(* Mutant of CommitEffect: the commit is not conditional on the head. *)
UnconditionalCommit(s) ==
    LET c == call[s] IN
    \/ Recorded(c.patch) # {} /\ UNCHANGED log
    \/ /\ Recorded(c.patch) = {}
       /\ log' = Append(log, [doc |-> ApplyPatch(c.seen.doc, c.patch),
                              patch |-> c.patch, sound |-> c.seen.sound])

CommitEffect(s) ==
    LET c == call[s] IN
    \/ Recorded(c.patch) # {} /\ UNCHANGED log
    \/ /\ Recorded(c.patch) = {}
       /\ c.base = Len(log)
       /\ log' = Append(log, [doc |-> ApplyPatch(c.seen.doc, c.patch),
                              patch |-> c.patch, sound |-> c.seen.sound])

(* Mutant of CommitRevision: the answer is the head of the page. *)
CommitAnswersHead(s) ==
    /\ call[s].phase = "commit"
    /\ CommitEffect(s)
    /\ call' = [call EXCEPT ![s].phase = "saveAccepted", ![s].no = Len(log')]
    /\ UNCHANGED <<room, lock, members, refresh>>

(* CommitRevision answers with the revision of the patch id. *)
CommitRevision(s) ==
    LET c == call[s] IN
    /\ c.phase = "commit"
    /\ CommitEffect(s)
    /\ \E i \in 1..Len(log') :
         /\ log'[i].patch = c.patch
         /\ call' = [call EXCEPT ![s].phase = "saveAccepted", ![s].no = i]
    /\ UNCHANGED <<room, lock, members, refresh>>

(* The commit takes effect but its answer is lost. *)
CommitAnswerLost(s) ==
    /\ call[s].phase = "commit"
    /\ CommitEffect(s)
    /\ Finish(s, "error")
    /\ UNCHANGED <<room, members, refresh>>

(* CommitRevision is aborted: the draft head is not the base. *)
CommitAborted(s) ==
    /\ call[s].phase = "commit"
    /\ Recorded(call[s].patch) = {}
    /\ call[s].base # Len(log)
    /\ GoTo(s, "head", call[s].seen)
    /\ UNCHANGED <<log, room, lock, members, refresh>>

(* History: the document of c is a revision, and the answer names the one   *)
(* that follows it.                                                         *)
SoundAnswer(c) ==
    c.seen.sound /\ log[c.no].sound /\ c.no = c.base + 1

(* Mutant of SaveAccepted: the room keeps the document it had. *)
SaveNumberOnly(s) ==
    /\ call[s].phase = "saveAccepted"
    /\ room' = [no |-> call[s].no, doc |-> call[s].seen.doc,
                sound |-> SoundAnswer(call[s])]
    /\ Finish(s, "accepted")
    /\ UNCHANGED <<log, members, refresh>>

(* The room takes the document computed from the room that was read first,  *)
(* and the number the page service answered with.                           *)
SaveAccepted(s) ==
    LET c == call[s] IN
    /\ c.phase = "saveAccepted"
    /\ room' = [no |-> c.no, doc |-> ApplyPatch(c.seen.doc, c.patch),
                sound |-> SoundAnswer(c)]
    /\ Finish(s, "accepted")
    /\ UNCHANGED <<log, members, refresh>>

ReadHead(s) ==
    /\ call[s].phase = "head"
    /\ GoTo(s, "saveHead", PageHead)
    /\ UNCHANGED <<log, room, lock, members, refresh>>

(* Mutant of SaveHead: the revision is saved in place of the room. *)
SaveRevisionAsRoom(s) ==
    /\ call[s].phase = "saveHead"
    /\ room' = log[call[s].seen.no]
    /\ Finish(s, "rebase")
    /\ UNCHANGED <<log, members, refresh>>

SaveHead(s) ==
    /\ call[s].phase = "saveHead"
    /\ room' = call[s].seen
    /\ Finish(s, "rebase")
    /\ UNCHANGED <<log, members, refresh>>

(* A store or the page service fails; the page may also be archived. *)
FailPatch(s) ==
    /\ call[s].phase \in SubmitPhases
    /\ Finish(s, "error")
    /\ UNCHANGED <<log, room, members, refresh>>

-------------------------------------------------------------------------------
(* Joining takes no lock. *)

JoinGetRoom(s) ==
    /\ call[s].phase = "idle"
    /\ s \notin members
    /\ call' = [call EXCEPT ![s] =
                  IF room = NoRoom
                  THEN [IdleCall EXCEPT !.phase = "joinHead"]
                  ELSE [IdleCall EXCEPT !.phase = "joinEnter", !.seen = room]]
    /\ UNCHANGED <<log, room, lock, members, refresh>>

JoinRefreshSnapshot(s) ==
    /\ call[s].phase = "joinHead"
    /\ GoTo(s, "joinSave", PageHead)
    /\ UNCHANGED <<log, room, lock, members, refresh>>

JoinSaveRoom(s) ==
    /\ call[s].phase = "joinSave"
    /\ room' = call[s].seen
    /\ GoTo(s, "joinEnter", call[s].seen)
    /\ UNCHANGED <<log, lock, members, refresh>>

(* A client that knows an older revision is told to rebase and stays out. *)
JoinEnter(s) ==
    /\ call[s].phase = "joinEnter"
    /\ \E lastKnown \in 0..Len(log) :
         members' = IF lastKnown > 0 /\ lastKnown < call[s].seen.no
                    THEN members ELSE members \cup {s}
    /\ call' = [call EXCEPT ![s] = IdleCall]
    /\ UNCHANGED <<log, room, lock, refresh>>

JoinFail(s) ==
    /\ call[s].phase \in JoinPhases
    /\ call' = [call EXCEPT ![s] = IdleCall]
    /\ UNCHANGED <<log, room, lock, members, refresh>>

(* leave_session, a disconnect, or 45 seconds without a heartbeat. *)
DropMember(s) ==
    /\ s \in members
    /\ members' = members \ {s}
    /\ UNCHANGED <<log, room, lock, call, refresh>>

-------------------------------------------------------------------------------
(* RefreshExistingRoom, run for every page event, with no lock. *)

RefreshGetRoom(f) ==
    /\ refresh[f].phase = "idle"
    /\ room # NoRoom
    /\ refresh' = [refresh EXCEPT ![f] = [phase |-> "head", seen |-> NoRoom]]
    /\ UNCHANGED <<log, room, lock, members, call>>

RefreshReadHead(f) ==
    /\ refresh[f].phase = "head"
    /\ refresh' = [refresh EXCEPT ![f] = [phase |-> "save", seen |-> PageHead]]
    /\ UNCHANGED <<log, room, lock, members, call>>

RefreshSaveRoom(f) ==
    /\ refresh[f].phase = "save"
    /\ room' = refresh[f].seen
    /\ refresh' = [refresh EXCEPT ![f] = [phase |-> "idle", seen |-> NoRoom]]
    /\ UNCHANGED <<log, lock, members, call>>

RefreshFail(f) ==
    /\ refresh[f].phase # "idle"
    /\ refresh' = [refresh EXCEPT ![f] = [phase |-> "idle", seen |-> NoRoom]]
    /\ UNCHANGED <<log, room, lock, members, call>>

(* The room is not saved for the time of its TTL. *)
ExpireRoom ==
    /\ room # NoRoom
    /\ room' = NoRoom
    /\ UNCHANGED <<log, lock, members, call, refresh>>

-------------------------------------------------------------------------------
SubmitStep(s) ==
    \/ GetRoom(s) \/ ReloadHead(s) \/ SaveReload(s)
    \/ RejectPatch(s) \/ AskForRebase(s) \/ AcceptPatch(s)
    \/ CommitRevision(s) \/ CommitAnswerLost(s) \/ CommitAborted(s)
    \/ SaveAccepted(s) \/ ReadHead(s) \/ SaveHead(s) \/ FailPatch(s)

JoinStep(s) ==
    \/ JoinGetRoom(s) \/ JoinRefreshSnapshot(s) \/ JoinSaveRoom(s)
    \/ JoinEnter(s) \/ JoinFail(s)

RefreshStep(f) ==
    \/ RefreshGetRoom(f) \/ RefreshReadHead(f) \/ RefreshSaveRoom(f)
    \/ RefreshFail(f)

Next ==
    \/ SaveOverREST
    \/ ExpireRoom
    \/ \E s \in Sessions : \/ Submit(s) \/ AcquireLock(s) \/ SubmitStep(s)
                           \/ JoinStep(s) \/ DropMember(s)
    \/ \E f \in Refreshers : RefreshStep(f)

Spec == Init /\ [][Next]_vars

(* A goroutine that holds the lock keeps running, its calls end, and a Go   *)
(* mutex does not pass over a waiter for ever (its starvation mode).        *)
Fairness ==
    \A s \in Sessions : WF_vars(SubmitStep(s)) /\ SF_vars(AcquireLock(s))

FairSpec == Spec /\ Fairness

-------------------------------------------------------------------------------
(* Properties *)

(* Every variable has the shape the code gives it. *)
TypeOK ==
    /\ log \in Seq(Revision)
    /\ room \in RoomState
    /\ lock \in Sessions \cup {NoSession}
    /\ members \in SUBSET Sessions
    /\ call \in [Sessions -> Call]
    /\ refresh \in [Refreshers -> Refresh]

(* The room is a revision of the page: its document is the document of the  *)
(* revision whose number it carries, although three kinds of writers save   *)
(* it and only one of them holds the lock.  Only the answer to a patch id   *)
(* that the page recorded on another base makes it something else, until    *)
(* the room is read from the page again.                                    *)
RoomIsARevision ==
    room # NoRoom => /\ room.no \in 1..Len(log)
                     /\ room.sound => room.doc = log[room.no].doc

(* Each revision is the one before it with one edit added: no patch is      *)
(* lost, overwritten or applied to a document other than its base, however  *)
(* stale the room is that it was checked against, unless a repeated patch   *)
(* id had left that room with a document of its own.                        *)
RevisionsAddOneEdit ==
    \A i \in 2..Len(log) :
        log[i].sound => log[i].doc = Append(log[i - 1].doc, log[i].patch)

(* A patch id is committed at most once, however often and on whatever base *)
(* clients send it, and an accepted patch is in the revision its answer     *)
(* names.                                                                   *)
AcceptedOnce ==
    /\ \A i, j \in 1..Len(log) :
         log[i].patch # NoPatch /\ log[i].patch = log[j].patch => i = j
    /\ \A s \in Sessions :
         call[s].outcome = "accepted" =>
             /\ call[s].no \in 1..Len(log)
             /\ log[call[s].no].patch = call[s].patch

(* Every submitted patch is answered: no return path of SubmitPatch keeps   *)
(* the room locked for the sessions that wait for it.                       *)
EveryPatchIsAnswered ==
    \A s \in Sessions : call[s].phase = "lock" ~> call[s].phase = "idle"

===============================================================================
