--------------------------- MODULE CollabRoomProofs ---------------------------
(***************************************************************************)
(* Proofs about CollabRoom, for any number of sessions, patches, callbacks *)
(* and revisions, of clients that send any patch id on any base, as often  *)
(* as they like.                                                           *)
(***************************************************************************)
EXTENDS CollabRoom, TLAPS

(* r is the revision of l that its number names, or unsound. *)
IsRevision(r, l) == r.no \in 1..Len(l) /\ (r.sound => r.doc = l[r.no].doc)

(* A patch id that is in the page is there once. *)
PatchesAreUnique ==
    \A i, j \in 1..Len(log) :
        log[i].patch # NoPatch /\ log[i].patch = log[j].patch => i = j

(* The page starts with a revision that is no patch. *)
LogInv ==
    /\ Len(log) >= 1
    /\ log[1].patch = NoPatch
    /\ RevisionsAddOneEdit
    /\ PatchesAreUnique

(* Whoever is about to save the room holds a revision of the page. *)
HoldingPhases == {"saveReload", "check", "commit", "saveAccepted", "saveHead",
                  "joinSave", "joinEnter"}

(* What the goroutine of a session knows, given the revisions l.  From the  *)
(* check on, the revision it saw is its base; the number it got from the    *)
(* page service is that of its patch.                                       *)
CallInv(c, l) ==
    /\ c.phase \in {"lock"} \cup SubmitPhases =>
         c.patch \in Patches /\ c.base \in 1..Len(l)
    /\ c.phase \in HoldingPhases => IsRevision(c.seen, l)
    /\ c.phase \in {"commit", "saveAccepted"} => c.seen.no = c.base
    /\ c.phase = "saveAccepted" \/ c.outcome = "accepted" =>
         c.no \in 1..Len(l) /\ l[c.no].patch = c.patch

RoomInv ==
    /\ room = NoRoom \/ IsRevision(room, log)
    /\ \A f \in Refreshers :
         refresh[f].phase = "save" => IsRevision(refresh[f].seen, log)

IndInv ==
    /\ TypeOK
    /\ LogInv
    /\ RoomInv
    /\ \A s \in Sessions : CallInv(call[s], log)

(* l is m or a beginning of it. *)
Extends(l, m) == Len(l) <= Len(m) /\ \A i \in 1..Len(l) : m[i] = l[i]

Revisions == Seq(Revision)

-------------------------------------------------------------------------------
(* New revisions make nothing untrue that was known of the old ones. *)
LEMMA RevisionKept ==
    ASSUME NEW l \in Revisions, NEW m \in Revisions, Extends(l, m), NEW r,
           IsRevision(r, l)
    PROVE  IsRevision(r, m)
BY DEF Extends, IsRevision, Revisions

LEMMA CallKept ==
    ASSUME NEW l \in Revisions, NEW m \in Revisions, Extends(l, m), 
           NEW c \in Call, CallInv(c, l)
    PROVE  CallInv(c, m)
<1>1. c.phase \in HoldingPhases => IsRevision(c.seen, m)
    BY RevisionKept DEF CallInv
<1> QED
    BY <1>1 DEF CallInv, Extends, Revisions

LEMMA AppendExtends ==
    ASSUME NEW l \in Revisions, NEW r \in Revision
    PROVE  /\ Append(l, r) \in Revisions
           /\ Extends(l, Append(l, r))
           /\ Len(Append(l, r)) = Len(l) + 1
           /\ Append(l, r)[Len(l) + 1] = r
BY DEF Extends, Revisions

LEMMA SeqElement == ASSUME NEW S, NEW q \in Seq(S), NEW i \in 1..Len(q) PROVE q[i] \in S
OBVIOUS

(* The head of the page is a revision of it. *)
LEMMA HeadIsRevision ==
    ASSUME TypeOK, LogInv
    PROVE  PageHead \in RoomState /\ IsRevision(PageHead, log)
<1>1. Len(log) \in 1..Len(log)
    BY DEF TypeOK, LogInv
<1>2. log[Len(log)].doc \in Docs
    <2>1. log[Len(log)] \in Revision
        BY <1>1, SeqElement DEF TypeOK
    <2> QED
        BY <2>1 DEF Revision
<1>3. Len(log) \in Nat
    BY DEF TypeOK
<1> QED
    BY <1>1, <1>2, <1>3 DEF PageHead, RoomState, IsRevision

LEMMA RoomInit == Init => IndInv
<1> SUFFICES ASSUME Init PROVE IndInv
    OBVIOUS
<1>1. NoRoom \in RoomState /\ NoPatch \in Patches \cup {NoPatch} /\ <<>> \in Docs
    BY DEF NoRoom, RoomState, Docs
<1>2. IdleCall \in Call
    BY <1>1 DEF IdleCall, Call
<1>3. log \in Seq(Revision) /\ Len(log) = 1
      /\ log[1].patch = NoPatch
    BY <1>1 DEF Init, Revision
<1>4. TypeOK
    BY <1>1, <1>2, <1>3 DEF Init, TypeOK, Refresh
<1>5. LogInv
    BY <1>3 DEF LogInv, RevisionsAddOneEdit, PatchesAreUnique
<1>6. RoomInv
    BY DEF Init, RoomInv
<1>7. \A s \in Sessions : CallInv(call[s], log)
    BY DEF Init, CallInv, IdleCall, SubmitPhases, HoldingPhases
<1> QED
    BY <1>4, <1>5, <1>6, <1>7 DEF IndInv

-------------------------------------------------------------------------------
(* The goroutine of one session moves on, and revisions may be added. *)

Calls == call \in [Sessions -> Call]
         /\ \A s \in Sessions : CallInv(call[s], log)

LEMMA CallChanges ==
    ASSUME IndInv, NEW s \in Sessions, NEW c \in Call,
           call' = [call EXCEPT ![s] = c], CallInv(c, log'),
           log' \in Revisions, Extends(log, log')
    PROVE  Calls'
<1>1. log \in Revisions /\ call \in [Sessions -> Call]
    BY DEF IndInv, TypeOK, Revisions
<1>2. call' \in [Sessions -> Call]
    BY <1>1
<1>3. ASSUME NEW q \in Sessions PROVE CallInv(call'[q], log')
    <2>1. CASE q = s
        BY <2>1, <1>1
    <2>2. CASE q # s
        <3>1. call'[q] = call[q] /\ call[q] \in Call
            BY <2>2, <1>1
        <3>2. CallInv(call[q], log)
            BY DEF IndInv
        <3>3. CallInv(call[q], log')
            BY <3>1, <3>2, <1>1, CallKept
        <3> QED
            BY <3>1, <3>3
    <2> QED
        BY <2>1, <2>2
<1> QED
    BY <1>2, <1>3 DEF Calls

LEMMA SameLog ==
    ASSUME IndInv, UNCHANGED log
    PROVE  log' \in Revisions /\ Extends(log, log')
BY DEF IndInv, TypeOK, Revisions, Extends

(* SubmitPatch and Join go on to their next call. *)
LEMMA GoToKeeps ==
    ASSUME IndInv, NEW s \in Sessions,
           NEW phase \in SubmitPhases \cup JoinPhases, NEW seen \in RoomState,
           GoTo(s, phase, seen), UNCHANGED log,
           CallInv([call[s] EXCEPT !.phase = phase, !.seen = seen], log)
    PROVE  Calls'
<1> DEFINE c == [call[s] EXCEPT !.phase = phase, !.seen = seen]
<1>1. call[s] \in Call
    BY DEF IndInv, TypeOK
<1>2. c \in Call
    BY <1>1 DEF Call
<1>3. call' = [call EXCEPT ![s] = c]
    BY DEF GoTo
<1>4. CallInv(c, log')
    OBVIOUS
<1> HIDE DEF c
<1> QED
    BY <1>2, <1>3, <1>4, SameLog, CallChanges

(* SubmitPatch returns. *)
LEMMA FinishKeeps ==
    ASSUME IndInv, NEW s \in Sessions,
           NEW outcome \in {"accepted", "rebase", "rejected", "error"},
           Finish(s, outcome), log' \in Revisions, Extends(log, log'),
           outcome = "accepted" =>
               call[s].no \in 1..Len(log') /\ log'[call[s].no].patch = call[s].patch
    PROVE  Calls'
<1>1. PICK c : /\ call' = [call EXCEPT ![s] = c]
               /\ c = IF outcome = "accepted"
                      THEN [IdleCall EXCEPT !.outcome = outcome,
                                            !.patch = call[s].patch, !.no = call[s].no]
                      ELSE [IdleCall EXCEPT !.outcome = outcome]
    BY DEF Finish
<1>2. call[s] \in Call
    BY DEF IndInv, TypeOK
<1>3. c \in Call
    <2>1. IdleCall \in Call
        BY DEF IdleCall, Call, NoRoom, RoomState, Docs
    <2>2. CASE outcome = "accepted"
        BY <2>1, <2>2, <1>1, <1>2 DEF Call
    <2>3. CASE outcome # "accepted"
        BY <2>1, <2>3, <1>1 DEF Call
    <2> QED
        BY <2>2, <2>3
<1>4. CallInv(c, log')
    BY <1>1 DEF CallInv, SubmitPhases, HoldingPhases, IdleCall
<1> QED
    BY <1>1, <1>3, <1>4, CallChanges

-------------------------------------------------------------------------------
(* The steps *)

(* A revision is added that is the head with one edit, or is unsound; the   *)
(* edit is no patch or one that is not in the page yet.                     *)
LEMMA LogStep ==
    ASSUME IndInv, NEW p \in Patches \cup {NoPatch}, NEW d \in Docs,
           NEW sound \in BOOLEAN,
           log' = Append(log, [doc |-> d, patch |-> p, sound |-> sound]),
           sound => d = Append(PageHead.doc, p),
           p # NoPatch => Recorded(p) = {}
    PROVE  log' \in Revisions /\ Extends(log, log') /\ LogInv'
<1> DEFINE rev == [doc |-> d, patch |-> p, sound |-> sound]
<1>1. log \in Revisions /\ Len(log) \in Nat /\ Len(log) >= 1
    BY DEF IndInv, TypeOK, LogInv, Revisions
<1>2. rev \in Revision
    BY DEF Revision
<1>3. /\ log' \in Revisions
      /\ Extends(log, log')
      /\ Len(log') = Len(log) + 1
      /\ log'[Len(log) + 1] = rev
    BY <1>1, <1>2, AppendExtends
<1>4. /\ rev.patch = p /\ rev.sound = sound
      /\ rev.sound => rev.doc = Append(log[Len(log)].doc, p)
    BY DEF PageHead
<1> HIDE DEF rev
<1>5. ASSUME NEW i \in 2..Len(log'), log'[i].sound
      PROVE  log'[i].doc = Append(log'[i - 1].doc, log'[i].patch)
    <2>1. CASE i <= Len(log)
        <3>1. i \in 2..Len(log) /\ i \in 1..Len(log) /\ i - 1 \in 1..Len(log)
            BY <2>1, <1>1
        <3>2. log'[i] = log[i] /\ log'[i - 1] = log[i - 1]
            BY <3>1, <1>3 DEF Extends
        <3> QED
            BY <3>1, <3>2, <1>5 DEF IndInv, LogInv, RevisionsAddOneEdit
    <2>2. CASE i > Len(log)
        <3>1. i = Len(log) + 1 /\ i - 1 = Len(log) /\ Len(log) \in 1..Len(log)
            BY <2>2, <1>1, <1>3
        <3>2. log'[i - 1] = log[Len(log)]
            BY <3>1, <1>3 DEF Extends
        <3> QED
            BY <3>1, <3>2, <1>3, <1>4, <1>5
    <2> QED
        BY <2>1, <2>2, <1>1, <1>3
<1>6. ASSUME NEW i \in 1..Len(log'), NEW j \in 1..Len(log'),
             log'[i].patch # NoPatch, log'[i].patch = log'[j].patch
      PROVE  i = j
    <2>1. \A k \in 1..Len(log) : log'[k] = log[k] /\ (p # NoPatch => log[k].patch # p)
        BY <1>3 DEF Extends, Recorded
    <2>2. CASE i \in 1..Len(log) /\ j \in 1..Len(log)
        BY <2>1, <2>2, <1>6 DEF IndInv, LogInv, PatchesAreUnique
    <2>3. i \in 1..Len(log) \/ i = Len(log) + 1
        BY <1>1, <1>3
    <2>4. j \in 1..Len(log) \/ j = Len(log) + 1
        BY <1>1, <1>3
    <2> QED
        BY <2>1, <2>2, <2>3, <2>4, <1>3, <1>4, <1>6
<1>7. log'[1].patch = NoPatch
    BY <1>1, <1>3 DEF Extends, IndInv, LogInv
<1>8. RevisionsAddOneEdit' /\ PatchesAreUnique'
    BY <1>5, <1>6 DEF RevisionsAddOneEdit, PatchesAreUnique
<1> QED
    BY <1>1, <1>3, <1>7, <1>8 DEF LogInv

(* The room and the callbacks of page events, while revisions are added. *)
LEMMA RoomKeeps ==
    ASSUME IndInv, log' \in Revisions, Extends(log, log'),
           room' \in {room, NoRoom} \/ (room' \in RoomState /\ IsRevision(room', log')),
           UNCHANGED refresh
    PROVE  RoomInv' /\ room' \in RoomState
<1>1. log \in Revisions /\ room \in RoomState /\ NoRoom \in RoomState
    BY DEF IndInv, TypeOK, Revisions, NoRoom, RoomState, Docs
<1>2. room = NoRoom \/ IsRevision(room, log')
    BY <1>1, RevisionKept DEF IndInv, RoomInv
<1>3. \A f \in Refreshers : refresh[f].phase = "save" => IsRevision(refresh[f].seen, log')
    BY <1>1, RevisionKept DEF IndInv, RoomInv
<1> QED
    BY <1>1, <1>2, <1>3 DEF RoomInv

(* What a commit of the page service does: see CommitEffect. *)
LEMMA CommitKeeps ==
    ASSUME IndInv, NEW s \in Sessions, call[s].phase = "commit", CommitEffect(s)
    PROVE  log' \in Revisions /\ Extends(log, log') /\ LogInv'
<1> DEFINE c == call[s]
           d == ApplyPatch(c.seen.doc, c.patch)
<1>1. /\ c.patch \in Patches
      /\ IsRevision(c.seen, log) /\ c.seen.no = c.base
    BY DEF IndInv, CallInv, SubmitPhases, HoldingPhases
<1>2. CASE UNCHANGED log
    BY <1>2, SameLog DEF IndInv, LogInv, RevisionsAddOneEdit, PatchesAreUnique
<1>3. CASE /\ Recorded(c.patch) = {}
           /\ c.base = Len(log)
           /\ log' = Append(log, [doc |-> d, patch |-> c.patch,
                                   sound |-> c.seen.sound])
    <2>1. c.seen.doc \in Docs /\ c.seen.sound \in BOOLEAN
        BY DEF IndInv, TypeOK, Call, RoomState
    <2>2. d \in Docs
        BY <1>1, <2>1 DEF ApplyPatch, Docs
    <2>3. c.seen.sound => d = Append(PageHead.doc, c.patch)
        BY <1>1, <1>3 DEF IsRevision, PageHead, ApplyPatch
    <2> HIDE DEF c, d
    <2> QED
        BY <1>1, <1>3, <2>1, <2>2, <2>3, LogStep
<1> QED
    BY <1>2, <1>3 DEF CommitEffect

(* What is left to show of a step that keeps the calls, the log and the room. *)
Rest ==
    /\ lock \in Sessions \cup {NoSession}
    /\ members \in SUBSET Sessions
    /\ refresh \in [Refreshers -> Refresh]

LEMMA Assemble ==
    ASSUME Calls', log' \in Revisions, LogInv', RoomInv', room' \in RoomState, Rest'
    PROVE  IndInv'
BY DEF Calls, Rest, IndInv, TypeOK, Revisions

LEMMA LogInvKept ==
    ASSUME IndInv, UNCHANGED log
    PROVE  LogInv'
BY DEF IndInv, LogInv, RevisionsAddOneEdit, PatchesAreUnique

LEMMA CallsKept ==
    ASSUME IndInv, UNCHANGED call, log' \in Revisions, Extends(log, log')
    PROVE  Calls'
<1>1. log \in Revisions /\ call \in [Sessions -> Call]
    BY DEF IndInv, TypeOK, Revisions
<1>2. ASSUME NEW s \in Sessions PROVE CallInv(call[s], log')
    <2>1. call[s] \in Call /\ CallInv(call[s], log)
        BY <1>1 DEF IndInv
    <2> QED
        BY <2>1, <1>1, CallKept
<1> QED
    BY <1>1, <1>2 DEF Calls

(* A session submits a patch. *)
LEMMA SubmitKeeps ==
    ASSUME IndInv, NEW s \in Sessions, Submit(s)
    PROVE  Calls'
<1>1. Len(log) \in Nat /\ UNCHANGED log
    BY DEF IndInv, TypeOK, Submit
<1>2. PICK p \in Patches, b \in 1..Len(log) :
        call' = [call EXCEPT ![s] = [IdleCall EXCEPT !.phase = "lock",
                                                    !.patch = p, !.base = b]]
    BY DEF Submit
<1> DEFINE c == [IdleCall EXCEPT !.phase = "lock", !.patch = p, !.base = b]
<1>3. c \in Call
    <2>1. NoRoom \in RoomState /\ b \in Nat
        BY <1>1 DEF NoRoom, RoomState, Docs
    <2>2. IdleCall \in Call
        BY <2>1 DEF IdleCall, Call
    <2> QED
        BY <2>1, <2>2 DEF Call
<1>4. CallInv(c, log')
    BY <1>1 DEF IdleCall, CallInv, SubmitPhases, HoldingPhases
<1>5. call' = [call EXCEPT ![s] = c]
    BY <1>2
<1> HIDE DEF c
<1> QED
    BY <1>1, <1>3, <1>4, <1>5, SameLog, CallChanges

(* Every step keeps the invariant. *)
LEMMA RoomStep ==
    ASSUME IndInv, [Next]_vars
    PROVE  IndInv'
<1>t. /\ log \in Revisions /\ call \in [Sessions -> Call] /\ room \in RoomState
      /\ refresh \in [Refreshers -> Refresh] /\ Rest
      /\ \A s \in Sessions : call[s] \in Call /\ CallInv(call[s], log)
      /\ PageHead \in RoomState /\ IsRevision(PageHead, log)
      /\ NoRoom \in RoomState
    BY HeadIsRevision DEF IndInv, TypeOK, Revisions, Rest, NoRoom, RoomState, Docs
<1> USE <1>t DEF Rest
<1>1. CASE UNCHANGED vars
    <2>1. Calls' /\ LogInv' /\ RoomInv'
        BY <1>1, SameLog, CallsKept, LogInvKept, RoomKeeps DEF vars
    <2> QED
        BY <1>1, <2>1, SameLog, Assemble DEF vars
<1>2. CASE SaveOverREST
    <2>1. PICK d : /\ d = Append(PageHead.doc, NoPatch)
                   /\ log' = Append(log, [doc |-> d, patch |-> NoPatch, sound |-> TRUE])
        BY <1>2 DEF SaveOverREST
    <2>2. d \in Docs
        BY <2>1 DEF RoomState, Docs
    <2>3. log' \in Revisions /\ Extends(log, log') /\ LogInv'
        BY <2>1, <2>2, LogStep
    <2>4. Calls' /\ RoomInv' /\ room' \in RoomState
        BY <1>2, <2>3, CallsKept, RoomKeeps DEF SaveOverREST
    <2> QED
        BY <1>2, <2>3, <2>4, Assemble DEF SaveOverREST
<1>3. CASE ExpireRoom
    <2>1. Calls' /\ LogInv' /\ RoomInv' /\ room' \in RoomState
        BY <1>3, SameLog, CallsKept, LogInvKept, RoomKeeps DEF ExpireRoom
    <2> QED
        BY <1>3, <2>1, SameLog, Assemble DEF ExpireRoom
<1>4. ASSUME NEW s \in Sessions, Submit(s) PROVE IndInv'
    <2>1. Calls' /\ LogInv' /\ RoomInv' /\ room' \in RoomState
        BY <1>4, SameLog, SubmitKeeps, LogInvKept, RoomKeeps DEF Submit
    <2> QED
        BY <1>4, <2>1, SameLog, Assemble DEF Submit
<1>5. ASSUME NEW s \in Sessions, AcquireLock(s) PROVE IndInv'
    <2> DEFINE phase == "get"
               c == [call[s] EXCEPT !.phase = phase, !.seen = NoRoom]
    <2>1. GoTo(s, phase, NoRoom) /\ UNCHANGED <<log, room, refresh>>
        BY <1>5 DEF AcquireLock
    <2>2. phase \in SubmitPhases \cup JoinPhases /\ NoRoom \in RoomState
        BY <1>5 DEF AcquireLock, SubmitPhases, JoinPhases, Call
    <2>3. CallInv(c, log)
        BY <1>5 DEF AcquireLock, CallInv, SubmitPhases, HoldingPhases, Call
    <2>4. Calls'
        BY <2>1, <2>2, <2>3, GoToKeeps
    <2>5. LogInv' /\ RoomInv' /\ room' \in RoomState
        BY <2>1, SameLog, LogInvKept, RoomKeeps
    <2> QED
        BY <1>5, <2>1, <2>4, <2>5, SameLog, Assemble DEF AcquireLock
<1>6. ASSUME NEW s \in Sessions, GetRoom(s) PROVE IndInv'
    <2> DEFINE phase == IF room = NoRoom THEN "reload" ELSE "check"
               c == [call[s] EXCEPT !.phase = phase, !.seen = room]
    <2>1. GoTo(s, phase, room) /\ UNCHANGED <<log, room, refresh>>
        BY <1>6 DEF GetRoom
    <2>2. phase \in SubmitPhases \cup JoinPhases /\ room \in RoomState
        BY <1>6 DEF GetRoom, SubmitPhases, JoinPhases, Call
    <2>3. CallInv(c, log)
        BY <1>6 DEF GetRoom, CallInv, SubmitPhases, HoldingPhases, Call, RoomInv, IndInv
    <2>4. Calls'
        BY <2>1, <2>2, <2>3, GoToKeeps
    <2>5. LogInv' /\ RoomInv' /\ room' \in RoomState
        BY <2>1, SameLog, LogInvKept, RoomKeeps
    <2> QED
        BY <1>6, <2>1, <2>4, <2>5, SameLog, Assemble DEF GetRoom
<1>7. ASSUME NEW s \in Sessions, ReloadHead(s) PROVE IndInv'
    <2> DEFINE phase == "saveReload"
               c == [call[s] EXCEPT !.phase = phase, !.seen = PageHead]
    <2>1. GoTo(s, phase, PageHead) /\ UNCHANGED <<log, room, refresh>>
        BY <1>7 DEF ReloadHead
    <2>2. phase \in SubmitPhases \cup JoinPhases /\ PageHead \in RoomState
        BY <1>7 DEF ReloadHead, SubmitPhases, JoinPhases, Call
    <2>3. CallInv(c, log)
        BY <1>7 DEF ReloadHead, CallInv, SubmitPhases, HoldingPhases, Call
    <2>4. Calls'
        BY <2>1, <2>2, <2>3, GoToKeeps
    <2>5. LogInv' /\ RoomInv' /\ room' \in RoomState
        BY <2>1, SameLog, LogInvKept, RoomKeeps
    <2> QED
        BY <1>7, <2>1, <2>4, <2>5, SameLog, Assemble DEF ReloadHead
<1>8. ASSUME NEW s \in Sessions, AcceptPatch(s) PROVE IndInv'
    <2> DEFINE phase == "commit"
               c == [call[s] EXCEPT !.phase = phase, !.seen = call[s].seen]
    <2>1. GoTo(s, phase, call[s].seen) /\ UNCHANGED <<log, room, refresh>>
        BY <1>8 DEF AcceptPatch
    <2>2. phase \in SubmitPhases \cup JoinPhases /\ call[s].seen \in RoomState
        BY <1>8 DEF AcceptPatch, SubmitPhases, JoinPhases, Call
    <2>3. CallInv(c, log)
        BY <1>8 DEF AcceptPatch, CallInv, SubmitPhases, HoldingPhases, Call
    <2>4. Calls'
        BY <2>1, <2>2, <2>3, GoToKeeps
    <2>5. LogInv' /\ RoomInv' /\ room' \in RoomState
        BY <2>1, SameLog, LogInvKept, RoomKeeps
    <2> QED
        BY <1>8, <2>1, <2>4, <2>5, SameLog, Assemble DEF AcceptPatch
<1>9. ASSUME NEW s \in Sessions, CommitAborted(s) PROVE IndInv'
    <2> DEFINE phase == "head"
               c == [call[s] EXCEPT !.phase = phase, !.seen = call[s].seen]
    <2>1. GoTo(s, phase, call[s].seen) /\ UNCHANGED <<log, room, refresh>>
        BY <1>9 DEF CommitAborted
    <2>2. phase \in SubmitPhases \cup JoinPhases /\ call[s].seen \in RoomState
        BY <1>9 DEF CommitAborted, SubmitPhases, JoinPhases, Call
    <2>3. CallInv(c, log)
        BY <1>9 DEF CommitAborted, CallInv, SubmitPhases, HoldingPhases, Call
    <2>4. Calls'
        BY <2>1, <2>2, <2>3, GoToKeeps
    <2>5. LogInv' /\ RoomInv' /\ room' \in RoomState
        BY <2>1, SameLog, LogInvKept, RoomKeeps
    <2> QED
        BY <1>9, <2>1, <2>4, <2>5, SameLog, Assemble DEF CommitAborted
<1>10. ASSUME NEW s \in Sessions, ReadHead(s) PROVE IndInv'
    <2> DEFINE phase == "saveHead"
               c == [call[s] EXCEPT !.phase = phase, !.seen = PageHead]
    <2>1. GoTo(s, phase, PageHead) /\ UNCHANGED <<log, room, refresh>>
        BY <1>10 DEF ReadHead
    <2>2. phase \in SubmitPhases \cup JoinPhases /\ PageHead \in RoomState
        BY <1>10 DEF ReadHead, SubmitPhases, JoinPhases, Call
    <2>3. CallInv(c, log)
        BY <1>10 DEF ReadHead, CallInv, SubmitPhases, HoldingPhases, Call
    <2>4. Calls'
        BY <2>1, <2>2, <2>3, GoToKeeps
    <2>5. LogInv' /\ RoomInv' /\ room' \in RoomState
        BY <2>1, SameLog, LogInvKept, RoomKeeps
    <2> QED
        BY <1>10, <2>1, <2>4, <2>5, SameLog, Assemble DEF ReadHead
<1>11. ASSUME NEW s \in Sessions, JoinRefreshSnapshot(s) PROVE IndInv'
    <2> DEFINE phase == "joinSave"
               c == [call[s] EXCEPT !.phase = phase, !.seen = PageHead]
    <2>1. GoTo(s, phase, PageHead) /\ UNCHANGED <<log, room, refresh>>
        BY <1>11 DEF JoinRefreshSnapshot
    <2>2. phase \in SubmitPhases \cup JoinPhases /\ PageHead \in RoomState
        BY <1>11 DEF JoinRefreshSnapshot, SubmitPhases, JoinPhases, Call
    <2>3. CallInv(c, log)
        BY <1>11 DEF JoinRefreshSnapshot, CallInv, SubmitPhases, HoldingPhases, Call
    <2>4. Calls'
        BY <2>1, <2>2, <2>3, GoToKeeps
    <2>5. LogInv' /\ RoomInv' /\ room' \in RoomState
        BY <2>1, SameLog, LogInvKept, RoomKeeps
    <2> QED
        BY <1>11, <2>1, <2>4, <2>5, SameLog, Assemble DEF JoinRefreshSnapshot
<1>12. ASSUME NEW s \in Sessions, SaveReload(s) PROVE IndInv'
    <2> DEFINE c == [call[s] EXCEPT !.phase = "check", !.seen = call[s].seen]
    <2>1. /\ GoTo(s, "check", call[s].seen) /\ UNCHANGED <<log, refresh>>
          /\ room' = call[s].seen
        BY <1>12 DEF SaveReload
    <2>2. /\ "check" \in SubmitPhases \cup JoinPhases
          /\ call[s].seen \in RoomState /\ IsRevision(call[s].seen, log)
        BY <1>12 DEF SaveReload, SubmitPhases, JoinPhases, Call, CallInv, HoldingPhases
    <2>3. CallInv(c, log)
        BY <1>12 DEF SaveReload, CallInv, SubmitPhases, HoldingPhases, Call
    <2>4. Calls'
        BY <2>1, <2>2, <2>3, GoToKeeps
    <2>5. LogInv' /\ RoomInv' /\ room' \in RoomState
        BY <2>1, <2>2, SameLog, LogInvKept, RoomKeeps
    <2> QED
        BY <1>12, <2>1, <2>4, <2>5, SameLog, Assemble DEF SaveReload
<1>13. ASSUME NEW s \in Sessions, JoinSaveRoom(s) PROVE IndInv'
    <2> DEFINE c == [call[s] EXCEPT !.phase = "joinEnter", !.seen = call[s].seen]
    <2>1. /\ GoTo(s, "joinEnter", call[s].seen) /\ UNCHANGED <<log, refresh>>
          /\ room' = call[s].seen
        BY <1>13 DEF JoinSaveRoom
    <2>2. /\ "joinEnter" \in SubmitPhases \cup JoinPhases
          /\ call[s].seen \in RoomState /\ IsRevision(call[s].seen, log)
        BY <1>13 DEF JoinSaveRoom, SubmitPhases, JoinPhases, Call, CallInv, HoldingPhases
    <2>3. CallInv(c, log)
        BY <1>13 DEF JoinSaveRoom, CallInv, SubmitPhases, HoldingPhases, Call
    <2>4. Calls'
        BY <2>1, <2>2, <2>3, GoToKeeps
    <2>5. LogInv' /\ RoomInv' /\ room' \in RoomState
        BY <2>1, <2>2, SameLog, LogInvKept, RoomKeeps
    <2> QED
        BY <1>13, <2>1, <2>4, <2>5, SameLog, Assemble DEF JoinSaveRoom
<1>14. ASSUME NEW s \in Sessions, RejectPatch(s) PROVE IndInv'
    <2>1. Finish(s, "rejected") /\ UNCHANGED <<log, room, refresh>>
        BY <1>14 DEF RejectPatch
    <2>2. 0 \in Nat
        BY DEF Call, RoomState
    <2>3. Calls'
        BY <2>1, <2>2, SameLog, FinishKeeps
    <2>4. LogInv' /\ RoomInv' /\ room' \in RoomState
        BY <2>1, SameLog, LogInvKept, RoomKeeps
    <2> QED
        BY <1>14, <2>1, <2>3, <2>4, SameLog, Assemble DEF RejectPatch, Finish
<1>15. ASSUME NEW s \in Sessions, AskForRebase(s) PROVE IndInv'
    <2>1. Finish(s, "rebase") /\ UNCHANGED <<log, room, refresh>>
        BY <1>15 DEF AskForRebase
    <2>2. call[s].seen.no \in Nat
        BY DEF Call, RoomState
    <2>3. Calls'
        BY <2>1, <2>2, SameLog, FinishKeeps
    <2>4. LogInv' /\ RoomInv' /\ room' \in RoomState
        BY <2>1, SameLog, LogInvKept, RoomKeeps
    <2> QED
        BY <1>15, <2>1, <2>3, <2>4, SameLog, Assemble DEF AskForRebase, Finish
<1>16. ASSUME NEW s \in Sessions, FailPatch(s) PROVE IndInv'
    <2>1. Finish(s, "error") /\ UNCHANGED <<log, room, refresh>>
        BY <1>16 DEF FailPatch
    <2>2. 0 \in Nat
        BY DEF Call, RoomState
    <2>3. Calls'
        BY <2>1, <2>2, SameLog, FinishKeeps
    <2>4. LogInv' /\ RoomInv' /\ room' \in RoomState
        BY <2>1, SameLog, LogInvKept, RoomKeeps
    <2> QED
        BY <1>16, <2>1, <2>3, <2>4, SameLog, Assemble DEF FailPatch, Finish
<1>17. ASSUME NEW s \in Sessions, CommitAnswerLost(s) PROVE IndInv'
    <2>1. /\ Finish(s, "error") /\ UNCHANGED <<room, members, refresh>>
          /\ log' \in Revisions /\ Extends(log, log') /\ LogInv'
        BY <1>17, CommitKeeps DEF CommitAnswerLost
    <2>2. Calls' /\ RoomInv' /\ room' \in RoomState
        BY <2>1, FinishKeeps, RoomKeeps
    <2> QED
        BY <2>1, <2>2, Assemble DEF Finish
<1>18. ASSUME NEW s \in Sessions, CommitRevision(s) PROVE IndInv'
    <2>1. /\ UNCHANGED <<room, lock, members, refresh>>
          /\ call[s].phase = "commit"
          /\ log' \in Revisions /\ Extends(log, log') /\ LogInv'
        BY <1>18, CommitKeeps DEF CommitRevision
    <2>2. PICK i \in 1..Len(log') :
            /\ log'[i].patch = call[s].patch
            /\ call' = [call EXCEPT ![s].phase = "saveAccepted", ![s].no = i]
        BY <1>18 DEF CommitRevision
    <2> DEFINE c == [call[s] EXCEPT !.phase = "saveAccepted", !.no = i]
    <2>3. call' = [call EXCEPT ![s] = c]
        BY <2>2
    <2>4. Len(log') \in Nat
        BY <2>1 DEF Revisions
    <2>5. c \in Call
        <3>1. call[s] \in Call /\ i \in Nat
            BY <2>4
        <3> QED
            BY <3>1 DEF Call, SubmitPhases
    <2>6. CallInv(call[s], log')
        BY <2>1, CallKept
    <2>7. CallInv(c, log')
        BY <2>1, <2>2, <2>6 DEF CallInv, SubmitPhases, HoldingPhases, Call
    <2> HIDE DEF c
    <2>8. Calls'
        BY <2>1, <2>3, <2>5, <2>7, CallChanges
    <2>9. RoomInv' /\ room' \in RoomState
        BY <2>1, RoomKeeps
    <2> QED
        BY <2>1, <2>8, <2>9, Assemble
<1>19. ASSUME NEW s \in Sessions, SaveAccepted(s) PROVE IndInv'
    <2> DEFINE c == call[s]
               r == [no |-> c.no, doc |-> ApplyPatch(c.seen.doc, c.patch),
                     sound |-> SoundAnswer(c)]
    <2>1. /\ c.phase = "saveAccepted" /\ room' = r
          /\ Finish(s, "accepted") /\ UNCHANGED <<log, members, refresh>>
        BY <1>19 DEF SaveAccepted
    <2>2. /\ c.patch \in Patches
          /\ c.base \in 1..Len(log) /\ c.seen.no = c.base /\ IsRevision(c.seen, log)
          /\ c.no \in 1..Len(log) /\ log[c.no].patch = c.patch
        BY <2>1 DEF CallInv, SubmitPhases, HoldingPhases
    <2>3. ASSUME SoundAnswer(c) PROVE r.doc = log[c.no].doc
        <3>1. c.seen.sound /\ log[c.no].sound /\ c.no \in 2..Len(log) /\ c.no - 1 = c.base
            BY <2>2, <2>3 DEF SoundAnswer
        <3>2. log[c.no].doc = Append(log[c.no - 1].doc, log[c.no].patch)
            BY <3>1 DEF IndInv, LogInv, RevisionsAddOneEdit
        <3>3. c.seen.doc = log[c.base].doc
            BY <2>2, <3>1 DEF IsRevision
        <3> QED
            BY <2>2, <3>1, <3>2, <3>3 DEF ApplyPatch
    <2>4. IsRevision(r, log) /\ c.no \in Nat
        BY <2>2, <2>3 DEF IsRevision, Call
    <2>5. r \in RoomState
        <3>1. c.seen.doc \in Docs
            BY DEF Call, RoomState
        <3>2. SoundAnswer(c) \in BOOLEAN
            BY DEF SoundAnswer
        <3>3. ApplyPatch(c.seen.doc, c.patch) \in Docs
            BY <2>2, <3>1 DEF Docs, ApplyPatch
        <3> QED
            BY <2>4, <3>2, <3>3 DEF RoomState
    <2> HIDE DEF r
    <2>6. Calls'
        BY <2>1, <2>2, SameLog, FinishKeeps
    <2>7. LogInv' /\ RoomInv' /\ room' \in RoomState
        BY <2>1, <2>4, <2>5, SameLog, LogInvKept, RoomKeeps
    <2> QED
        BY <2>1, <2>6, <2>7, SameLog, Assemble DEF Finish
<1>20. ASSUME NEW s \in Sessions, SaveHead(s) PROVE IndInv'
    <2>1. /\ room' = call[s].seen /\ Finish(s, "rebase")
          /\ UNCHANGED <<log, members, refresh>>
        BY <1>20 DEF SaveHead
    <2>2. IsRevision(call[s].seen, log) /\ call[s].seen \in RoomState
        BY <1>20 DEF SaveHead, CallInv, HoldingPhases, Call
    <2>3. Calls'
        BY <2>1, <2>2, SameLog, FinishKeeps DEF RoomState
    <2>4. LogInv' /\ RoomInv' /\ room' \in RoomState
        BY <2>1, <2>2, SameLog, LogInvKept, RoomKeeps
    <2> QED
        BY <2>1, <2>3, <2>4, SameLog, Assemble DEF Finish
<1>21. ASSUME NEW s \in Sessions, JoinGetRoom(s) \/ JoinEnter(s) \/ JoinFail(s)
      PROVE  IndInv'
    <2>1. PICK c \in {IdleCall, [IdleCall EXCEPT !.phase = "joinHead"],
                      [IdleCall EXCEPT !.phase = "joinEnter", !.seen = room]} :
            /\ call' = [call EXCEPT ![s] = c]
            /\ c = [IdleCall EXCEPT !.phase = "joinEnter", !.seen = room] => room # NoRoom
        BY <1>21 DEF JoinGetRoom, JoinEnter, JoinFail, IdleCall
    <2>2. UNCHANGED <<log, room, lock, refresh>> /\ members' \in SUBSET Sessions
        BY <1>21 DEF JoinGetRoom, JoinEnter, JoinFail
    <2>3. IdleCall \in Call
        BY DEF IdleCall, Call
    <2>4. c \in Call
        BY <2>1, <2>3 DEF Call, JoinPhases
    <2>5. CallInv(c, log)
        <3>1. /\ c.phase \in {"idle", "joinHead", "joinEnter"} /\ c.outcome = "none"
              /\ c.phase = "joinEnter" => c.seen = room /\ room # NoRoom
            <4>1. CASE c = IdleCall
                BY <4>1 DEF IdleCall
            <4>2. CASE c = [IdleCall EXCEPT !.phase = "joinHead"]
                BY <4>2 DEF IdleCall
            <4>3. CASE c = [IdleCall EXCEPT !.phase = "joinEnter", !.seen = room]
                BY <2>1, <4>3 DEF IdleCall
            <4> QED
                BY <4>1, <4>2, <4>3
        <3>2. room # NoRoom => IsRevision(room, log)
            BY DEF IndInv, RoomInv
        <3> QED
            BY <3>1, <3>2 DEF CallInv, SubmitPhases, HoldingPhases
    <2>6. Calls'
        BY <2>1, <2>2, <2>4, <2>5, SameLog, CallChanges
    <2>7. LogInv' /\ RoomInv' /\ room' \in RoomState
        BY <2>2, SameLog, LogInvKept, RoomKeeps
    <2> QED
        BY <2>2, <2>6, <2>7, SameLog, Assemble
<1>22. ASSUME NEW s \in Sessions, DropMember(s) PROVE IndInv'
    <2>1. Calls' /\ LogInv' /\ RoomInv' /\ room' \in RoomState
        BY <1>22, SameLog, CallsKept, LogInvKept, RoomKeeps DEF DropMember
    <2> QED
        BY <1>22, <2>1, SameLog, Assemble DEF DropMember
<1>23. ASSUME NEW f \in Refreshers, RefreshStep(f) PROVE IndInv'
    <2>1. UNCHANGED <<log, lock, members, call>>
        BY <1>23 DEF RefreshStep, RefreshGetRoom, RefreshReadHead, RefreshSaveRoom, RefreshFail
    <2>2. Calls' /\ LogInv'
        BY <2>1, SameLog, CallsKept, LogInvKept
    <2>3. PICK x \in {[phase |-> "idle", seen |-> NoRoom], [phase |-> "head", seen |-> NoRoom],
                      [phase |-> "save", seen |-> PageHead]} :
            refresh' = [refresh EXCEPT ![f] = x]
        BY <1>23 DEF RefreshStep, RefreshGetRoom, RefreshReadHead, RefreshSaveRoom, RefreshFail
    <2>4. x \in Refresh /\ (x.phase = "save" => IsRevision(x.seen, log))
        BY <2>3 DEF Refresh
    <2>5. \/ room' = room
          \/ refresh[f].phase = "save" /\ room' = refresh[f].seen
        BY <1>23 DEF RefreshStep, RefreshGetRoom, RefreshReadHead, RefreshSaveRoom, RefreshFail
    <2>6. refresh' \in [Refreshers -> Refresh]
        BY <2>3, <2>4
    <2>7. RoomInv'
        BY <2>1, <2>3, <2>4, <2>5 DEF RoomInv, IndInv
    <2>8. room' \in RoomState
        BY <2>5 DEF Refresh
    <2> QED
        BY <2>1, <2>2, <2>6, <2>7, <2>8, SameLog, Assemble
<1> QED
    BY <1>1, <1>2, <1>3, <1>4, <1>5, <1>6, <1>7, <1>8, <1>9, <1>10, <1>11,
       <1>12, <1>13, <1>14, <1>15, <1>16, <1>17, <1>18, <1>19, <1>20, <1>21,
       <1>22, <1>23
       DEF Next, SubmitStep, JoinStep

-------------------------------------------------------------------------------
(* Results *)

(* IndInv holds in every state of a room. *)
THEOREM RoomInvariance == Spec => []IndInv
<1>1. IndInv /\ [Next]_vars => IndInv'
    BY RoomStep
<1> QED
    BY <1>1, RoomInit, PTL DEF Spec

(* The variables of a room have the shape the code gives them. *)
THEOREM RoomTypeCorrect == Spec => []TypeOK
<1>1. IndInv => TypeOK
    BY DEF IndInv
<1> QED
    BY <1>1, RoomInvariance, PTL

(* Whoever saves the room, with the lock (SubmitPatch) or without it (Join, *)
(* RefreshExistingRoom), saves a revision of the page, unless SubmitPatch   *)
(* was answered with the number of a patch recorded on another base.        *)
THEOREM RoomShowsARevision == Spec => []RoomIsARevision
<1>1. IndInv => RoomIsARevision
    BY DEF IndInv, RoomInv, IsRevision, RoomIsARevision
<1> QED
    BY <1>1, RoomInvariance, PTL

(* A patch that SubmitPatch commits is applied to the revision before its   *)
(* own, however old the room is that it was checked against, unless that    *)
(* room was left unsound by a patch id recorded on another base.            *)
THEOREM NoPatchLost == Spec => []RevisionsAddOneEdit
<1>1. IndInv => RevisionsAddOneEdit
    BY DEF IndInv, LogInv
<1> QED
    BY <1>1, RoomInvariance, PTL

(* A patch id is in the page at most once, however often and on whatever    *)
(* base it is sent, and an accepted patch is in the revision that           *)
(* SubmitPatch answers with.                                                *)
THEOREM PatchesAreAcceptedOnce == Spec => []AcceptedOnce
<1>1. IndInv => AcceptedOnce
    BY DEF IndInv, LogInv, PatchesAreUnique, CallInv, AcceptedOnce
<1> QED
    BY <1>1, RoomInvariance, PTL

===============================================================================
