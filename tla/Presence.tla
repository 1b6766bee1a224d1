------------------------------- MODULE Presence -------------------------------
(***************************************************************************)
(* The presence store of one room in Redis: an entry per session, with a   *)
(* TTL, and an index of the sessions of the room.                          *)
(*                                                                         *)
(* An entry and its place in the index are written together and removed    *)
(* together, but an entry also expires on its own, and leaves its place    *)
(* behind.  A listing reads the index, then one entry after another, and   *)
(* removes the places whose entry it did not find.  A heartbeat reads its  *)
(* entry and writes it back.  Neither of them is atomic, and a session     *)
(* that is not listed has its patches rejected with session_not_found.     *)
(*                                                                         *)
(* Every session has a connection of its own, whose goroutine makes one    *)
(* call at a time.  Session ids are never used twice.                      *)
(***************************************************************************)
EXTENDS Naturals, FiniteSets

CONSTANTS Sessions

VARIABLES stored,   \* sessions with an entry, collab:presence:<room>:<session>
          index,    \* the set collab:presence:index:<room>
          call,     \* what the goroutine of a session is doing
          revived,  \* sessions whose entry expired under a heartbeat (history)
          there     \* sessions with entry and place since the listing began

presenceVars == <<stored, index, call, revived, there>>

-------------------------------------------------------------------------------
(* why: the listing of a join, or the one that checks the author of a       *)
(* patch.  left: sessions whose entry is still to be read.  stale: the one  *)
(* whose entry was not found.                                               *)
Call == [step : {"new", "idle", "touch", "smembers", "get", "srem", "gone"},
         why : {"none", "join", "patch"},
         left : SUBSET Sessions, stale : SUBSET Sessions,
         found : SUBSET Sessions,
         answer : {"none", "members", "accepted", "session_not_found"}]

NewCall == [step |-> "new", why |-> "none", left |-> {}, stale |-> {},
            found |-> {}, answer |-> "none"]

IdleCall == [NewCall EXCEPT !.step = "idle"]

(* Something happens to the sessions in S: whoever lists can not rely on    *)
(* finding them.                                                            *)
Disturb(S) == there' = [s \in Sessions |-> there[s] \ S]

PresenceInit ==
    /\ stored = {} /\ index = {} /\ revived = {}
    /\ call = [s \in Sessions |-> NewCall]
    /\ there = [s \in Sessions |-> {}]

(* Upsert: SET and SADD in one transaction. *)
Upsert(s) ==
    /\ stored' = stored \cup {s}
    /\ index' = index \cup {s}

(* Join has made a session id and enters it; then it lists. *)
JoinUpsert(s) ==
    /\ call[s].step = "new"
    /\ Upsert(s)
    /\ call' = [call EXCEPT ![s].step = "smembers", ![s].why = "join"]
    /\ UNCHANGED <<revived, there>>

(* Touch finds the entry ... *)
TouchGet(s) ==
    /\ call[s].step = "idle"
    /\ s \in stored
    /\ call' = [call EXCEPT ![s] = [IdleCall EXCEPT !.step = "touch"]]
    /\ UNCHANGED <<stored, index, revived, there>>

(* Mutant of TouchSet: the entry is written, the index is left alone. *)
TouchSetEntry(s) ==
    /\ call[s].step = "touch"
    /\ stored' = stored \cup {s}
    /\ revived' = revived \cup ({s} \ stored)
    /\ call' = [call EXCEPT ![s] = IdleCall]
    /\ UNCHANGED <<index, there>>

(* ... and writes it back, whether or not it has expired meanwhile. *)
TouchSet(s) ==
    /\ call[s].step = "touch"
    /\ Upsert(s)
    /\ revived' = revived \cup ({s} \ stored)
    /\ call' = [call EXCEPT ![s] = IdleCall]
    /\ UNCHANGED there

(* SubmitPatch looks for its session among the members of the room. *)
SubmitPatchList(s) ==
    /\ call[s].step = "idle"
    /\ call' = [call EXCEPT ![s] = [IdleCall EXCEPT !.step = "smembers",
                                                !.why = "patch"]]
    /\ UNCHANGED <<stored, index, revived, there>>

-------------------------------------------------------------------------------
(* List *)

ListIndex(s) ==
    /\ call[s].step = "smembers"
    /\ call' = [call EXCEPT ![s].step = "get", ![s].left = index]
    /\ there' = [there EXCEPT ![s] = stored \cap index]
    /\ UNCHANGED <<stored, index, revived>>

(* Mutant of GetMember: a listing ends at the first entry it does not find. *)
GetMemberOrStop(s) ==
    /\ call[s].step = "get"
    /\ \E m \in call[s].left :
         call' = [call EXCEPT ![s] =
             IF m \in stored
             THEN [@ EXCEPT !.left = @ \ {m}, !.found = @ \cup {m}]
             ELSE [@ EXCEPT !.left = {}, !.stale = {m}, !.step = "srem"]]
    /\ UNCHANGED <<stored, index, revived, there>>

(* The call after the entry of m was asked for. *)
Looked(c, m) ==
    IF m \in stored
    THEN [c EXCEPT !.left = @ \ {m}, !.found = @ \cup {m}]
    ELSE [c EXCEPT !.left = @ \ {m}, !.stale = {m}, !.step = "srem"]

GetMember(s) ==
    /\ call[s].step = "get"
    /\ \E m \in call[s].left : call' = [call EXCEPT ![s] = Looked(call[s], m)]
    /\ UNCHANGED <<stored, index, revived, there>>

(* Mutant of RemoveStale: the index is emptied and filled by heartbeats. *)
RemoveAll(s) ==
    /\ call[s].step = "srem"
    /\ index' = {}
    /\ call' = [call EXCEPT ![s].step = "get", ![s].stale = {}]
    /\ UNCHANGED <<stored, revived, there>>

(* The place of an entry that was not found is removed, although the entry  *)
(* may have come back; an error is dropped.                                 *)
RemoveStale(s) ==
    /\ call[s].step = "srem"
    /\ index' \in {index, index \ call[s].stale}
    /\ call' = [call EXCEPT ![s].step = "get", ![s].stale = {}]
    /\ UNCHANGED <<stored, revived, there>>

(* The list is complete: it is sent to the client that joined, and decides  *)
(* on the patch of the one that submitted.                                  *)
AnswerList(s) ==
    /\ call[s].step = "get"
    /\ call[s].left = {}
    /\ call' = [call EXCEPT ![s].step = "idle",
                   ![s].answer = IF call[s].why = "join" THEN "members"
                                 ELSE IF s \in call[s].found THEN "accepted"
                                 ELSE "session_not_found"]
    /\ UNCHANGED <<stored, index, revived, there>>

Gone == [NewCall EXCEPT !.step = "gone"]

(* A call to Redis fails, and with it the request.  The client of a join    *)
(* that fails is not told its session, whose entry stays until it expires.  *)
Fail(s) ==
    /\ call[s].step \in {"touch", "smembers", "get"}
    /\ call' = [call EXCEPT ![s] =
                   IF call[s].why = "join" THEN Gone ELSE IdleCall]
    /\ UNCHANGED <<stored, index, revived, there>>

-------------------------------------------------------------------------------
(* leave_session or the end of the connection; an error is dropped, and     *)
(* then the entry stays until it expires.                                   *)
Leave(s) ==
    /\ call[s].step = "idle"
    /\ \/ stored' = stored \ {s} /\ index' = index \ {s} /\ Disturb({s})
       \/ UNCHANGED <<stored, index, there>>
    /\ call' = [call EXCEPT ![s] = Gone]
    /\ UNCHANGED revived

(* The TTL of an entry ends. *)
ExpireEntry(s) ==
    /\ s \in stored
    /\ stored' = stored \ {s}
    /\ Disturb({s})
    /\ UNCHANGED <<index, call, revived>>

PresenceNext ==
    \E s \in Sessions :
        \/ JoinUpsert(s) \/ TouchGet(s) \/ TouchSet(s) \/ SubmitPatchList(s)
        \/ ListIndex(s) \/ GetMember(s) \/ RemoveStale(s) \/ AnswerList(s)
        \/ Fail(s) \/ Leave(s) \/ ExpireEntry(s)

PresenceSpec == PresenceInit /\ [][PresenceNext]_presenceVars

(* An entry is written again or expires: its TTL guarantees that much, and  *)
(* nothing is assumed of clients.                                           *)
FairPresenceSpec ==
    /\ PresenceSpec
    /\ \A s \in Sessions : WF_presenceVars(TouchSet(s) \/ ExpireEntry(s))

-------------------------------------------------------------------------------
(* Properties *)

(* Every variable has its shape. *)
PresenceTypeOK ==
    /\ stored \subseteq Sessions
    /\ index \subseteq Sessions
    /\ call \in [Sessions -> Call]
    /\ revived \subseteq Sessions
    /\ there \in [Sessions -> SUBSET Sessions]

(* A session that is present but has no place in the index, and so would be *)
(* refused, is one whose entry expired between the read and the write of a  *)
(* heartbeat: no order of joins, heartbeats, departures and listings alone  *)
(* takes a present session off the list.                                    *)
UnlistedWasRevived == stored \ index \subseteq revived

(* A listing shows every session that was present and in the index all the  *)
(* time it took, however the index was cleaned meanwhile: a member is never *)
(* told session_not_found for its own patch while it was there throughout.  *)
PresentAreListed ==
    \A s \in Sessions :
        call[s].answer # "none" =>
            /\ there[s] \subseteq call[s].found
            /\ call[s].answer = "session_not_found" => s \notin there[s]

(* A session that was taken off the list does not stay present without it:  *)
(* its next heartbeat lists it again, or its entry expires.                 *)
UnlistedIsTemporary ==
    \A s \in Sessions : (s \in stored \ index) ~> (s \in index \/ s \notin stored)

===============================================================================
