------------------------------ MODULE CollabHub ------------------------------
(***************************************************************************)
(* The websocket hub of the collaboration service: which connections       *)
(* follow which room, what is broadcast to them, and their presence.       *)
(*                                                                         *)
(* Every connection has one goroutine, which reads an envelope, handles it *)
(* to the end and reads the next one.  A broadcast copies the clients of a *)
(* room under the lock and then writes to them one by one without it, and  *)
(* stops at the first write that fails.  Meanwhile other goroutines add,   *)
(* remove and close connections.  Writes have no deadline: one to a peer   *)
(* that stays connected and does not read blocks until the peer is gone.   *)
(*                                                                         *)
(* SubmitPatch is one step here (CollabRoom has its details); refused      *)
(* envelopes change nothing and are left out.  So is the listing of the    *)
(* members of a room: it reads, and cleans an index nothing else reads.    *)
(* A client is taken to name in its patches the page it joined last, which *)
(* is the page the handler broadcasts to.                                  *)
(***************************************************************************)
EXTENDS Naturals

CONSTANTS Conns,       \* websocket connections
          Rooms,       \* room keys: workspace and page
          NoRoom,
          MaxSessions, \* bound: joins, each of which makes a session
          MaxPatches   \* bound: accepted patches of a room

ASSUME ConstantsAssumption ==
    /\ NoRoom \notin Rooms
    /\ MaxSessions \in Nat
    /\ MaxPatches \in Nat

VARIABLES conn,      \* state of the connection; a stuck one is connected and
                     \* its peer does not read
          client,    \* clientConn: the room and the session it joined last
          hub,       \* Handler.clients
          entry,     \* sessions with a presence entry
          sessions,  \* sessions made so far
          accepted,  \* patches accepted in a room: 1 .. accepted[r]
          act,       \* what the goroutine of a connection is doing
          missing,   \* patches of a room that c is a client of which are
                     \* neither in the document c joined with nor sent to c
          late,      \* those whose broadcast had copied the clients of the
                     \* room before c was added to them
          owed,      \* the patch whose author waits for an answer, 0 if none
          cut        \* patches whose broadcast ended at a failed write

vars == <<conn, client, hub, entry, sessions, accepted, act, missing, late,
          owed, cut>>
history == <<missing, late, owed, cut>>

-------------------------------------------------------------------------------
Client == [room : Rooms \cup {NoRoom}, session : Nat]

(* seen: the patches in the document a join has read; msg: the patch that   *)
(* is broadcast, 0 for a change of presence.                                *)
Act == [step : {"idle", "enter", "add", "reply", "touch", "left", "copy",
                "send", "error", "closing"},
        room : Rooms \cup {NoRoom}, session : Nat, seen : Nat, msg : Nat,
        skipSelf : BOOLEAN, list : SUBSET Conns]

Idle == [step |-> "idle", room |-> NoRoom, session |-> 0, seen |-> 0,
         msg |-> 0, skipSelf |-> FALSE, list |-> {}]

Do(c, step) == act' = [act EXCEPT ![c] = [Idle EXCEPT !.step = step]]

Return(c) == act' = [act EXCEPT ![c] = Idle]

(* broadcast(client.roomID, msg, skip) is called. *)
Broadcast(c, r, msg, skipSelf) ==
    act' = [act EXCEPT ![c] = [Idle EXCEPT !.step = "copy", !.room = r,
                                           !.msg = msg, !.skipSelf = skipSelf]]

(* Goroutine d is going to send patch n of room r to c: it has not copied   *)
(* the clients of the room, or c is left of its copy.                       *)
OnItsWay(d, r, n, c) ==
    /\ act[d].room = r
    /\ act[d].msg = n
    /\ act[d].step = "copy" \/ (act[d].step = "send" /\ c \in act[d].list)

(* Whoever is a client of the room now is to be sent patch n. *)
Accepted(r, n) ==
    [c \in Conns |->
       IF c \in hub[r] THEN missing[c] \cup {<<r, n>>} ELSE missing[c]]

(* What c was to be sent, but for the patches of room r. *)
Settled(c, r) == [missing EXCEPT ![c] = @ \ ({r} \X Nat)]

Reading(c) == act[c].step = "idle" /\ conn[c] # "closed"

Joined(c) == client[c].room # NoRoom

-------------------------------------------------------------------------------
Init ==
    /\ conn = [c \in Conns |-> "open"]
    /\ client = [c \in Conns |-> [room |-> NoRoom, session |-> 0]]
    /\ hub = [r \in Rooms |-> {}]
    /\ entry = {}
    /\ sessions = 0
    /\ accepted = [r \in Rooms |-> 0]
    /\ act = [c \in Conns |-> Idle]
    /\ missing = [c \in Conns |-> {}]
    /\ late = [c \in Conns |-> {}]
    /\ owed = [c \in Conns |-> 0]
    /\ cut = {}

(* handleJoin: authorised, Join reads the room, which need not show the     *)
(* patches accepted last.                                                   *)
Join(c, r) ==
    /\ Reading(c)
    /\ \E n \in 0..accepted[r] :
         act' = [act EXCEPT ![c] = [Idle EXCEPT !.step = "enter", !.room = r,
                                                !.seen = n]]
    /\ UNCHANGED <<conn, client, hub, entry, sessions, accepted, history>>

(* A new session gets its presence entry. *)
Enter(c) ==
    /\ act[c].step = "enter"
    /\ sessions < MaxSessions
    /\ sessions' = sessions + 1
    /\ entry' = entry \cup {sessions + 1}
    /\ act' = [act EXCEPT ![c] = [@ EXCEPT !.step = "add",
                                           !.session = sessions + 1]]
    /\ UNCHANGED <<conn, client, hub, accepted, history>>

(* The client is told to rebase, or a store fails: List leaves the entry    *)
(* behind until it expires.                                                 *)
JoinFails(c) ==
    /\ act[c].step \in {"enter", "add"}
    /\ Do(c, "error")
    /\ UNCHANGED <<conn, client, hub, entry, sessions, accepted, history>>

(* From now on the client is sent what is broadcast to the room; what came  *)
(* after the document it has read and is not to be sent to it comes late.   *)
AddClient(c) ==
    /\ act[c].step = "add"
    /\ LET r == act[c].room
           new == {<<r, n>> : n \in (act[c].seen + 1)..accepted[r]}
       IN /\ client' = [client EXCEPT ![c] =
                          [room |-> r, session |-> act[c].session]]
          /\ hub' = [hub EXCEPT ![r] = @ \cup {c}]
          /\ missing' = [missing EXCEPT ![c] = (@ \ ({r} \X Nat)) \cup new]
          /\ late' = [late EXCEPT ![c] = (@ \ ({r} \X Nat)) \cup
                {m \in new : \A d \in Conns : ~OnItsWay(d, r, m[2], c)}]
          /\ Do(c, "reply")
    /\ UNCHANGED <<conn, entry, sessions, accepted, owed, cut>>

(* session_joined and presence_state, or a pong, go to the client, then the *)
(* others hear of it.                                                       *)
WriteReply(c) ==
    /\ act[c].step = "reply"
    /\ conn[c] # "stuck"
    /\ IF conn[c] = "open" THEN Broadcast(c, client[c].room, 0, TRUE)
       ELSE Do(c, "error")
    /\ UNCHANGED <<conn, client, hub, entry, sessions, accepted, history>>

(* A heartbeat or a change of the cursor finds its presence entry ... *)
TouchRead(c) ==
    /\ Reading(c)
    /\ Joined(c)
    /\ client[c].session \in entry
    /\ Do(c, "touch")
    /\ UNCHANGED <<conn, client, hub, entry, sessions, accepted, history>>

(* ... and writes it back.  A heartbeat is answered with a pong.            *)
TouchWrite(c) ==
    /\ act[c].step = "touch"
    /\ entry' = entry \cup {client[c].session}
    /\ \/ Do(c, "reply")
       \/ Broadcast(c, client[c].room, 0, FALSE)
    /\ UNCHANGED <<conn, client, hub, sessions, accepted, history>>

(* handlePatch: the patch is accepted and the room lock released. *)
SubmitPatch(c) ==
    /\ Reading(c)
    /\ Joined(c)
    /\ client[c].session \in entry
    /\ LET r == client[c].room
           n == accepted[r] + 1
       IN /\ n <= MaxPatches
          /\ accepted' = [accepted EXCEPT ![r] = n]
          /\ missing' = Accepted(r, n)
          /\ owed' = [owed EXCEPT ![c] = n]
          /\ Broadcast(c, r, n, FALSE)
    /\ UNCHANGED <<conn, client, hub, entry, sessions, late, cut>>

-------------------------------------------------------------------------------
(* broadcast *)

(* The loop over the clients that are left, or the end of it. *)
Rest(c, list) ==
    IF list = {} THEN Return(c)
    ELSE act' = [act EXCEPT ![c] = [@ EXCEPT !.step = "send", !.list = list]]

(* Mutant of CopyClients: only clients with a presence entry are written to. *)
CopyPresentClients(c) ==
    /\ act[c].step = "copy"
    /\ LET skip == IF act[c].skipSelf THEN {c} ELSE {} IN
         Rest(c, {d \in hub[act[c].room] : client[d].session \in entry} \ skip)
    /\ UNCHANGED <<conn, client, hub, entry, sessions, accepted, history>>

CopyClients(c) ==
    /\ act[c].step = "copy"
    /\ LET skip == IF act[c].skipSelf THEN {c} ELSE {} IN
         Rest(c, hub[act[c].room] \ skip)
    /\ UNCHANGED <<conn, client, hub, entry, sessions, accepted, history>>

(* The next write, in the order of a map: any.  Author and recipients are  *)
(* told the same, so a patch that reaches its author is its answer.        *)
Send(c) ==
    /\ act[c].step = "send"
    /\ \E d \in act[c].list :
         /\ conn[d] = "open"
         /\ Rest(c, act[c].list \ {d})
         /\ missing' = [missing EXCEPT ![d] = @ \ {<<act[c].room, act[c].msg>>}]
         /\ owed' = IF d = c THEN [owed EXCEPT ![c] = 0] ELSE owed
    /\ UNCHANGED <<conn, client, hub, entry, sessions, accepted, late, cut>>

(* Mutant of SendFails: the error of the broadcast is dropped. *)
SendFailsSilently(c) ==
    /\ act[c].step = "send"
    /\ \E d \in act[c].list : conn[d] \in {"broken", "closed"}
    /\ cut' = cut \cup ({<<act[c].room, act[c].msg>>} \ (Rooms \X {0}))
    /\ Return(c)
    /\ UNCHANGED <<conn, client, hub, entry, sessions, accepted, missing, late,
                   owed>>

(* A write fails: the loop ends. *)
SendFails(c) ==
    /\ act[c].step = "send"
    /\ \E d \in act[c].list : conn[d] \in {"broken", "closed"}
    /\ cut' = cut \cup ({<<act[c].room, act[c].msg>>} \ (Rooms \X {0}))
    /\ Do(c, "error")
    /\ UNCHANGED <<conn, client, hub, entry, sessions, accepted, missing, late,
                   owed>>

(* ServeHTTP writes the error of dispatch, or the rebase answer to a join,  *)
(* to the client the envelope came from.                                    *)
WriteError(c) ==
    /\ act[c].step = "error"
    /\ conn[c] # "stuck"
    /\ owed' = [owed EXCEPT ![c] = 0]
    /\ Return(c)
    /\ UNCHANGED <<conn, client, hub, entry, sessions, accepted, missing, late,
                   cut>>

-------------------------------------------------------------------------------
(* Leaving *)

LeaveRemove(c) ==
    /\ Reading(c)
    /\ Joined(c)
    /\ entry' = entry \ {client[c].session}
    /\ Do(c, "left")
    /\ UNCHANGED <<conn, client, hub, sessions, accepted, history>>

(* removeClient; the connection keeps its room and session. *)
RemoveClient(c) ==
    /\ act[c].step = "left"
    /\ hub' = [hub EXCEPT ![client[c].room] = @ \ {c}]
    /\ missing' = Settled(c, client[c].room)
    /\ Broadcast(c, client[c].room, 0, FALSE)
    /\ UNCHANGED <<conn, client, entry, sessions, accepted, late, owed, cut>>

(* The peer stays connected and reads no more: once the buffers are full    *)
(* writes to it neither succeed nor fail.                                   *)
Stall(c) ==
    /\ conn[c] = "open"
    /\ conn' = [conn EXCEPT ![c] = "stuck"]
    /\ UNCHANGED <<client, hub, entry, sessions, accepted, act, history>>

(* The peer goes away or the network fails; from now on writes fail. *)
Break(c) ==
    /\ conn[c] \in {"open", "stuck"}
    /\ conn' = [conn EXCEPT ![c] = "broken"]
    /\ UNCHANGED <<client, hub, entry, sessions, accepted, act, history>>

(* ReadJSON fails and the deferred function runs; an error of Leave is      *)
(* dropped.                                                                 *)
Disconnect(c) ==
    /\ Reading(c)
    /\ conn[c] = "broken"
    /\ entry' \in {entry, entry \ {client[c].session}}
    /\ Do(c, "closing")
    /\ UNCHANGED <<conn, client, hub, sessions, accepted, history>>

(* Mutant of Close: the client is removed only while it has an entry. *)
CloseWithEntry(c) ==
    /\ act[c].step = "closing"
    /\ hub' = IF client[c].session \in entry
              THEN [hub EXCEPT ![client[c].room] = @ \ {c}] ELSE hub
    /\ conn' = [conn EXCEPT ![c] = "closed"]
    /\ Return(c)
    /\ UNCHANGED <<client, entry, sessions, accepted, history>>

Close(c) ==
    /\ act[c].step = "closing"
    /\ hub' = IF Joined(c) THEN [hub EXCEPT ![client[c].room] = @ \ {c}] ELSE hub
    /\ conn' = [conn EXCEPT ![c] = "closed"]
    /\ missing' = Settled(c, client[c].room)
    /\ Return(c)
    /\ UNCHANGED <<client, entry, sessions, accepted, late, owed, cut>>

(* The TTL of a presence entry passes without a heartbeat. *)
Expire ==
    /\ \E s \in entry : entry' = entry \ {s}
    /\ UNCHANGED <<conn, client, hub, sessions, accepted, act, history>>

-------------------------------------------------------------------------------
(* The goroutine of a connection goes on with the envelope it has read. *)
Continue(c) ==
    \/ Enter(c) \/ JoinFails(c) \/ AddClient(c) \/ WriteReply(c)
    \/ TouchWrite(c) \/ RemoveClient(c) \/ Close(c)
    \/ CopyClients(c) \/ Send(c) \/ SendFails(c) \/ WriteError(c)

Read(c) ==
    \/ \E r \in Rooms : Join(c, r)
    \/ TouchRead(c) \/ SubmitPatch(c) \/ LeaveRemove(c) \/ Disconnect(c)

Next ==
    \/ \E c \in Conns : Read(c) \/ Continue(c) \/ Stall(c) \/ Break(c)
    \/ Expire

Spec == Init /\ [][Next]_vars

(* A peer that does not read blocks goroutine c: it is the one to be        *)
(* written to next, or may be.                                              *)
Blocked(c) == \E d \in act[c].list : conn[d] = "stuck"

(* Calls to Redis return, and so do writes to connections that are not      *)
(* stuck.                                                                   *)
FairSpec == Spec /\ \A c \in Conns : WF_vars(Continue(c) /\ ~Blocked(c))

-------------------------------------------------------------------------------
(* Properties *)

(* Every variable has its shape. *)
TypeOK ==
    /\ conn \in [Conns -> {"open", "stuck", "broken", "closed"}]
    /\ client \in [Conns -> Client]
    /\ hub \in [Rooms -> SUBSET Conns]
    /\ entry \subseteq 1..sessions
    /\ sessions \in Nat
    /\ accepted \in [Rooms -> Nat]
    /\ act \in [Conns -> Act]
    /\ missing \in [Conns -> SUBSET (Rooms \X Nat)]
    /\ late \in [Conns -> SUBSET (Rooms \X Nat)]
    /\ owed \in [Conns -> Nat]
    /\ cut \subseteq Rooms \X Nat

(* A connection that was closed is no client any more of the room it joined *)
(* last, whatever it joined, left and joined again before: only a room it   *)
(* changed for another without leaving it keeps it.                         *)
NoClosedClients ==
    \A r \in Rooms : \A c \in hub[r] : conn[c] = "closed" => client[c].room # r

(* A client of a room has every patch accepted in it, in the document it    *)
(* joined with or sent since, or the patch is on its way to that very       *)
(* client, or its broadcast ended at a connection that failed, or had       *)
(* copied the clients of the room between the join's read of the room and   *)
(* addClient: nothing else loses an update, neither joins nor removals      *)
(* between the acceptance of a patch and its broadcast.                     *)
NothingLostSilently ==
    \A r \in Rooms : \A c \in hub[r] : \A n \in 1..accepted[r] :
        <<r, n>> \in missing[c] =>
            \/ \E d \in Conns : OnItsWay(d, r, n, c)
            \/ <<r, n>> \in cut \cup late[c]

(* The author of an accepted patch gets patch_accepted or an error, unless  *)
(* its connection fails or stops reading, or the broadcast hangs at a       *)
(* client that does not read: it is answered once that client is gone.      *)
AuthorIsAnswered ==
    \A c \in Conns :
        (owed[c] # 0) ~> (owed[c] = 0 \/ conn[c] # "open" \/ Blocked(c))

===============================================================================
