--------------------------- MODULE CollabHubProofs ---------------------------
(***************************************************************************)
(* Machine-checked proofs about CollabHub, for every set of connections    *)
(* and of rooms and every bound, and about Presence, for every set of      *)
(* sessions.                                                               *)
(***************************************************************************)
EXTENDS CollabHub, Presence, TLAPS

(* Who has joined a room has a session, and so has a join on its way. *)
SessionInv ==
    \A c \in Conns :
        /\ Joined(c) => client[c].session \in 1..sessions
        /\ act[c].step = "add" => act[c].session \in 1..sessions

(* What a goroutine knows while it handles an envelope: a join and a        *)
(* broadcast have a room, the other steps need one that was joined; only a  *)
(* broadcast has a patch, and a patch is broadcast to its author too.       *)
ActInv ==
    \A c \in Conns :
        /\ act[c].step \in {"enter", "add", "copy", "send"} => act[c].room \in Rooms
        /\ act[c].step \in {"reply", "touch", "left"} => Joined(c)
        /\ act[c].msg # 0 => act[c].step \in {"copy", "send"} /\ ~act[c].skipSelf

(* Nothing runs any more for a closed connection, which has been removed    *)
(* from the room it joined last.                                            *)
ClosedInv ==
    \A c \in Conns : conn[c] = "closed" =>
        /\ act[c].step = "idle"
        /\ \A r \in Rooms : c \in hub[r] => client[c].room # r

(* A patch a client still misses is on its way to that very client, or its  *)
(* broadcast was cut short or came before the client, after its document.   *)
UpdateInv ==
    \A r \in Rooms : \A c \in hub[r] : \A n \in Nat \ {0} :
        <<r, n>> \in missing[c] =>
            (\E d \in Conns : OnItsWay(d, r, n, c)) \/ <<r, n>> \in cut \cup late[c]

IndInv ==
    /\ TypeOK
    /\ SessionInv
    /\ ActInv
    /\ ClosedInv
    /\ UpdateInv

-------------------------------------------------------------------------------
(* Frames: what an action of goroutine c has to show of the parts of the    *)
(* invariant, when its new activity is a.                                   *)

(* The activities an action assigns have the shape of one. *)
LEMMA IdleType ==
  /\ Idle \in Act /\ Idle.step = "idle" /\ Idle.msg = 0
  /\ \A step \in {"idle", "reply", "touch", "left", "error", "closing"} :
       LET a == [Idle EXCEPT !.step = step]
       IN  a \in Act /\ a.step = step /\ a.msg = 0
  BY DEF Act, Idle

(* The activity of the others is as it was. *)
LEMMA OthersGoOn ==
  ASSUME TypeOK, NEW c \in Conns, NEW a \in Act, act' = [act EXCEPT ![c] = a]
  PROVE  /\ act' \in [Conns -> Act]
         /\ act'[c] = a
         /\ \A d \in Conns \ {c} : act'[d] = act[d]
  BY DEF TypeOK

LEMMA SessionFrame ==
  ASSUME TypeOK, SessionInv,
         NEW c \in Conns, NEW a \in Act, act' = [act EXCEPT ![c] = a],
         sessions' \in Nat, sessions <= sessions',
         client' = client,
         a.step = "add" => a.session \in 1..sessions'
  PROVE  SessionInv'
  BY OthersGoOn DEF SessionInv, TypeOK, Joined

LEMMA ActFrame ==
  ASSUME TypeOK, ActInv,
         NEW c \in Conns, NEW a \in Act, act' = [act EXCEPT ![c] = a],
         client' = client,
         a.step \in {"enter", "add", "copy", "send"} => a.room \in Rooms,
         a.step \in {"reply", "touch", "left"} => Joined(c),
         a.msg # 0 => a.step \in {"copy", "send"} /\ ~a.skipSelf
  PROVE  ActInv'
  BY OthersGoOn DEF ActInv, Joined

(* No connection is closed, and none is added to a room. *)
LEMMA ClosedFrame ==
  ASSUME TypeOK, ClosedInv,
         NEW c \in Conns, NEW a \in Act, act' = [act EXCEPT ![c] = a],
         conn[c] # "closed", conn' = conn, client' = client,
         \A r \in Rooms : hub'[r] \subseteq hub[r]
  PROVE  ClosedInv'
  BY OthersGoOn DEF ClosedInv, TypeOK

(* Goroutine c broadcasts no patch, and nobody misses more than before. *)
LEMMA UpdateFrame ==
  ASSUME TypeOK, UpdateInv,
         NEW c \in Conns, NEW a \in Act, act' = [act EXCEPT ![c] = a],
         act[c].msg = 0,
         \A r \in Rooms : \A d \in hub'[r] : \A n \in Nat \ {0} :
            <<r, n>> \in missing'[d] => d \in hub[r] /\ <<r, n>> \in missing[d],
         late' = late,
         cut \subseteq cut'
  PROVE  UpdateInv'
  <1> SUFFICES ASSUME NEW r \in Rooms, NEW d \in hub'[r], NEW n \in Nat \ {0},
                      <<r, n>> \in missing'[d], <<r, n>> \notin cut' \cup late'[d]
               PROVE  \E e \in Conns : OnItsWay(e, r, n, d)'
    BY DEF UpdateInv, OnItsWay
  <1>1. PICK e \in Conns : OnItsWay(e, r, n, d)
    BY DEF UpdateInv
  <1>2. e # c
    BY <1>1 DEF OnItsWay
  <1>3. act'[e] = act[e]
    BY <1>2, OthersGoOn
  <1> QED
    BY <1>1, <1>3 DEF OnItsWay

(* A goroutine that is busy serves a connection that is not closed. *)
LEMMA BusyIsNotClosed ==
  ASSUME ClosedInv, NEW c \in Conns, act[c].step # "idle" \/ Reading(c)
  PROVE  conn[c] # "closed"
  BY DEF ClosedInv, Reading

(* The parts of the invariant for an action of goroutine c that changes its *)
(* activity and no more than presence entries: it joins nothing, leaves     *)
(* nothing and broadcasts no patch.                                         *)
LEMMA QuietStep ==
  ASSUME IndInv,
         NEW c \in Conns, NEW a \in Act, act' = [act EXCEPT ![c] = a],
         conn[c] # "closed", act[c].msg = 0, a.msg = 0, a.step # "add",
         a.step \in {"enter", "copy", "send"} => a.room \in Rooms,
         a.step \in {"reply", "touch", "left"} => Joined(c),
         entry' \subseteq 1..sessions,
         UNCHANGED <<conn, client, hub, sessions, accepted, history>>
  PROVE  IndInv'
  <1> USE DEF IndInv, history
  <1>1. TypeOK'
    BY OthersGoOn DEF TypeOK
  <1>2. SessionInv'
    <2>1. sessions' \in Nat /\ sessions <= sessions'
      BY DEF TypeOK
    <2> QED
      BY <2>1, SessionFrame
  <1>3. ActInv'
    BY ActFrame
  <1>4. ClosedInv'
    BY ClosedFrame
  <1>5. UpdateInv'
    BY UpdateFrame
  <1> QED
    BY <1>1, <1>2, <1>3, <1>4, <1>5

-------------------------------------------------------------------------------
(* The actions *)

LEMMA HubInit == Init => IndInv
  <1> SUFFICES ASSUME Init PROVE IndInv
    OBVIOUS
  <1> USE ConstantsAssumption DEF Init, Idle
  <1>1. TypeOK
    BY IdleType DEF TypeOK, Client
  <1>2. SessionInv /\ ActInv /\ ClosedInv
    BY DEF SessionInv, ActInv, ClosedInv, Joined
  <1>3. UpdateInv
    BY DEF UpdateInv
  <1> QED
    BY <1>1, <1>2, <1>3 DEF IndInv

LEMMA JoinStep ==
  ASSUME IndInv, NEW c \in Conns, NEW r \in Rooms, Join(c, r)
  PROVE  IndInv'
  <1>1. PICK n \in 0..accepted[r] :
          act' = [act EXCEPT ![c] = [Idle EXCEPT !.step = "enter", !.room = r,
                                                 !.seen = n]]
    BY DEF Join
  <1>2. /\ Reading(c)
        /\ UNCHANGED <<conn, client, hub, entry, sessions, accepted, history>>
    BY DEF Join
  <1> DEFINE a == [Idle EXCEPT !.step = "enter", !.room = r, !.seen = n]
  <1>3. n \in Nat
    BY DEF IndInv, TypeOK
  <1>4. a \in Act /\ a.step = "enter" /\ a.room = r /\ a.msg = 0
    BY <1>3 DEF Act, Idle
  <1>5. act[c].msg = 0 /\ conn[c] # "closed" /\ entry' \subseteq 1..sessions
    BY <1>2 DEF IndInv, ActInv, TypeOK, Reading
  <1> HIDE DEF a
  <1>6. act' = [act EXCEPT ![c] = a]
    BY <1>1 DEF a
  <1> QED
    BY <1>2, <1>4, <1>5, <1>6, QuietStep

LEMMA EnterStep ==
  ASSUME IndInv, NEW c \in Conns, Enter(c)
  PROVE  IndInv'
  <1> DEFINE a == [act[c] EXCEPT !.step = "add", !.session = sessions + 1]
  <1>0. TypeOK /\ SessionInv /\ ActInv /\ ClosedInv /\ UpdateInv
    BY DEF IndInv
  <1>1. /\ act' = [act EXCEPT ![c] = a]
        /\ UNCHANGED <<conn, client, hub, accepted, missing, late, owed, cut>>
        /\ sessions' = sessions + 1
        /\ entry' = entry \cup {sessions + 1}
        /\ act[c].step = "enter"
    BY DEF Enter, history
  <1>2. sessions \in Nat /\ sessions + 1 \in Nat /\ act[c] \in Act
    BY <1>0 DEF TypeOK
  <1>3. act[c].msg = 0 /\ act[c].room \in Rooms
    BY <1>0, <1>1 DEF ActInv
  <1>4. /\ a \in Act /\ a.step = "add" /\ a.room \in Rooms /\ a.msg = 0
        /\ a.session = sessions + 1
    BY <1>2, <1>3 DEF Act
  <1>5. conn[c] # "closed"
    BY <1>0, <1>1, BusyIsNotClosed
  <1> HIDE DEF a
  <1>6. TypeOK'
    <2>1. entry' \subseteq 1..sessions'
      BY <1>0, <1>1 DEF TypeOK
    <2>2. act' \in [Conns -> Act]
      BY <1>0, <1>1, <1>4, OthersGoOn
    <2> QED
      BY <1>0, <1>1, <2>1, <2>2 DEF TypeOK
  <1>7. SessionInv'
    <2>1. sessions' \in Nat /\ sessions <= sessions'
      BY <1>1, <1>2
    <2>2. a.session \in 1..sessions'
      BY <1>1, <1>2, <1>4
    <2> QED
      BY <1>0, <1>1, <1>4, <2>1, <2>2, SessionFrame
  <1>8. ActInv'
    BY <1>0, <1>1, <1>4, ActFrame
  <1>9. ClosedInv'
    BY <1>0, <1>1, <1>4, <1>5, ClosedFrame
  <1>10. UpdateInv'
    BY <1>0, <1>1, <1>3, <1>4, UpdateFrame
  <1> QED
    BY <1>6, <1>7, <1>8, <1>9, <1>10 DEF IndInv

LEMMA JoinFailsStep ==
  ASSUME IndInv, NEW c \in Conns, JoinFails(c)
  PROVE  IndInv'
  <1> DEFINE a == [Idle EXCEPT !.step = "error"]
  <1>1. /\ act' = [act EXCEPT ![c] = a]
        /\ act[c].step \in {"enter", "add"}
        /\ entry' = entry
        /\ UNCHANGED <<conn, client, hub, sessions, accepted, history>>
    BY DEF JoinFails, Do
  <1>2. a \in Act /\ a.step = "error" /\ a.msg = 0
    BY IdleType
  <1>3. act[c].msg = 0 /\ conn[c] # "closed" /\ entry' \subseteq 1..sessions
    BY <1>1, BusyIsNotClosed DEF IndInv, ActInv, TypeOK
  <1> HIDE DEF a
  <1> QED
    BY <1>1, <1>2, <1>3, QuietStep

LEMMA AddClientStep ==
  ASSUME IndInv, NEW c \in Conns, AddClient(c)
  PROVE  IndInv'
  <1> DEFINE r == act[c].room
             a == [Idle EXCEPT !.step = "reply"]
             new == {<<r, n>> : n \in (act[c].seen + 1)..accepted[r]}
             gone == {m \in new : \A d \in Conns : ~OnItsWay(d, r, m[2], c)}
  <1>0. TypeOK /\ SessionInv /\ ActInv /\ ClosedInv /\ UpdateInv
    BY DEF IndInv
  <1>1. /\ act' = [act EXCEPT ![c] = a]
        /\ act[c].step = "add"
        /\ client' = [client EXCEPT ![c] = [room |-> r, session |-> act[c].session]]
        /\ hub' = [hub EXCEPT ![r] = @ \cup {c}]
        /\ missing' = [missing EXCEPT ![c] = (@ \ ({r} \X Nat)) \cup new]
        /\ late' = [late EXCEPT ![c] = (@ \ ({r} \X Nat)) \cup gone]
        /\ UNCHANGED <<conn, entry, sessions, accepted, owed, cut>>
    BY DEF AddClient, Do
  <1>2. a \in Act /\ a.step = "reply" /\ a.msg = 0
    BY IdleType
  <1>3. r \in Rooms /\ act[c].msg = 0 /\ act[c].session \in 1..sessions
    BY <1>0, <1>1 DEF ActInv, SessionInv
  <1>4. conn[c] # "closed"
    BY <1>0, <1>1, BusyIsNotClosed
  <1>5. /\ act' \in [Conns -> Act]
        /\ act'[c] = a
        /\ \A d \in Conns \ {c} : act'[d] = act[d]
    BY <1>0, <1>1, <1>2, OthersGoOn
  <1>6. /\ client'[c].room = r
        /\ client'[c].session = act[c].session
        /\ \A d \in Conns \ {c} : client'[d] = client[d]
    BY <1>0, <1>1 DEF TypeOK
  <1>7. \A q \in Rooms : hub'[q] = IF q = r THEN hub[q] \cup {c} ELSE hub[q]
    BY <1>0, <1>1, <1>3 DEF TypeOK
  <1>8. /\ missing'[c] = (missing[c] \ ({r} \X Nat)) \cup new
        /\ late'[c] = (late[c] \ ({r} \X Nat)) \cup gone
        /\ \A d \in Conns \ {c} : missing'[d] = missing[d] /\ late'[d] = late[d]
    BY <1>0, <1>1 DEF TypeOK
  <1>9. /\ new \subseteq {r} \X Nat
        /\ gone \subseteq new
        /\ \A n \in Nat : <<r, n>> \in new \ gone =>
             \E d \in Conns : OnItsWay(d, r, n, c)
    <2>1. accepted[r] \in Nat /\ act[c].seen \in Nat
      BY <1>0, <1>3 DEF TypeOK, Act
    <2> QED
      BY <2>1
  <1> HIDE DEF a, r, new, gone
  <1>10. TypeOK'
    <2>1. [room |-> r, session |-> act[c].session] \in Client
      BY <1>0, <1>3 DEF TypeOK, Client
    <2>2. client' \in [Conns -> Client]
      BY <1>0, <1>1, <2>1 DEF TypeOK
    <2>3. hub' \in [Rooms -> SUBSET Conns]
      BY <1>0, <1>1, <1>3 DEF TypeOK
    <2>4. new \subseteq Rooms \X Nat /\ gone \subseteq Rooms \X Nat
      BY <1>3, <1>9
    <2>5. missing' \in [Conns -> SUBSET (Rooms \X Nat)]
      BY <1>0, <1>1, <2>4 DEF TypeOK
    <2>6. late' \in [Conns -> SUBSET (Rooms \X Nat)]
      BY <1>0, <1>1, <2>4 DEF TypeOK
    <2> QED
      BY <1>0, <1>1, <1>5, <2>2, <2>3, <2>5, <2>6 DEF TypeOK
  <1>11. SessionInv'
    BY <1>0, <1>1, <1>2, <1>3, <1>5, <1>6 DEF SessionInv, Joined
  <1>12. ActInv'
    <2>1. Joined(c)'
      BY <1>3, <1>6, ConstantsAssumption DEF Joined
    <2> QED
      BY <1>0, <1>2, <1>5, <1>6, <2>1 DEF ActInv, Joined
  <1>13. ClosedInv'
    BY <1>0, <1>1, <1>4, <1>5, <1>6, <1>7 DEF ClosedInv
  <1>14. UpdateInv'
    <2> SUFFICES ASSUME NEW q \in Rooms, NEW d \in hub'[q], NEW n \in Nat \ {0},
                        <<q, n>> \in missing'[d], <<q, n>> \notin cut' \cup late'[d]
                 PROVE  \E e \in Conns : OnItsWay(e, q, n, d)'
      BY DEF UpdateInv, OnItsWay
    <2>1. d \in Conns
      BY <1>10 DEF TypeOK
    <2>2. \E e \in Conns : OnItsWay(e, q, n, d)
      <3>1. CASE d = c /\ q = r
        BY <1>8, <1>9, <3>1
      <3>2. CASE d = c /\ q # r
        BY <1>0, <1>1, <1>7, <1>8, <1>9, <3>2 DEF UpdateInv
      <3>3. CASE d # c
        BY <1>0, <1>1, <1>7, <1>8, <2>1, <3>3 DEF UpdateInv
      <3> QED
        BY <3>1, <3>2, <3>3
    <2>3. PICK e \in Conns : OnItsWay(e, q, n, d)
      BY <2>2
    <2>4. e # c
      BY <1>1, <2>3 DEF OnItsWay
    <2>5. act'[e] = act[e]
      BY <1>5, <2>4
    <2> QED
      BY <2>3, <2>5 DEF OnItsWay
  <1> QED
    BY <1>10, <1>11, <1>12, <1>13, <1>14 DEF IndInv

(* A broadcast of presence by a connection that has joined a room, or an    *)
(* answer to it: the quiet ends of several handlers.                        *)
LEMMA QuietEnd ==
  ASSUME IndInv, NEW c \in Conns, NEW skip \in BOOLEAN,
         act[c].step \in {"reply", "touch"},
         Broadcast(c, client[c].room, 0, skip) \/ Do(c, "error") \/ Do(c, "reply"),
         entry' \subseteq 1..sessions,
         UNCHANGED <<conn, client, hub, sessions, accepted, history>>
  PROVE  IndInv'
  <1> DEFINE a == [Idle EXCEPT !.step = "copy", !.room = client[c].room,
                               !.msg = 0, !.skipSelf = skip]
             b(step) == [Idle EXCEPT !.step = step]
  <1>1. act[c].msg = 0 /\ conn[c] # "closed" /\ Joined(c)
    BY BusyIsNotClosed DEF IndInv, ActInv
  <1>2. client[c].room \in Rooms
    BY <1>1 DEF IndInv, TypeOK, Client, Joined
  <1>3. CASE Broadcast(c, client[c].room, 0, skip)
    <2>1. act' = [act EXCEPT ![c] = a]
      BY <1>3 DEF Broadcast
    <2>2. a \in Act /\ a.msg = 0 /\ a.step = "copy" /\ a.room \in Rooms
      BY <1>2 DEF Act, Idle
    <2> HIDE DEF a
    <2> QED
      BY <1>1, <2>1, <2>2, QuietStep
  <1>4. ASSUME NEW step \in {"error", "reply"}, Do(c, step) PROVE IndInv'
    <2>1. act' = [act EXCEPT ![c] = b(step)]
      BY <1>4 DEF Do
    <2>2. b(step) \in Act /\ b(step).msg = 0 /\ b(step).step = step
      BY IdleType
    <2> HIDE DEF b
    <2> QED
      BY <1>1, <2>1, <2>2, QuietStep
  <1> QED
    BY <1>3, <1>4

LEMMA WriteReplyStep ==
  ASSUME IndInv, NEW c \in Conns, WriteReply(c)
  PROVE  IndInv'
  <1>1. entry' \subseteq 1..sessions
    BY DEF WriteReply, IndInv, TypeOK
  <1>2. /\ act[c].step = "reply"
        /\ Broadcast(c, client[c].room, 0, TRUE) \/ Do(c, "error")
        /\ UNCHANGED <<conn, client, hub, sessions, accepted, history>>
    BY DEF WriteReply
  <1> QED
    BY <1>1, <1>2, QuietEnd

LEMMA TouchWriteStep ==
  ASSUME IndInv, NEW c \in Conns, TouchWrite(c)
  PROVE  IndInv'
  <1>1. /\ act[c].step = "touch"
        /\ entry' = entry \cup {client[c].session}
        /\ Do(c, "reply") \/ Broadcast(c, client[c].room, 0, FALSE)
        /\ UNCHANGED <<conn, client, hub, sessions, accepted, history>>
    BY DEF TouchWrite
  <1>2. client[c].session \in 1..sessions
    BY <1>1 DEF IndInv, ActInv, SessionInv
  <1>3. entry' \subseteq 1..sessions
    BY <1>1, <1>2 DEF IndInv, TypeOK
  <1> QED
    BY <1>1, <1>3, QuietEnd

(* An envelope is read and the goroutine goes on to a step of its handler. *)
LEMMA ReadStep ==
  ASSUME IndInv, NEW c \in Conns, NEW step \in {"touch", "left", "closing"},
         Reading(c), step # "closing" => Joined(c),
         Do(c, step),
         entry' \subseteq entry,
         UNCHANGED <<conn, client, hub, sessions, accepted, history>>
  PROVE  IndInv'
  <1> DEFINE a == [Idle EXCEPT !.step = step]
  <1>1. act' = [act EXCEPT ![c] = a]
    BY DEF Do
  <1>2. a \in Act /\ a.msg = 0 /\ a.step = step
    BY IdleType
  <1>3. act[c].msg = 0 /\ conn[c] # "closed"
    BY DEF IndInv, ActInv, Reading
  <1>4. entry' \subseteq 1..sessions
    BY DEF IndInv, TypeOK
  <1> HIDE DEF a
  <1> QED
    BY <1>1, <1>2, <1>3, <1>4, QuietStep

LEMMA TouchReadStep ==
  ASSUME IndInv, NEW c \in Conns, TouchRead(c)
  PROVE  IndInv'
  BY ReadStep DEF TouchRead

LEMMA LeaveRemoveStep ==
  ASSUME IndInv, NEW c \in Conns, LeaveRemove(c)
  PROVE  IndInv'
  <1>1. /\ Reading(c) /\ Joined(c) /\ Do(c, "left")
        /\ entry' \subseteq entry
        /\ UNCHANGED <<conn, client, hub, sessions, accepted, history>>
    BY DEF LeaveRemove
  <1> QED
    BY <1>1, ReadStep

LEMMA DisconnectStep ==
  ASSUME IndInv, NEW c \in Conns, Disconnect(c)
  PROVE  IndInv'
  <1>1. /\ Reading(c) /\ Do(c, "closing")
        /\ entry' \subseteq entry
        /\ UNCHANGED <<conn, client, hub, sessions, accepted, history>>
    BY DEF Disconnect
  <1> QED
    BY <1>1, ReadStep

(* The patch is missed by every client of the room, and on its way to all. *)
LEMMA SubmitPatchStep ==
  ASSUME IndInv, NEW c \in Conns, SubmitPatch(c)
  PROVE  IndInv'
  <1> DEFINE r == client[c].room
             n == accepted[r] + 1
             a == [Idle EXCEPT !.step = "copy", !.room = r, !.msg = n,
                               !.skipSelf = FALSE]
  <1>0. TypeOK /\ SessionInv /\ ActInv /\ ClosedInv /\ UpdateInv
    BY DEF IndInv
  <1>1. /\ act' = [act EXCEPT ![c] = a]
        /\ Reading(c) /\ Joined(c)
        /\ accepted' = [accepted EXCEPT ![r] = n]
        /\ missing' = Accepted(r, n)
        /\ owed' = [owed EXCEPT ![c] = n]
        /\ UNCHANGED <<conn, client, hub, entry, sessions, late, cut>>
    BY DEF SubmitPatch, Broadcast
  <1>2. r \in Rooms
    BY <1>0, <1>1 DEF TypeOK, Client, Joined
  <1>3. n \in Nat \ {0}
    BY <1>0, <1>2 DEF TypeOK
  <1>4. /\ a \in Act /\ a.step = "copy" /\ a.room = r /\ a.msg = n
        /\ a.skipSelf = FALSE
    BY <1>2, <1>3 DEF Act, Idle
  <1>5. act[c].msg = 0 /\ conn[c] # "closed"
    BY <1>0, <1>1 DEF ActInv, Reading
  <1> HIDE DEF a, n, r
  <1>7. /\ act' \in [Conns -> Act]
        /\ act'[c] = a
        /\ \A d \in Conns \ {c} : act'[d] = act[d]
    BY <1>0, <1>1, <1>4, OthersGoOn
  <1>8. \A d \in Conns :
          missing'[d] = IF d \in hub[r] THEN missing[d] \cup {<<r, n>>} ELSE missing[d]
    BY <1>1 DEF Accepted
  <1>9. TypeOK'
    <2>1. missing' \in [Conns -> SUBSET (Rooms \X Nat)]
      <3>1. <<r, n>> \in Rooms \X Nat
        BY <1>2, <1>3
      <3>2. ASSUME NEW d \in Conns PROVE missing'[d] \in SUBSET (Rooms \X Nat)
        <4>1. missing[d] \in SUBSET (Rooms \X Nat)
          BY <1>0 DEF TypeOK
        <4> QED
          BY <1>8, <3>1, <4>1
      <3>3. missing' = [d \in Conns |-> missing'[d]]
        BY <1>1 DEF Accepted
      <3> QED
        BY <3>2, <3>3
    <2>2. accepted' \in [Rooms -> Nat] /\ owed' \in [Conns -> Nat]
      BY <1>0, <1>1, <1>2, <1>3 DEF TypeOK
    <2> QED
      BY <1>0, <1>1, <1>7, <2>1, <2>2 DEF TypeOK
  <1>10. SessionInv'
    <2>1. sessions' \in Nat /\ sessions <= sessions'
      BY <1>0, <1>1 DEF TypeOK
    <2> QED
      BY <1>0, <1>1, <1>4, <2>1, SessionFrame
  <1>11. ActInv'
    BY <1>0, <1>1, <1>2, <1>4, ActFrame
  <1>12. ClosedInv'
    BY <1>0, <1>1, <1>4, <1>5, ClosedFrame
  <1>13. UpdateInv'
    <2> SUFFICES ASSUME NEW q \in Rooms, NEW d \in hub'[q], NEW m \in Nat \ {0},
                        <<q, m>> \in missing'[d], <<q, m>> \notin cut' \cup late'[d]
                 PROVE  \E e \in Conns : OnItsWay(e, q, m, d)'
      BY DEF UpdateInv, OnItsWay
    <2>1. d \in Conns /\ d \in hub[q]
      BY <1>0, <1>1 DEF TypeOK
    <2>2. CASE q = r /\ m = n
      BY <2>2, <1>4, <1>7 DEF OnItsWay
    <2>3. CASE ~(q = r /\ m = n)
      <3>0. <<q, m>> # <<r, n>>
        BY <2>3
      <3>1. <<q, m>> \in missing[d]
        BY <2>1, <3>0, <1>8
      <3>2. PICK e \in Conns : OnItsWay(e, q, m, d)
        BY <1>0, <1>1, <2>1, <3>1 DEF UpdateInv
      <3>3. e # c
        BY <1>5, <3>2 DEF OnItsWay
      <3>4. act'[e] = act[e]
        BY <1>7, <3>3
      <3> QED
        BY <3>2, <3>4 DEF OnItsWay
    <2> QED
      BY <2>2, <2>3
  <1> QED
    BY <1>9, <1>10, <1>11, <1>12, <1>13 DEF IndInv

-------------------------------------------------------------------------------
(* The broadcast *)

(* A step of a broadcast of goroutine c that leaves the rooms alone: what   *)
(* is left to show is that the patch it carries stays on its way.           *)
LEMMA BroadcastFrame ==
  ASSUME IndInv, NEW c \in Conns, NEW a \in Act, act' = [act EXCEPT ![c] = a],
         act[c].step \in {"copy", "send"},
         \/ a.step \in {"idle", "error"} /\ a.msg = 0
         \/ a.step = "send" /\ a.room = act[c].room
            /\ a.msg = act[c].msg /\ a.skipSelf = act[c].skipSelf,
         missing' \in [Conns -> SUBSET (Rooms \X Nat)],
         owed' \in [Conns -> Nat],
         cut' \subseteq Rooms \X Nat,
         UNCHANGED <<conn, client, hub, entry, sessions, accepted, late>>
  PROVE  TypeOK' /\ SessionInv' /\ ActInv' /\ ClosedInv'
  <1>0. TypeOK /\ SessionInv /\ ActInv /\ ClosedInv
    BY DEF IndInv
  <1>1. conn[c] # "closed"
    BY <1>0, BusyIsNotClosed
  <1>2. /\ a.step \in {"idle", "error", "send"}
        /\ a.step = "send" => a.room \in Rooms
        /\ a.msg # 0 => a.step = "send" /\ ~a.skipSelf
    BY <1>0 DEF ActInv
  <1>3. TypeOK'
    BY <1>0, OthersGoOn DEF TypeOK
  <1>4. SessionInv'
    <2>1. sessions' \in Nat /\ sessions <= sessions'
      BY <1>0 DEF TypeOK
    <2> QED
      BY <1>0, <1>2, <2>1, SessionFrame
  <1>5. ActInv'
    BY <1>0, <1>2, ActFrame
  <1>6. ClosedInv'
    BY <1>0, <1>1, ClosedFrame
  <1> QED
    BY <1>3, <1>4, <1>5, <1>6

(* A patch another goroutine carries stays on its way. *)
LEMMA OthersCarryOn ==
  ASSUME TypeOK, NEW c \in Conns, NEW a \in Act, act' = [act EXCEPT ![c] = a],
         NEW e \in Conns \ {c}, NEW r, NEW n, NEW d, OnItsWay(e, r, n, d)
  PROVE  OnItsWay(e, r, n, d)'
  BY OthersGoOn DEF OnItsWay

(* What is left of a loop over the clients. *)
LEMMA RestType ==
  ASSUME TypeOK, NEW c \in Conns, NEW list \in SUBSET Conns, Rest(c, list)
  PROVE  \E a \in Act :
           /\ act' = [act EXCEPT ![c] = a]
           /\ \/ a = Idle /\ list = {}
              \/ /\ a.step = "send" /\ a.room = act[c].room
                 /\ a.msg = act[c].msg /\ a.skipSelf = act[c].skipSelf
                 /\ a.list = list
  <1>1. CASE list = {}
    <2>1. act' = [act EXCEPT ![c] = Idle]
      BY <1>1 DEF Rest, Return
    <2>2. Idle \in Act
      BY IdleType
    <2> QED
      BY <1>1, <2>1, <2>2
  <1>2. CASE list # {}
    <2> DEFINE a == [act[c] EXCEPT !.step = "send", !.list = list]
    <2>1. act[c] \in Act
      BY DEF TypeOK
    <2>2. /\ a \in Act /\ a.step = "send" /\ a.room = act[c].room
          /\ a.msg = act[c].msg /\ a.skipSelf = act[c].skipSelf /\ a.list = list
      BY <2>1 DEF Act
    <2>3. act' = [act EXCEPT ![c] = a]
      BY <1>2 DEF Rest
    <2> HIDE DEF a
    <2> QED
      BY <2>2, <2>3
  <1> QED
    BY <1>1, <1>2

(* A patch is sent to every client of its room, its author included. *)
LEMMA CopyClientsStep ==
  ASSUME IndInv, NEW c \in Conns, CopyClients(c)
  PROVE  IndInv'
  <1> DEFINE list == hub[act[c].room] \ (IF act[c].skipSelf THEN {c} ELSE {})
  <1>0. TypeOK /\ ActInv /\ UpdateInv
    BY DEF IndInv
  <1>1. /\ act[c].step = "copy"
        /\ Rest(c, list)
        /\ UNCHANGED <<conn, client, hub, entry, sessions, accepted, missing,
                       late, owed, cut>>
    BY DEF CopyClients, history
  <1>2. act[c].room \in Rooms
    BY <1>0, <1>1 DEF ActInv
  <1>3. list \in SUBSET Conns
    BY <1>0, <1>2 DEF TypeOK
  <1>4. act[c].msg # 0 => list = hub[act[c].room]
    BY <1>0 DEF ActInv
  <1> HIDE DEF list
  <1>5. PICK a \in Act :
          /\ act' = [act EXCEPT ![c] = a]
          /\ \/ a = Idle /\ list = {}
             \/ /\ a.step = "send" /\ a.room = act[c].room
                /\ a.msg = act[c].msg /\ a.skipSelf = act[c].skipSelf
                /\ a.list = list
    BY <1>0, <1>1, <1>3, RestType
  <1>6. /\ missing' \in [Conns -> SUBSET (Rooms \X Nat)]
        /\ owed' \in [Conns -> Nat]
        /\ cut' \subseteq Rooms \X Nat
    BY <1>0, <1>1 DEF TypeOK
  <1>7. TypeOK' /\ SessionInv' /\ ActInv' /\ ClosedInv'
    BY <1>1, <1>5, <1>6, IdleType, BroadcastFrame
  <1>8. UpdateInv'
    <2> SUFFICES ASSUME NEW r \in Rooms, NEW d \in hub'[r], NEW n \in Nat \ {0},
                        <<r, n>> \in missing'[d], <<r, n>> \notin cut' \cup late'[d]
                 PROVE  \E e \in Conns : OnItsWay(e, r, n, d)'
      BY DEF UpdateInv, OnItsWay
    <2>1. PICK e \in Conns : OnItsWay(e, r, n, d)
      BY <1>0, <1>1 DEF UpdateInv
    <2>2. CASE e # c
      BY <1>0, <1>5, <2>1, <2>2, OthersCarryOn
    <2>3. CASE e = c
      <3>1. act[c].room = r /\ act[c].msg = n
        BY <2>1, <2>3 DEF OnItsWay
      <3>2. d \in list
        BY <1>1, <1>4, <3>1
      <3>3. act'[c] = a
        BY <1>0, <1>5, OthersGoOn
      <3> QED
        BY <1>5, <3>1, <3>2, <3>3 DEF OnItsWay
    <2> QED
      BY <2>2, <2>3
  <1> QED
    BY <1>7, <1>8 DEF IndInv

(* Who is sent the patch does not miss it; the others stay on the list. *)
LEMMA SendStep ==
  ASSUME IndInv, NEW c \in Conns, Send(c)
  PROVE  IndInv'
  <1>0. TypeOK /\ ActInv /\ UpdateInv
    BY DEF IndInv
  <1>1. PICK to \in act[c].list :
          /\ Rest(c, act[c].list \ {to})
          /\ missing' = [missing EXCEPT ![to] = @ \ {<<act[c].room, act[c].msg>>}]
          /\ owed' = IF to = c THEN [owed EXCEPT ![c] = 0] ELSE owed
    BY DEF Send
  <1>2. /\ act[c].step = "send"
        /\ UNCHANGED <<conn, client, hub, entry, sessions, accepted, late, cut>>
    BY DEF Send
  <1>3. act[c].list \in SUBSET Conns
    BY <1>0 DEF TypeOK, Act
  <1>4. PICK a \in Act :
          /\ act' = [act EXCEPT ![c] = a]
          /\ \/ a = Idle /\ act[c].list \ {to} = {}
             \/ /\ a.step = "send" /\ a.room = act[c].room
                /\ a.msg = act[c].msg /\ a.skipSelf = act[c].skipSelf
                /\ a.list = act[c].list \ {to}
    <2>1. act[c].list \ {to} \in SUBSET Conns
      BY <1>3
    <2> QED
      BY <1>0, <1>1, <2>1, RestType
  <1>5. to \in Conns
    BY <1>3
  <1>6. /\ missing' \in [Conns -> SUBSET (Rooms \X Nat)]
        /\ owed' \in [Conns -> Nat]
        /\ cut' \subseteq Rooms \X Nat
    BY <1>0, <1>1, <1>2, <1>5 DEF TypeOK
  <1>7. TypeOK' /\ SessionInv' /\ ActInv' /\ ClosedInv'
    BY <1>2, <1>4, <1>6, IdleType, BroadcastFrame
  <1>8. UpdateInv'
    <2> SUFFICES ASSUME NEW r \in Rooms, NEW d \in hub'[r], NEW n \in Nat \ {0},
                        <<r, n>> \in missing'[d], <<r, n>> \notin cut' \cup late'[d]
                 PROVE  \E e \in Conns : OnItsWay(e, r, n, d)'
      BY DEF UpdateInv, OnItsWay
    <2>1. d \in Conns /\ d \in hub[r]
      BY <1>0, <1>2 DEF TypeOK
    <2>2. <<r, n>> \in missing[d] /\ (d = to => <<r, n>> # <<act[c].room, act[c].msg>>)
      BY <1>0, <1>1, <2>1 DEF TypeOK
    <2>3. PICK e \in Conns : OnItsWay(e, r, n, d)
      BY <1>0, <1>2, <2>1, <2>2 DEF UpdateInv
    <2>4. CASE e # c
      BY <1>0, <1>4, <2>3, <2>4, OthersCarryOn
    <2>5. CASE e = c
      <3>1. act[c].room = r /\ act[c].msg = n /\ d \in act[c].list
        BY <1>2, <2>3, <2>5 DEF OnItsWay
      <3>2. d \in act[c].list \ {to}
        BY <2>2, <3>1
      <3>3. act'[c] = a
        BY <1>0, <1>4, OthersGoOn
      <3> QED
        BY <1>4, <3>1, <3>2, <3>3 DEF OnItsWay
    <2> QED
      BY <2>4, <2>5
  <1> QED
    BY <1>7, <1>8 DEF IndInv

(* A broadcast that ends at a failed write is on record. *)
LEMMA SendFailsStep ==
  ASSUME IndInv, NEW c \in Conns, SendFails(c)
  PROVE  IndInv'
  <1> DEFINE a == [Idle EXCEPT !.step = "error"]
  <1>0. TypeOK /\ ActInv /\ UpdateInv
    BY DEF IndInv
  <1>1. /\ act' = [act EXCEPT ![c] = a]
        /\ act[c].step = "send"
        /\ cut' = cut \cup ({<<act[c].room, act[c].msg>>} \ (Rooms \X {0}))
        /\ UNCHANGED <<conn, client, hub, entry, sessions, accepted, missing,
                       late, owed>>
    BY DEF SendFails, Do
  <1>2. a \in Act /\ a.step = "error" /\ a.msg = 0
    BY IdleType
  <1> HIDE DEF a
  <1>3. act[c].room \in Rooms /\ act[c].msg \in Nat
    BY <1>0, <1>1 DEF ActInv, TypeOK, Act
  <1>4. /\ missing' \in [Conns -> SUBSET (Rooms \X Nat)]
        /\ owed' \in [Conns -> Nat]
        /\ cut' \subseteq Rooms \X Nat
    BY <1>0, <1>1, <1>3 DEF TypeOK
  <1>5. TypeOK' /\ SessionInv' /\ ActInv' /\ ClosedInv'
    BY <1>1, <1>2, <1>4, BroadcastFrame
  <1>6. UpdateInv'
    <2> SUFFICES ASSUME NEW r \in Rooms, NEW d \in hub'[r], NEW n \in Nat \ {0},
                        <<r, n>> \in missing'[d], <<r, n>> \notin cut' \cup late'[d]
                 PROVE  \E e \in Conns : OnItsWay(e, r, n, d)'
      BY DEF UpdateInv, OnItsWay
    <2>1. PICK e \in Conns : OnItsWay(e, r, n, d)
      BY <1>0, <1>1 DEF UpdateInv
    <2>2. e # c
      BY <1>1, <2>1 DEF OnItsWay
    <2> QED
      BY <1>0, <1>1, <1>2, <2>1, <2>2, OthersCarryOn
  <1> QED
    BY <1>5, <1>6 DEF IndInv

(* The error, or the answer, is written and the goroutine reads again. *)
LEMMA WriteErrorStep ==
  ASSUME IndInv, NEW c \in Conns, WriteError(c)
  PROVE  IndInv'
  <1>0. TypeOK /\ SessionInv /\ ActInv /\ ClosedInv /\ UpdateInv
    BY DEF IndInv
  <1>1. /\ act' = [act EXCEPT ![c] = Idle]
        /\ act[c].step = "error"
        /\ owed' = [owed EXCEPT ![c] = 0]
        /\ UNCHANGED <<conn, client, hub, entry, sessions, accepted, missing,
                       late, cut>>
    BY DEF WriteError, Return
  <1>2. act[c].msg = 0 /\ conn[c] # "closed"
    BY <1>0, <1>1, BusyIsNotClosed DEF ActInv
  <1>3. TypeOK'
    <2>1. owed' \in [Conns -> Nat]
      BY <1>0, <1>1 DEF TypeOK
    <2> QED
      BY <1>0, <1>1, <2>1, IdleType, OthersGoOn DEF TypeOK
  <1>4. SessionInv'
    <2>1. sessions' \in Nat /\ sessions <= sessions'
      BY <1>0, <1>1 DEF TypeOK
    <2> QED
      BY <1>0, <1>1, <2>1, IdleType, SessionFrame
  <1>5. ActInv'
    BY <1>0, <1>1, IdleType, ActFrame
  <1>6. ClosedInv'
    BY <1>0, <1>1, <1>2, IdleType, ClosedFrame
  <1>7. UpdateInv'
    BY <1>0, <1>1, <1>2, IdleType, UpdateFrame
  <1> QED
    BY <1>3, <1>4, <1>5, <1>6, <1>7 DEF IndInv

-------------------------------------------------------------------------------
(* The end *)

LEMMA RemoveClientStep ==
  ASSUME IndInv, NEW c \in Conns, RemoveClient(c)
  PROVE  IndInv'
  <1> DEFINE r == client[c].room
             a == [Idle EXCEPT !.step = "copy", !.room = r, !.msg = 0,
                               !.skipSelf = FALSE]
  <1>0. TypeOK /\ SessionInv /\ ActInv /\ ClosedInv /\ UpdateInv
    BY DEF IndInv
  <1>1. /\ act' = [act EXCEPT ![c] = a]
        /\ act[c].step = "left"
        /\ hub' = [hub EXCEPT ![r] = @ \ {c}]
        /\ missing' = [missing EXCEPT ![c] = @ \ ({r} \X Nat)]
        /\ UNCHANGED <<conn, client, entry, sessions, accepted, late, owed, cut>>
    BY DEF RemoveClient, Broadcast, Settled
  <1>2. r \in Rooms
    BY <1>0, <1>1 DEF ActInv, TypeOK, Client, Joined
  <1>3. /\ a \in Act /\ a.step = "copy" /\ a.room = r /\ a.msg = 0
    BY <1>2 DEF Act, Idle
  <1>4. act[c].msg = 0 /\ conn[c] # "closed"
    BY <1>0, <1>1, BusyIsNotClosed DEF ActInv
  <1> HIDE DEF a, r
  <1>5. \A q \in Rooms : hub'[q] \subseteq hub[q]
    BY <1>0, <1>1 DEF TypeOK
  <1>6. \A d \in Conns : missing'[d] \subseteq missing[d]
    BY <1>0, <1>1 DEF TypeOK
  <1>7. TypeOK'
    <2>1. hub' \in [Rooms -> SUBSET Conns]
      BY <1>0, <1>1, <1>2 DEF TypeOK
    <2>2. missing' \in [Conns -> SUBSET (Rooms \X Nat)]
      BY <1>0, <1>1 DEF TypeOK
    <2>3. act' \in [Conns -> Act]
      BY <1>0, <1>1, <1>3, OthersGoOn
    <2> QED
      BY <1>0, <1>1, <2>1, <2>2, <2>3 DEF TypeOK
  <1>8. SessionInv'
    <2>1. sessions' \in Nat /\ sessions <= sessions'
      BY <1>0, <1>1 DEF TypeOK
    <2> QED
      BY <1>0, <1>1, <1>3, <2>1, SessionFrame
  <1>9. ActInv'
    BY <1>0, <1>1, <1>2, <1>3, ActFrame
  <1>10. ClosedInv'
    BY <1>0, <1>1, <1>3, <1>4, <1>5, ClosedFrame
  <1>11. UpdateInv'
    <2>1. ASSUME NEW q \in Rooms, NEW d \in hub'[q], NEW n \in Nat \ {0},
                 <<q, n>> \in missing'[d]
          PROVE  d \in hub[q] /\ <<q, n>> \in missing[d]
      <3>1. d \in Conns
        BY <1>7 DEF TypeOK
      <3> QED
        BY <2>1, <1>5, <1>6, <3>1
    <2> QED
      BY <1>0, <1>1, <1>3, <1>4, <2>1, UpdateFrame
  <1> QED
    BY <1>7, <1>8, <1>9, <1>10, <1>11 DEF IndInv

(* The deferred function takes the connection off the room it joined last. *)
LEMMA CloseStep ==
  ASSUME IndInv, NEW c \in Conns, Close(c)
  PROVE  IndInv'
  <1>0. TypeOK /\ SessionInv /\ ActInv /\ ClosedInv /\ UpdateInv
    BY DEF IndInv
  <1>1. /\ act' = [act EXCEPT ![c] = Idle]
        /\ act[c].step = "closing"
        /\ hub' = IF Joined(c) THEN [hub EXCEPT ![client[c].room] = @ \ {c}] ELSE hub
        /\ conn' = [conn EXCEPT ![c] = "closed"]
        /\ missing' = [missing EXCEPT ![c] = @ \ ({client[c].room} \X Nat)]
        /\ UNCHANGED <<client, entry, sessions, accepted, late, owed, cut>>
    BY DEF Close, Return, Settled
  <1>2. Idle \in Act /\ Idle.step = "idle" /\ Idle.msg = 0
    BY IdleType
  <1>3. act[c].msg = 0
    BY <1>0, <1>1 DEF ActInv
  <1>4. /\ act' \in [Conns -> Act]
        /\ act'[c] = Idle
        /\ \A d \in Conns \ {c} : act'[d] = act[d]
    BY <1>0, <1>1, <1>2, OthersGoOn
  <1>5. \A q \in Rooms :
          /\ hub'[q] \subseteq hub[q]
          /\ client[c].room = q => c \notin hub'[q]
    BY <1>0, <1>1, ConstantsAssumption DEF TypeOK, Joined
  <1>6. \A d \in Conns : missing'[d] \subseteq missing[d]
    BY <1>0, <1>1 DEF TypeOK
  <1>7. TypeOK'
    <2>1. hub' \in [Rooms -> SUBSET Conns]
      BY <1>0, <1>1 DEF TypeOK
    <2>2. missing' \in [Conns -> SUBSET (Rooms \X Nat)]
      BY <1>0, <1>1 DEF TypeOK
    <2>3. conn' \in [Conns -> {"open", "stuck", "broken", "closed"}]
      BY <1>0, <1>1 DEF TypeOK
    <2> QED
      BY <1>0, <1>1, <1>4, <2>1, <2>2, <2>3 DEF TypeOK
  <1>8. SessionInv'
    <2>1. sessions' \in Nat /\ sessions <= sessions'
      BY <1>0, <1>1 DEF TypeOK
    <2> QED
      BY <1>0, <1>1, <1>2, <2>1, SessionFrame
  <1>9. ActInv'
    BY <1>0, <1>1, <1>2, ActFrame
  <1>10. ClosedInv'
    <2>1. \A d \in Conns \ {c} : conn'[d] = conn[d]
      BY <1>0, <1>1 DEF TypeOK
    <2> QED
      BY <1>0, <1>1, <1>2, <1>4, <1>5, <2>1 DEF ClosedInv
  <1>11. UpdateInv'
    <2>1. ASSUME NEW q \in Rooms, NEW d \in hub'[q], NEW n \in Nat \ {0},
                 <<q, n>> \in missing'[d]
          PROVE  d \in hub[q] /\ <<q, n>> \in missing[d]
      <3>1. d \in Conns
        BY <1>7 DEF TypeOK
      <3> QED
        BY <2>1, <1>5, <1>6, <3>1
    <2> QED
      BY <1>0, <1>1, <1>2, <1>3, <2>1, UpdateFrame
  <1> QED
    BY <1>7, <1>8, <1>9, <1>10, <1>11 DEF IndInv

(* The peer, the network and the TTL touch no goroutine and no room. *)
LEMMA EnvironmentStep ==
  ASSUME IndInv, Expire \/ (\E c \in Conns : Stall(c) \/ Break(c)) \/ UNCHANGED vars
  PROVE  IndInv'
  <1>0. TypeOK /\ SessionInv /\ ActInv /\ ClosedInv /\ UpdateInv
    BY DEF IndInv
  <1>1. UNCHANGED <<client, hub, sessions, accepted, act, missing, late, owed, cut>>
    BY DEF Expire, Stall, Break, vars, history
  <1>2. entry' \subseteq entry
    BY DEF Expire, Stall, Break, vars
  <1>3. /\ conn' \in [Conns -> {"open", "stuck", "broken", "closed"}]
        /\ \A c \in Conns : conn'[c] = "closed" => conn[c] = "closed"
    BY <1>0 DEF Expire, Stall, Break, vars, TypeOK
  <1>4. TypeOK'
    BY <1>0, <1>1, <1>2, <1>3 DEF TypeOK
  <1>5. SessionInv' /\ ActInv'
    BY <1>0, <1>1 DEF SessionInv, ActInv, Joined
  <1>6. ClosedInv'
    BY <1>0, <1>1, <1>3 DEF ClosedInv
  <1>7. UpdateInv'
    BY <1>0, <1>1 DEF UpdateInv, OnItsWay
  <1> QED
    BY <1>4, <1>5, <1>6, <1>7 DEF IndInv

-------------------------------------------------------------------------------
LEMMA HubStep == IndInv /\ [Next]_vars => IndInv'
  <1> SUFFICES ASSUME IndInv, [Next]_vars PROVE IndInv'
    OBVIOUS
  <1>1. ASSUME NEW c \in Conns, Read(c) PROVE IndInv'
    BY <1>1, JoinStep, TouchReadStep, SubmitPatchStep, LeaveRemoveStep,
       DisconnectStep DEF Read
  <1>2. ASSUME NEW c \in Conns, Continue(c) PROVE IndInv'
    BY <1>2, EnterStep, JoinFailsStep, AddClientStep, WriteReplyStep,
       TouchWriteStep,
       RemoveClientStep, CloseStep, CopyClientsStep, SendStep, SendFailsStep,
       WriteErrorStep
       DEF Continue
  <1> QED
    BY <1>1, <1>2, EnvironmentStep DEF Next

(* The inductive invariant: what goroutines, connections, rooms and the     *)
(* patches on their way have to do with each other, in every state of any   *)
(* number of connections and rooms.                                         *)
THEOREM HubInvariance == Spec => []IndInv
  BY HubInit, HubStep, PTL DEF Spec

(* The shape of the variables is kept by all handlers of the hub. *)
THEOREM HubTypeCorrect == Spec => []TypeOK
  <1>1. IndInv => TypeOK
    BY DEF IndInv
  <1> QED
    BY <1>1, HubInvariance, PTL

(* ServeHTTP: a closed connection is no client of the room it joined last,  *)
(* however its joins and departures interleave with broadcasts, failed      *)
(* writes and expiring presence.                                            *)
THEOREM ClosedClientsAreGone == Spec => []NoClosedClients
  <1>1. IndInv => NoClosedClients
    BY DEF IndInv, TypeOK, ClosedInv, NoClosedClients
  <1> QED
    BY <1>1, HubInvariance, PTL

(* handlePatch and broadcast: a client of a room misses an accepted patch   *)
(* only while the patch is on its way to it, when the broadcast ended at a  *)
(* failed write, or when the broadcast copied the clients after the client  *)
(* had read the room and before it was one of them (handleJoin): copying    *)
(* the clients without holding the lock of the room loses nothing to those  *)
(* who are clients.                                                         *)
THEOREM UpdatesAreNotLost == Spec => []NothingLostSilently
  <1>1. IndInv => NothingLostSilently
    <2> SUFFICES ASSUME IndInv, NEW r \in Rooms, NEW c \in hub[r],
                        NEW n \in 1..accepted[r], <<r, n>> \in missing[c]
                 PROVE  \/ \E d \in Conns : OnItsWay(d, r, n, c)
                        \/ <<r, n>> \in cut \cup late[c]
      BY DEF NothingLostSilently
    <2>1. n \in Nat \ {0}
      BY DEF IndInv, TypeOK
    <2> QED
      BY <2>1 DEF IndInv, UpdateInv
  <1> QED
    BY <1>1, HubInvariance, PTL

-------------------------------------------------------------------------------
(* The presence store. *)

(* A session that has not joined yet is nowhere: in particular no listing is *)
(* about to remove its place.                                               *)
NewSessionInv ==
    \A s \in Sessions : call[s].step = "new" =>
        /\ s \notin stored \cup index
        /\ \A q \in Sessions : s \notin call[q].left \cup call[q].stale

(* A place that is about to be removed is that of a missing entry, unless a *)
(* heartbeat has brought the entry back.                                    *)
StaleInv ==
    \A q \in Sessions : call[q].stale \cap stored \subseteq revived

(* What was there throughout a listing is there, and is found or still to   *)
(* be looked for.                                                           *)
ListInv ==
    \A s \in Sessions :
        /\ there[s] \subseteq stored
        /\ call[s].step \in {"get", "srem"} =>
             there[s] \subseteq call[s].found \cup call[s].left

(* An answer belongs to a listing that is over. *)
AnswerInv ==
    \A s \in Sessions : call[s].answer # "none" =>
        /\ call[s].step = "idle"
        /\ there[s] \subseteq call[s].found
        /\ call[s].answer = "session_not_found" => s \notin there[s]

PresenceInv ==
    /\ PresenceTypeOK
    /\ NewSessionInv
    /\ StaleInv
    /\ UnlistedWasRevived
    /\ ListInv
    /\ AnswerInv

LEMMA PresenceInvInit == PresenceInit => PresenceInv
BY DEF PresenceInit, PresenceInv, PresenceTypeOK, NewSessionInv, StaleInv,
       UnlistedWasRevived, ListInv, AnswerInv, NewCall, Call

(* Every step keeps the shape of the variables. *)
LEMMA PresenceTypeStep ==
    PresenceTypeOK /\ [PresenceNext]_presenceVars => PresenceTypeOK'
<1> SUFFICES ASSUME PresenceTypeOK, [PresenceNext]_presenceVars
             PROVE PresenceTypeOK'
    OBVIOUS
<1> USE DEF PresenceTypeOK, Call, NewCall, IdleCall, Gone
<1>1. CASE UNCHANGED presenceVars
    BY <1>1 DEF presenceVars
<1>2. ASSUME NEW s \in Sessions, JoinUpsert(s) PROVE PresenceTypeOK'
    <2> DEFINE c == [call[s] EXCEPT !.step = "smembers", !.why = "join"]
    <2>1. call[s] \in Call
        OBVIOUS
    <2>2. c \in Call
        BY <2>1, <1>2 DEF JoinUpsert
    <2>3. call' = [call EXCEPT ![s] = c]
        BY <1>2 DEF JoinUpsert
    <2> QED
        BY <2>2, <2>3, <1>2 DEF JoinUpsert, Upsert
<1>3. ASSUME NEW s \in Sessions, TouchGet(s) PROVE PresenceTypeOK'
    BY <1>3 DEF TouchGet
<1>4. ASSUME NEW s \in Sessions, TouchSet(s) PROVE PresenceTypeOK'
    BY <1>4 DEF TouchSet, Upsert
<1>5. ASSUME NEW s \in Sessions, SubmitPatchList(s) PROVE PresenceTypeOK'
    BY <1>5 DEF SubmitPatchList
<1>6. ASSUME NEW s \in Sessions, ListIndex(s) PROVE PresenceTypeOK'
    <2> DEFINE c == [call[s] EXCEPT !.step = "get", !.left = index]
    <2>1. call[s] \in Call
        OBVIOUS
    <2>2. c \in Call
        BY <2>1, <1>6 DEF ListIndex
    <2>3. call' = [call EXCEPT ![s] = c]
        BY <1>6 DEF ListIndex
    <2> QED
        BY <2>2, <2>3, <1>6 DEF ListIndex
<1>7. ASSUME NEW s \in Sessions, GetMember(s) PROVE PresenceTypeOK'
    <2>1. PICK m \in call[s].left : call' = [call EXCEPT ![s] = Looked(call[s], m)]
        BY <1>7 DEF GetMember
    <2>2. call[s] \in Call /\ m \in Sessions
        OBVIOUS
    <2>3. Looked(call[s], m) \in Call
        BY <2>2 DEF Looked
    <2> QED
        BY <2>1, <2>3, <1>7 DEF GetMember
<1>8. ASSUME NEW s \in Sessions, RemoveStale(s) PROVE PresenceTypeOK'
    <2> DEFINE c == [call[s] EXCEPT !.step = "get", !.stale = {}]
    <2>1. call[s] \in Call
        OBVIOUS
    <2>2. c \in Call
        BY <2>1, <1>8 DEF RemoveStale
    <2>3. call' = [call EXCEPT ![s] = c]
        BY <1>8 DEF RemoveStale
    <2> QED
        BY <2>2, <2>3, <1>8 DEF RemoveStale
<1>9. ASSUME NEW s \in Sessions, AnswerList(s) PROVE PresenceTypeOK'
    <2>1. PICK a \in {"members", "accepted", "session_not_found"} :
            call' = [call EXCEPT ![s].step = "idle", ![s].answer = a]
        BY <1>9 DEF AnswerList
    <2>2. call' = [call EXCEPT ![s] = [call[s] EXCEPT !.step = "idle", !.answer = a]]
        BY <2>1
    <2>3. [call[s] EXCEPT !.step = "idle", !.answer = a] \in Call
        <3>1. call[s] \in Call
            OBVIOUS
        <3> QED
            BY <3>1, <2>1
    <2> QED
        BY <2>2, <2>3, <1>9 DEF AnswerList
<1>10. ASSUME NEW s \in Sessions, Fail(s) PROVE PresenceTypeOK'
    BY <1>10 DEF Fail
<1>11. ASSUME NEW s \in Sessions, Leave(s) PROVE PresenceTypeOK'
    BY <1>11 DEF Leave, Disturb
<1>12. ASSUME NEW s \in Sessions, ExpireEntry(s) PROVE PresenceTypeOK'
    BY <1>12 DEF ExpireEntry, Disturb
<1> QED
    BY <1>1, <1>2, <1>3, <1>4, <1>5, <1>6, <1>7, <1>8, <1>9, <1>10, <1>11, <1>12
       DEF PresenceNext

(* Every step keeps the rest of the invariant. *)
LEMMA PresenceStep == PresenceInv /\ [PresenceNext]_presenceVars => PresenceInv'
<1> SUFFICES ASSUME PresenceInv, [PresenceNext]_presenceVars PROVE PresenceInv'
    OBVIOUS
<1>t. PresenceTypeOK'
    BY PresenceTypeStep DEF PresenceInv
<1> DEFINE Facts == /\ NewSessionInv /\ StaleInv /\ UnlistedWasRevived
                    /\ ListInv /\ AnswerInv
<1> SUFFICES Facts'
    BY <1>t DEF PresenceInv
<1> USE <1>t DEF PresenceInv, PresenceTypeOK, Call, NewCall, IdleCall, Gone,
                 NewSessionInv, StaleInv, UnlistedWasRevived, ListInv, AnswerInv
<1>1. CASE UNCHANGED presenceVars
    BY <1>1 DEF presenceVars
<1>2. ASSUME NEW s \in Sessions, JoinUpsert(s) PROVE Facts'
    BY <1>2 DEF JoinUpsert, Upsert
<1>3. ASSUME NEW s \in Sessions, TouchGet(s) PROVE Facts'
    BY <1>3 DEF TouchGet
<1>4. ASSUME NEW s \in Sessions, TouchSet(s) PROVE Facts'
    BY <1>4 DEF TouchSet, Upsert
<1>5. ASSUME NEW s \in Sessions, SubmitPatchList(s) PROVE Facts'
    BY <1>5 DEF SubmitPatchList
<1>6. ASSUME NEW s \in Sessions, ListIndex(s) PROVE Facts'
    BY <1>6 DEF ListIndex
<1>7. ASSUME NEW s \in Sessions, GetMember(s) PROVE Facts'
    <2>1. PICK m \in call[s].left : call' = [call EXCEPT ![s] = Looked(call[s], m)]
        BY <1>7 DEF GetMember
    <2>2. call[s].step = "get" /\ UNCHANGED <<stored, index, revived, there>>
        BY <1>7 DEF GetMember
    <2>3. \A q \in Sessions : q # s => call'[q] = call[q]
        BY <2>1
    <2>4. call'[s] = Looked(call[s], m)
        BY <2>1
    <2>5. CASE m \in stored
        <3>1. /\ call'[s].left = call[s].left \ {m}
              /\ call'[s].found = call[s].found \cup {m}
              /\ call'[s].stale = call[s].stale
              /\ call'[s].step = call[s].step
              /\ call'[s].answer = call[s].answer
            BY <2>4, <2>5 DEF Looked
        <3>2. NewSessionInv' /\ StaleInv' /\ UnlistedWasRevived'
            BY <2>2, <2>3, <3>1
        <3>3. ListInv'
            BY <2>2, <2>3, <3>1
        <3>4. AnswerInv'
            BY <2>2, <2>3, <3>1
        <3> QED
            BY <3>2, <3>3, <3>4
    <2>6. CASE m \notin stored
        <3>1. /\ call'[s].left = call[s].left \ {m}
              /\ call'[s].found = call[s].found
              /\ call'[s].stale = {m}
              /\ call'[s].step = "srem"
              /\ call'[s].answer = call[s].answer
            BY <2>4, <2>6 DEF Looked
        <3> QED
            BY <2>2, <2>3, <3>1, <2>6
    <2> QED
        BY <2>5, <2>6
<1>8. ASSUME NEW s \in Sessions, RemoveStale(s) PROVE Facts'
    BY <1>8 DEF RemoveStale
<1>9. ASSUME NEW s \in Sessions, AnswerList(s) PROVE Facts'
    BY <1>9 DEF AnswerList
<1>10. ASSUME NEW s \in Sessions, Fail(s) PROVE Facts'
    BY <1>10 DEF Fail
<1>11. ASSUME NEW s \in Sessions, Leave(s) PROVE Facts'
    BY <1>11 DEF Leave, Disturb
<1>12. ASSUME NEW s \in Sessions, ExpireEntry(s) PROVE Facts'
    BY <1>12 DEF ExpireEntry, Disturb
<1> QED
    BY <1>1, <1>2, <1>3, <1>4, <1>5, <1>6, <1>7, <1>8, <1>9, <1>10, <1>11, <1>12
       DEF PresenceNext

(* PresenceInv holds in every state of the presence store. *)
THEOREM PresenceInvariance == PresenceSpec => []PresenceInv
BY PresenceInvInit, PresenceStep, PTL DEF PresenceSpec

(* A session that is present but not in the index is one whose entry        *)
(* expired between the read and the write of a heartbeat (Touch).           *)
THEOREM UnlistedOnlyAfterExpiry == PresenceSpec => []UnlistedWasRevived
<1>1. PresenceInv => UnlistedWasRevived
    BY DEF PresenceInv
<1> QED
    BY <1>1, PresenceInvariance, PTL

(* A listing (List) shows every session that was present and in the index   *)
(* while it ran, whatever other listings removed from the index.            *)
THEOREM ListingsAreComplete == PresenceSpec => []PresentAreListed
<1>1. PresenceInv => PresentAreListed
    BY DEF PresenceInv, AnswerInv, PresentAreListed
<1> QED
    BY <1>1, PresenceInvariance, PTL
===============================================================================
