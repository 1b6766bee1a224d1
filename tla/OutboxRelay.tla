------------------------------ MODULE OutboxRelay ------------------------------
(***************************************************************************)
(* From the transaction of a revision to the search index: the outbox of   *)
(* the page service, the relay that publishes it to NATS, and the consumer *)
(* of the search service that projects the events of a page.               *)
(*                                                                         *)
(* Revisions are numbered in the order they are accepted (PageService) and *)
(* each of their transactions adds three rows with one created_at, later   *)
(* than that of the revision before: a handler takes the time after it has *)
(* read the head it extends.  One process runs one relay.                  *)
(***************************************************************************)
EXTENDS Naturals, Sequences

CONSTANTS BatchSize,     \* rows claimed by one flush
          MaxRevisions,  \* bound: revisions of the page
          MaxStops,      \* bound: stops of the relay and of the search service
          Faults         \* which of the faults below can happen

AllFaults == {"relay",     \* the page service dies, or its store fails
              "publish",   \* a publication does not go out
              "flush",     \* it goes out, but the flush after it times out
              "search",    \* the search service dies
              "project"}   \* a projection fails

ASSUME ConstantsAssumption ==
    /\ BatchSize \in Nat \ {0}
    /\ MaxRevisions \in Nat
    /\ MaxStops \in Nat
    /\ Faults \subseteq AllFaults

VARIABLES rows,    \* page_outbox, in insertion order
          relay,   \* the flush in progress
          wire,    \* rows in the subscription of the search service
          search,  \* is the search service subscribed?
          index,   \* the revisions its text and its link edges come from
          stops,   \* stops so far
          lost     \* history: rows of which a message was dropped

vars == <<rows, relay, wire, search, index, stops, lost>>

-------------------------------------------------------------------------------
Types == {"saved", "links", "attachments"}

Row == [rev : Nat, type : Types, status : {"pending", "published", "failed"}]

Relay == [phase : {"idle", "publish", "markPublished", "markFailed", "down"},
          batch : Seq(Nat)]

Index == [text : Nat, links : Nat]

(* The revisions of the page: three rows each. *)
LatestRev == Len(rows) \div 3

Pending == {i \in 1..Len(rows) : rows[i].status = "pending"}

(* Mutant of IsBatch: the query has no ORDER BY. *)
UnorderedBatch(b) ==
    /\ \A m, n \in DOMAIN b : m < n => b[m] # b[n]
    /\ Len(b) = BatchSize \/ \A i \in Pending : \E n \in DOMAIN b : b[n] = i

(* A batch: pending rows by created_at, at most BatchSize of them.  Rows of *)
(* one transaction tie, and come in any order.                              *)
IsBatch(b) ==
    /\ \A m, n \in DOMAIN b : m < n =>
         b[m] # b[n] /\ rows[b[m]].rev <= rows[b[n]].rev
    /\ \A i \in Pending : \/ \E n \in DOMAIN b : b[n] = i
                          \/ /\ Len(b) = BatchSize
                             /\ \A n \in DOMAIN b : rows[b[n]].rev <= rows[i].rev

(* flushOnce goes to its next message, or back to waiting for the ticker. *)
NextMessage ==
    relay' = [phase |-> IF Len(relay.batch) > 1 THEN "publish" ELSE "idle",
              batch |-> Tail(relay.batch)]

Marked(status) == [rows EXCEPT ![Head(relay.batch)].status = status]

(* Messages are dropped; nothing is projected from "attachments" anyway. *)
Drop(is) == lost' = lost \cup {i \in is : rows[i].type # "attachments"}

(* Core NATS: whoever is subscribed gets the message, nobody else ever does. *)
Deliver(i) ==
    /\ wire' = IF search THEN Append(wire, i) ELSE wire
    /\ Drop(IF search THEN {} ELSE {i})

-------------------------------------------------------------------------------
Init ==
    /\ rows = <<>>
    /\ relay = [phase |-> "idle", batch |-> <<>>]
    /\ wire = <<>>
    /\ search = TRUE
    /\ index = [text |-> 0, links |-> 0]
    /\ stops = 0
    /\ lost = {}

(* The transaction of a draft save, a publication or a restore. *)
CommitRevision ==
    /\ LatestRev < MaxRevisions
    /\ LET row(t) == [rev |-> LatestRev + 1, type |-> t, status |-> "pending"] IN
         rows' = rows \o <<row("saved"), row("links"), row("attachments")>>
    /\ UNCHANGED <<relay, wire, search, index, stops, lost>>

(* Mutant of ClaimPending: claiming a row takes it out of the outbox. *)
ClaimAndMark ==
    /\ relay.phase = "idle"
    /\ \E n \in 1..BatchSize : \E b \in [1..n -> Pending] :
         /\ IsBatch(b)
         /\ relay' = [phase |-> "publish", batch |-> b]
         /\ rows' = [i \in DOMAIN rows |->
                       IF \E k \in 1..n : b[k] = i
                       THEN [rows[i] EXCEPT !.status = "published"] ELSE rows[i]]
    /\ UNCHANGED <<wire, search, index, stops, lost>>

ClaimPending ==
    /\ relay.phase = "idle"
    /\ \E n \in 1..BatchSize : \E b \in [1..n -> Pending] :
         /\ IsBatch(b)
         /\ relay' = [phase |-> "publish", batch |-> b]
    /\ UNCHANGED <<rows, wire, search, index, stops, lost>>

(* PublishMsg and the flush of the connection succeed.  The retry policy of *)
(* the relay is empty, so there is one attempt.                             *)
Publish ==
    /\ relay.phase = "publish"
    /\ relay' = [relay EXCEPT !.phase = "markPublished"]
    /\ Deliver(Head(relay.batch))
    /\ UNCHANGED <<rows, search, index, stops>>

(* Publish fails; if only the flush timed out the message is on its way. *)
PublishFails ==
    /\ relay.phase = "publish"
    /\ relay' = [relay EXCEPT !.phase = "markFailed"]
    /\ \/ "publish" \in Faults /\ UNCHANGED <<wire, lost>>
       \/ "flush" \in Faults /\ Deliver(Head(relay.batch))
    /\ UNCHANGED <<rows, search, index, stops>>

(* Mutant of MarkPublished: an error of the store does not end the flush. *)
MarkPublishedOrGoOn ==
    /\ relay.phase = "markPublished"
    /\ rows' \in {rows, Marked("published")}
    /\ NextMessage
    /\ UNCHANGED <<wire, search, index, stops, lost>>

MarkPublished ==
    /\ relay.phase = "markPublished"
    /\ rows' = Marked("published")
    /\ NextMessage
    /\ UNCHANGED <<wire, search, index, stops, lost>>

(* A failed row gets a next attempt time, but is not pending any more. *)
MarkFailed ==
    /\ relay.phase = "markFailed"
    /\ rows' = Marked("failed")
    /\ NextMessage
    /\ UNCHANGED <<wire, search, index, stops, lost>>

(* A store error ends flushOnce, Run and the process; so does a crash. *)
StopRelay ==
    /\ "relay" \in Faults
    /\ relay.phase # "down"
    /\ stops < MaxStops
    /\ relay' = [phase |-> "down", batch |-> <<>>]
    /\ stops' = stops + 1
    /\ UNCHANGED <<rows, wire, search, index, lost>>

StartRelay ==
    /\ relay.phase = "down"
    /\ relay' = [phase |-> "idle", batch |-> <<>>]
    /\ UNCHANGED <<rows, wire, search, index, stops, lost>>

-------------------------------------------------------------------------------
(* The search service *)

(* UpsertPage replaces the text and the edges, ReplacePageLinks the edges;  *)
(* neither compares with what is there.                                     *)
Projected(row) ==
    CASE row.type = "saved" -> [text |-> row.rev, links |-> row.rev]
      [] row.type = "links" -> [index EXCEPT !.links = row.rev]
      [] OTHER -> index

Project ==
    /\ search
    /\ wire # <<>>
    /\ index' = Projected(rows[Head(wire)])
    /\ wire' = Tail(wire)
    /\ UNCHANGED <<rows, relay, search, stops, lost>>

(* The consumer ignores the error of a projection. *)
ProjectFails ==
    /\ "project" \in Faults
    /\ search
    /\ wire # <<>>
    /\ wire' = Tail(wire)
    /\ Drop({Head(wire)})
    /\ UNCHANGED <<rows, relay, search, index, stops>>

StopSearch ==
    /\ "search" \in Faults
    /\ search
    /\ stops < MaxStops
    /\ search' = FALSE
    /\ wire' = <<>>
    /\ Drop({wire[n] : n \in DOMAIN wire})
    /\ stops' = stops + 1
    /\ UNCHANGED <<rows, relay, index>>

StartSearch ==
    /\ ~search
    /\ search' = TRUE
    /\ UNCHANGED <<rows, relay, wire, index, stops, lost>>

-------------------------------------------------------------------------------
Flush ==
    ClaimPending \/ Publish \/ PublishFails \/ MarkPublished \/ MarkFailed

Consume == Project \/ ProjectFails

Next ==
    \/ CommitRevision
    \/ Flush \/ StopRelay \/ StartRelay
    \/ Consume \/ StopSearch \/ StartSearch

Spec == Init /\ [][Next]_vars

(* The relay polls and the consumer reads for as long as their processes   *)
(* run, and a stopped process is started again.                            *)
Fairness ==
    /\ WF_vars(Flush) /\ WF_vars(StartRelay)
    /\ WF_vars(Consume) /\ WF_vars(StartSearch)

FairSpec == Spec /\ Fairness

-------------------------------------------------------------------------------
(* Properties *)

(* Every variable has its shape. *)
TypeOK ==
    /\ rows \in Seq(Row)
    /\ relay \in Relay
    /\ wire \in Seq(1..Len(rows))
    /\ search \in BOOLEAN
    /\ index \in Index
    /\ stops \in Nat
    /\ lost \subseteq 1..Len(rows)

(* No event is left behind by a newer one: when an event of a revision has *)
(* been published or given up, so have all events of older revisions, also *)
(* across batches, failures and restarts of the relay.                     *)
OldestFirst ==
    \A i, j \in 1..Len(rows) :
        rows[i].rev < rows[j].rev /\ rows[j].status # "pending" =>
            rows[i].status # "pending"

(* The index never goes back to an older revision, although events are     *)
(* published again after a restart and the projection has no version check. *)
IndexNeverRegresses ==
    [][index'.text >= index.text /\ index'.links >= index.links]_vars

(* The index shows the revision of an event or a newer one. *)
Shown(row) ==
    CASE row.type = "saved" -> index.text >= row.rev
      [] row.type = "links" -> index.links >= row.rev
      [] OTHER -> TRUE

(* Delivery is at least once: the publication of every event succeeds some  *)
(* time.  Where "flush" is no fault, only this brings an event to NATS.     *)
AtLeastOnce ==
    \A i \in 1..(3 * MaxRevisions) :
        (i <= Len(rows)) ~> (relay.phase = "markPublished" /\ Head(relay.batch) = i)

(* The index catches up with the page: it ends up showing, for every event  *)
(* that was neither marked failed nor dropped on its way, that revision or  *)
(* a newer one, wherever the relay stopped and was started again.           *)
CatchesUp ==
    <>[](\A i \in 1..Len(rows) :
            rows[i].status # "failed" /\ i \notin lost => Shown(rows[i]))

===============================================================================
