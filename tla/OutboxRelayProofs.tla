--------------------------- MODULE OutboxRelayProofs ---------------------------
(***************************************************************************)
(* Proofs about OutboxRelay, for any batch size, any number of revisions   *)
(* and stops, and any of the faults.                                       *)
(***************************************************************************)
EXTENDS OutboxRelay, SequenceTheorems, TLAPS

(* Below, r are rows, b is a batch, w is the wire and x is the index. *)

Open(r) == {i \in 1..Len(r) : r[i].status = "pending"}

(* The rows of a revision come later than those of older ones. *)
RowsInv(r) ==
    /\ \A i \in 1..Len(r) : r[i].rev <= Len(r) \div 3
    /\ \A i, j \in 1..Len(r) :
         r[i].rev < r[j].rev /\ r[j].status # "pending" => r[i].status # "pending"

(* What is left of a batch are pending rows by age, and no pending row      *)
(* outside is older than one of them, although revisions were added since.  *)
BatchInv(r, b) ==
    /\ \A n \in 1..Len(b) : b[n] \in Open(r)
    /\ \A m, n \in 1..Len(b) : m < n => b[m] # b[n] /\ r[b[m]].rev <= r[b[n]].rev
    /\ \A i \in Open(r) : \/ \E n \in 1..Len(b) : b[n] = i
                          \/ \A n \in 1..Len(b) : r[b[n]].rev <= r[i].rev

(* A flush is at a message of its batch; outside a flush there is none. *)
PhaseInv(phase, b) == (phase \in {"idle", "down"}) <=> (Len(b) = 0)

(* Messages are on their way in the order of the revisions.  No pending row *)
(* is older than one of them, so that what is published again after a       *)
(* restart is not either, and none is older than what the index shows.      *)
WireInv(r, w, x) ==
    /\ \A n \in 1..Len(w) : w[n] \in 1..Len(r)
    /\ \A m, n \in 1..Len(w) : m < n => r[w[m]].rev <= r[w[n]].rev
    /\ \A i \in Open(r), n \in 1..Len(w) : r[w[n]].rev <= r[i].rev
    /\ \A n \in 1..Len(w) : x.text <= r[w[n]].rev /\ x.links <= r[w[n]].rev
    /\ \A i \in Open(r) : x.text <= r[i].rev /\ x.links <= r[i].rev
    /\ x.text <= Len(r) \div 3 /\ x.links <= Len(r) \div 3

IndInv ==
    /\ TypeOK
    /\ RowsInv(rows)
    /\ BatchInv(rows, relay.batch)
    /\ PhaseInv(relay.phase, relay.batch)
    /\ WireInv(rows, wire, index)

-------------------------------------------------------------------------------
LEMMA RelayInit == Init => IndInv
<1> SUFFICES ASSUME Init PROVE IndInv
    OBVIOUS
<1>1. rows = <<>> /\ wire = <<>> /\ relay.batch = <<>> /\ relay.phase = "idle"
      /\ index.text = 0 /\ index.links = 0
    BY DEF Init
<1>2. TypeOK
    BY DEF Init, TypeOK, Relay, Index
<1>3. RowsInv(rows) /\ BatchInv(rows, relay.batch) /\ PhaseInv(relay.phase, relay.batch)
    BY <1>1 DEF RowsInv, BatchInv, PhaseInv, Open
<1>4. WireInv(rows, wire, index)
    BY <1>1 DEF WireInv, Open
<1> QED
    BY <1>2, <1>3, <1>4 DEF IndInv

(* What the types say of the parts. *)
LEMMA Shapes ==
    ASSUME TypeOK
    PROVE  /\ rows \in Seq(Row) /\ Len(rows) \in Nat
           /\ \A i \in 1..Len(rows) : rows[i] \in Row /\ rows[i].rev \in Nat
           /\ relay.batch \in Seq(Nat) /\ Len(relay.batch) \in Nat
           /\ wire \in Seq(1..Len(rows)) /\ Len(wire) \in Nat
           /\ \A n \in 1..Len(wire) : wire[n] \in 1..Len(rows)
           /\ index.text \in Nat /\ index.links \in Nat
<1>1. rows \in Seq(Row) /\ relay.batch \in Seq(Nat) /\ wire \in Seq(1..Len(rows))
      /\ index.text \in Nat /\ index.links \in Nat
    BY DEF TypeOK, Relay, Index
<1>2. \A i \in 1..Len(rows) : rows[i] \in Row
    BY <1>1
<1>3. \A n \in 1..Len(wire) : wire[n] \in 1..Len(rows)
    BY <1>1
<1> QED
    BY <1>1, <1>2, <1>3 DEF Row

-------------------------------------------------------------------------------
(* The rows of a transaction are newer than all others. *)
LEMMA CommitKeeps == ASSUME IndInv, CommitRevision PROVE IndInv'
<1> DEFINE l == Len(rows)
           v == LatestRev + 1
           row(t) == [rev |-> v, type |-> t, status |-> "pending"]
           new == <<row("saved"), row("links"), row("attachments")>>
<1>1. rows' = rows \o new /\ UNCHANGED <<relay, wire, search, index, stops, lost>>
    BY DEF CommitRevision
<1>2. l \in Nat /\ v \in Nat /\ LatestRev = l \div 3 /\ rows \in Seq(Row)
      /\ v = LatestRev + 1
    BY Shapes DEF IndInv, LatestRev
<1>3. new \in Seq(Row) /\ Len(new) = 3
      /\ \A n \in 1..3 : new[n].rev = v /\ new[n].status = "pending"
    BY <1>2 DEF Row, Types
<1> HIDE DEF v, new
<1>4. /\ rows' \in Seq(Row) /\ Len(rows') = l + 3
      /\ \A i \in 1..l : rows'[i] = rows[i]
      /\ \A i \in (l + 1)..(l + 3) : rows'[i] = new[i - l]
    <2>1. /\ rows \o new \in Seq(Row) /\ Len(rows \o new) = Len(rows) + Len(new)
          /\ \A i \in 1..(Len(rows) + Len(new)) : (rows \o new)[i] =
               IF i <= Len(rows) THEN rows[i] ELSE new[i - Len(rows)]
        BY <1>2, <1>3, ConcatProperties, Zenon
    <2>2. Len(rows') = l + 3 /\ rows' \in Seq(Row)
        BY <1>1, <1>3, <2>1, Zenon
    <2>3. \A i \in 1..(l + 3) : rows'[i] = IF i <= l THEN rows[i] ELSE new[i - l]
        BY <1>1, <1>3, <2>1, Zenon
    <2> QED
        BY <1>2, <2>2, <2>3
<1>5. \A i \in (l + 1)..(l + 3) : rows'[i].rev = v /\ rows'[i].status = "pending"
    <2>1. \A i \in (l + 1)..(l + 3) : i - l \in 1..3
        BY <1>2
    <2> QED
        BY <1>3, <1>4, <2>1
<1>6. Len(rows') \div 3 = v /\ v = (l \div 3) + 1 /\ (l \div 3) \in Nat
    BY <1>2, <1>4
<1>7. \A i \in 1..Len(rows') : i \in 1..l \/ i \in (l + 1)..(l + 3)
    BY <1>2, <1>4
<1>8. \A i \in 1..l : i \in 1..Len(rows') /\ rows[i].rev <= l \div 3 /\ rows[i].rev \in Nat
    BY <1>2, <1>4, Shapes DEF IndInv, RowsInv
<1>9. TypeOK'
    <2>1. wire \in Seq(1..Len(rows')) /\ lost \subseteq 1..Len(rows')
        BY <1>8 DEF IndInv, TypeOK
    <2> QED
        BY <1>1, <1>4, <2>1 DEF IndInv, TypeOK
<1>10. \A i \in Open(rows') : i \in Open(rows) \/ i \in (l + 1)..(l + 3)
    BY <1>4, <1>7 DEF Open
<1>11. Open(rows) \subseteq Open(rows') /\ Open(rows) \subseteq 1..l
    BY <1>4, <1>8 DEF Open
<1>12. RowsInv(rows')
    <2>1. \A i \in 1..Len(rows') : rows'[i].rev <= v
        BY <1>4, <1>5, <1>6, <1>7, <1>8
    <2>2. ASSUME NEW i \in 1..Len(rows'), NEW j \in 1..Len(rows'),
                 rows'[i].rev < rows'[j].rev, rows'[j].status # "pending"
          PROVE  rows'[i].status # "pending"
        <3>1. j \in 1..l
            BY <1>5, <1>7, <2>2
        <3>2. i \in 1..l
            <4>1. CASE i \in (l + 1)..(l + 3)
                BY <1>4, <1>5, <1>6, <1>8, <2>2, <3>1, <4>1
            <4> QED
                BY <1>7, <4>1
        <3> QED
            BY <1>4, <2>2, <3>1, <3>2 DEF IndInv, RowsInv
    <2> QED
        BY <1>6, <2>1, <2>2 DEF RowsInv
<1>13. BatchInv(rows', relay.batch)
    <2> DEFINE b == relay.batch
    <2>1. \A n \in 1..Len(b) : b[n] \in Open(rows) /\ b[n] \in 1..l
        BY <1>11 DEF IndInv, BatchInv
    <2>2. \A n \in 1..Len(b) : b[n] \in Open(rows') /\ rows'[b[n]] = rows[b[n]]
        BY <1>4, <1>11, <2>1
    <2>3. \A m, n \in 1..Len(b) : m < n => b[m] # b[n] /\ rows'[b[m]].rev <= rows'[b[n]].rev
        BY <2>2 DEF IndInv, BatchInv
    <2>4. ASSUME NEW i \in Open(rows')
          PROVE  \/ \E n \in 1..Len(b) : b[n] = i
                 \/ \A n \in 1..Len(b) : rows'[b[n]].rev <= rows'[i].rev
        <3>1. CASE i \in Open(rows)
            BY <1>4, <1>11, <2>2, <3>1 DEF IndInv, BatchInv
        <3>2. CASE i \in (l + 1)..(l + 3)
            <4>1. rows'[i].rev = v
                BY <1>5, <3>2
            <4>2. \A n \in 1..Len(b) : rows[b[n]].rev <= v
                BY <1>6, <1>8, <2>1
            <4> QED
                BY <2>2, <4>1, <4>2
        <3> QED
            BY <1>10, <3>1, <3>2
    <2> HIDE DEF b
    <2> QED
        BY <2>2, <2>3, <2>4 DEF BatchInv, b
<1>14. WireInv(rows', wire, index)
    <2>1. \A n \in 1..Len(wire) : wire[n] \in 1..l /\ rows'[wire[n]] = rows[wire[n]]
        BY <1>4 DEF IndInv, WireInv
    <2>2. \A n \in 1..Len(wire) : wire[n] \in 1..Len(rows')
        BY <1>8, <2>1
    <2>3. \A m, n \in 1..Len(wire) : m < n => rows'[wire[m]].rev <= rows'[wire[n]].rev
        BY <2>1 DEF IndInv, WireInv
    <2>4. ASSUME NEW i \in Open(rows')
          PROVE  /\ \A n \in 1..Len(wire) : rows'[wire[n]].rev <= rows'[i].rev
                 /\ index.text <= rows'[i].rev /\ index.links <= rows'[i].rev
        <3>1. CASE i \in Open(rows)
            BY <1>4, <1>11, <2>1, <3>1 DEF IndInv, WireInv
        <3>2. CASE i \in (l + 1)..(l + 3)
            <4>1. rows'[i].rev = v
                BY <1>5, <3>2
            <4>2. \A n \in 1..Len(wire) : rows'[wire[n]].rev <= v
                BY <1>6, <1>8, <2>1
            <4>3. index.text \in Nat /\ index.links \in Nat
                  /\ index.text <= l \div 3 /\ index.links <= l \div 3
                BY Shapes DEF IndInv, WireInv
            <4>4. index.text <= v /\ index.links <= v
                BY <1>6, <4>3
            <4> QED
                BY <4>1, <4>2, <4>4
        <3> QED
            BY <1>10, <3>1, <3>2
    <2>5. \A n \in 1..Len(wire) :
            index.text <= rows'[wire[n]].rev /\ index.links <= rows'[wire[n]].rev
        BY <2>1 DEF IndInv, WireInv
    <2>6. index.text <= v /\ index.links <= v
        BY <1>6, Shapes DEF IndInv, WireInv
    <2> QED
        BY <1>6, <2>2, <2>3, <2>4, <2>5, <2>6 DEF WireInv
<1> QED
    BY <1>1, <1>9, <1>12, <1>13, <1>14 DEF IndInv

(* The claim takes the oldest pending rows. *)
LEMMA ClaimKeeps == ASSUME IndInv, ClaimPending PROVE IndInv'
<1>1. PICK n \in 1..BatchSize : \E b \in [1..n -> Pending] :
        IsBatch(b) /\ relay' = [phase |-> "publish", batch |-> b]
    BY DEF ClaimPending
<1>2. PICK b \in [1..n -> Pending] :
        IsBatch(b) /\ relay' = [phase |-> "publish", batch |-> b]
    BY <1>1
<1>3. UNCHANGED <<rows, wire, search, index, stops, lost>>
    BY DEF ClaimPending
<1>4. Pending = Open(rows) /\ Pending \subseteq Nat
    BY DEF Pending, Open
<1>5. n \in Nat /\ n > 0
    BY ConstantsAssumption
<1>6. b \in Seq(Pending) /\ b \in Seq(Nat) /\ Len(b) = n /\ DOMAIN b = 1..n
    BY <1>4, <1>5
<1>7. relay'.batch = b /\ relay'.phase = "publish" /\ relay' \in Relay
    BY <1>2, <1>6 DEF Relay
<1>8. BatchInv(rows, b)
    BY <1>2, <1>4, <1>6 DEF IsBatch, BatchInv
<1>9. PhaseInv(relay'.phase, b)
    BY <1>5, <1>6, <1>7 DEF PhaseInv
<1>10. TypeOK'
    BY <1>3, <1>7 DEF IndInv, TypeOK
<1> QED
    BY <1>3, <1>7, <1>8, <1>9, <1>10 DEF IndInv

(* The head of the batch is a pending row, and none is older. *)
LEMMA HeadIsOldest ==
    ASSUME IndInv, relay.phase \notin {"idle", "down"}
    PROVE  /\ relay.batch # <<>> /\ Len(relay.batch) > 0
           /\ Head(relay.batch) = relay.batch[1]
           /\ Head(relay.batch) \in Open(rows) /\ Head(relay.batch) \in 1..Len(rows)
           /\ \A i \in Open(rows) : rows[Head(relay.batch)].rev <= rows[i].rev
<1> DEFINE b == relay.batch
<1>1. b \in Seq(Nat) /\ Len(b) \in Nat /\ Len(b) # 0
    BY Shapes DEF IndInv, PhaseInv
<1>2. b # <<>> /\ Len(b) > 0 /\ Head(b) = b[1] /\ 1 \in 1..Len(b)
    BY <1>1
<1>3. BatchInv(rows, b)
    BY DEF IndInv
<1> HIDE DEF b
<1>4. b[1] \in Open(rows)
    BY <1>2, <1>3 DEF BatchInv
<1>5. b[1] \in 1..Len(rows)
    BY <1>4 DEF Open
<1>6. rows[b[1]].rev \in Nat
    BY <1>5, Shapes DEF IndInv
<1>7. ASSUME NEW i \in Open(rows) PROVE rows[b[1]].rev <= rows[i].rev
    <2>1. CASE \A n \in 1..Len(b) : rows[b[n]].rev <= rows[i].rev
        BY <1>2, <2>1
    <2>2. ASSUME NEW n \in 1..Len(b), b[n] = i PROVE rows[b[1]].rev <= rows[i].rev
        <3>1. CASE n = 1
            BY <1>6, <2>2, <3>1
        <3>2. CASE 1 < n
            BY <1>2, <1>3, <2>2, <3>2 DEF BatchInv
        <3> QED
            BY <1>1, <3>1, <3>2
    <2> QED
        BY <1>3, <2>1, <2>2 DEF BatchInv
<1> QED
    BY <1>2, <1>4, <1>5, <1>7 DEF b

(* A message joins the wire behind the others, or is dropped. *)
LEMMA DeliverKeeps ==
    ASSUME IndInv, relay.phase = "publish", Deliver(Head(relay.batch))
    PROVE  /\ wire' \in Seq(1..Len(rows)) /\ lost' \subseteq 1..Len(rows)
           /\ WireInv(rows, wire', index)
<1> DEFINE h == Head(relay.batch)
           l == Len(wire)
<1>1. /\ h \in 1..Len(rows) /\ h \in Open(rows)
      /\ \A i \in Open(rows) : rows[h].rev <= rows[i].rev
    BY HeadIsOldest
<1>2. wire \in Seq(1..Len(rows)) /\ l \in Nat /\ lost \subseteq 1..Len(rows)
      /\ WireInv(rows, wire, index)
    BY Shapes DEF IndInv, TypeOK
<1>3. lost' \subseteq 1..Len(rows)
    BY <1>1, <1>2 DEF Deliver, Drop
<1> HIDE DEF h
<1>4. CASE ~search
    BY <1>2, <1>3, <1>4 DEF Deliver
<1>5. CASE search
    <2>1. wire' = Append(wire, h)
        BY <1>5 DEF Deliver, h
    <2>2. /\ wire' \in Seq(1..Len(rows)) /\ Len(wire') = l + 1 /\ wire'[l + 1] = h
          /\ \A n \in 1..l : wire'[n] = wire[n]
        BY <1>1, <1>2, <2>1
    <2>3. \A n \in 1..Len(wire') : n \in 1..l \/ n = l + 1
        BY <1>2, <2>2
    <2>4. \A n \in 1..l : rows[wire[n]].rev <= rows[h].rev
        BY <1>1, <1>2 DEF WireInv
    <2>5. \A n \in 1..Len(wire') : wire'[n] \in 1..Len(rows)
        BY <2>2
    <2>6. ASSUME NEW m \in 1..Len(wire'), NEW n \in 1..Len(wire'), m < n
          PROVE  rows[wire'[m]].rev <= rows[wire'[n]].rev
        <3>1. m \in 1..l
            BY <1>2, <2>2, <2>6
        <3>2. CASE n \in 1..l
            BY <1>2, <2>2, <2>6, <3>1, <3>2 DEF WireInv
        <3>3. CASE n = l + 1
            BY <2>2, <2>4, <3>1, <3>3
        <3> QED
            BY <2>3, <3>2, <3>3
    <2>7. ASSUME NEW n \in 1..Len(wire')
          PROVE  /\ \A i \in Open(rows) : rows[wire'[n]].rev <= rows[i].rev
                 /\ index.text <= rows[wire'[n]].rev /\ index.links <= rows[wire'[n]].rev
        <3>1. CASE n \in 1..l
            BY <1>2, <2>2, <3>1 DEF WireInv
        <3>2. CASE n = l + 1
            BY <1>1, <1>2, <2>2, <3>2 DEF WireInv
        <3> QED
            BY <2>3, <3>1, <3>2
    <2>8. WireInv(rows, wire', index)
        BY <1>2, <2>5, <2>6, <2>7 DEF WireInv
    <2> QED
        BY <1>3, <2>2, <2>8
<1>6. search \in BOOLEAN
    BY DEF IndInv, TypeOK
<1> QED
    BY <1>4, <1>5

LEMMA PublishKeeps == ASSUME IndInv, Publish \/ PublishFails PROVE IndInv'
<1> DEFINE ph == IF relay'.phase = "markPublished" THEN "markPublished" ELSE "markFailed"
<1>1. relay.phase = "publish" /\ UNCHANGED <<rows, search, index, stops>>
    BY DEF Publish, PublishFails
<1>2. relay' = [relay EXCEPT !.phase = ph]
    BY DEF Publish, PublishFails, IndInv, TypeOK, Relay
<1>3. ph \in {"markPublished", "markFailed"}
    OBVIOUS
<1> HIDE DEF ph
<1>4. relay' \in Relay /\ relay'.batch = relay.batch /\ relay'.phase = ph
    BY <1>2, <1>3 DEF IndInv, TypeOK, Relay
<1>5. UNCHANGED <<wire, lost>> \/ Deliver(Head(relay.batch))
    BY DEF Publish, PublishFails
<1>6. /\ wire' \in Seq(1..Len(rows)) /\ lost' \subseteq 1..Len(rows)
      /\ WireInv(rows, wire', index)
    BY <1>1, <1>5, DeliverKeeps DEF IndInv, TypeOK
<1>7. TypeOK'
    BY <1>1, <1>4, <1>6 DEF IndInv, TypeOK
<1>8. PhaseInv(relay'.phase, relay.batch)
    BY <1>1, <1>3, <1>4 DEF IndInv, PhaseInv
<1> QED
    BY <1>1, <1>4, <1>6, <1>7, <1>8 DEF IndInv

(* The oldest pending row is marked, and the flush goes on with the next. *)
LEMMA MarkKeeps ==
    ASSUME IndInv, relay.phase \in {"markPublished", "markFailed"},
           NEW status \in {"published", "failed"}, rows' = Marked(status),
           NextMessage, UNCHANGED <<wire, search, index, stops, lost>>
    PROVE  IndInv'
<1> DEFINE h == Head(relay.batch)
           b == relay.batch
           l == Len(rows)
<1>1. /\ b # <<>> /\ Len(b) > 0 /\ h = b[1] /\ h \in Open(rows) /\ h \in 1..l
      /\ \A i \in Open(rows) : rows[h].rev <= rows[i].rev
    BY HeadIsOldest
<1>2. /\ rows \in Seq(Row) /\ l \in Nat /\ b \in Seq(Nat) /\ Len(b) \in Nat
      /\ \A i \in 1..l : rows[i] \in Row /\ rows[i].rev \in Nat
    BY Shapes DEF IndInv
<1>3. /\ rows' \in Seq(Row) /\ Len(rows') = l
      /\ \A i \in 1..l : rows'[i].rev = rows[i].rev
      /\ \A i \in 1..l : i # h => rows'[i].status = rows[i].status
      /\ rows'[h].status # "pending"
    <2> DEFINE r == [rows[h] EXCEPT !.status = status]
    <2>1. r \in Row /\ r.rev = rows[h].rev /\ r.status = status
        BY <1>1, <1>2 DEF Row
    <2>2. rows' = [rows EXCEPT ![h] = r]
        BY DEF Marked
    <2> HIDE DEF r, h
    <2>3. /\ rows' \in Seq(Row) /\ Len(rows') = l /\ rows'[h] = r
          /\ \A i \in 1..l : i # h => rows'[i] = rows[i]
        BY <1>1, <1>2, <2>1, <2>2
    <2> QED
        BY <1>1, <2>1, <2>3
<1>4. /\ relay'.batch = Tail(b) /\ Tail(b) \in Seq(Nat) /\ Len(Tail(b)) = Len(b) - 1
      /\ \A n \in 1..Len(Tail(b)) : n + 1 \in 1..Len(b) /\ Tail(b)[n] = b[n + 1]
    BY <1>1, <1>2 DEF NextMessage
<1>5. relay' \in Relay /\ PhaseInv(relay'.phase, Tail(b))
    <2>1. relay'.phase = IF Len(b) > 1 THEN "publish" ELSE "idle"
        BY DEF NextMessage
    <2>2. relay' \in Relay
        BY <1>4 DEF NextMessage, Relay
    <2> QED
        <3> DEFINE k == Len(Tail(b))
        <3>1. k = Len(b) - 1 /\ Len(b) \in Nat
            BY <1>2, <1>4
        <3> HIDE DEF k, b
        <3>2. (relay'.phase \in {"idle", "down"}) <=> (k = 0)
            <4>1. CASE Len(b) > 1
                <5>1. k # 0
                    BY <3>1, <4>1
                <5>2. relay'.phase = "publish"
                    BY <2>1, <4>1
                <5> QED
                    BY <5>1, <5>2
            <4>2. CASE ~(Len(b) > 1)
                <5>1. k = 0
                    BY <1>1, <3>1, <4>2
                <5>2. relay'.phase = "idle"
                    BY <2>1, <4>2
                <5> QED
                    BY <5>1, <5>2
            <4> QED
                BY <4>1, <4>2
        <3> QED
            BY <2>2, <3>2, Zenon DEF PhaseInv, k
<1> HIDE DEF h, b
<1>6. Open(rows') = Open(rows) \ {h} /\ Open(rows) \subseteq 1..l
    BY <1>1, <1>3 DEF Open
<1>7. TypeOK'
    BY <1>3, <1>5 DEF IndInv, TypeOK
<1>8. RowsInv(rows')
    <2>1. \A i \in 1..l : rows'[i].rev <= l \div 3
        BY <1>3 DEF IndInv, RowsInv
    <2>2. ASSUME NEW i \in 1..l, NEW j \in 1..l,
                 rows'[i].rev < rows'[j].rev, rows'[j].status # "pending",
                 rows'[i].status = "pending"
          PROVE  FALSE
        <3>1. i # h /\ rows[i].status = "pending" /\ i \in Open(rows)
            BY <1>3, <2>2 DEF Open
        <3>2. CASE j = h
            BY <1>1, <1>2, <1>3, <2>2, <3>1, <3>2
        <3>3. CASE j # h
            BY <1>3, <2>2, <3>1, <3>3 DEF IndInv, RowsInv
        <3> QED
            BY <3>2, <3>3
    <2> QED
        BY <1>3, <2>1, <2>2 DEF RowsInv
<1>9. BatchInv(rows', Tail(b))
    <2>1. BatchInv(rows, b)
        BY DEF IndInv, b
    <2>2. 1 \in 1..Len(b)
        BY <1>1, <1>2
    <2>3. ASSUME NEW n \in 1..Len(Tail(b))
          PROVE  /\ Tail(b)[n] = b[n + 1] /\ n + 1 \in 1..Len(b) /\ 1 < n + 1
                 /\ Tail(b)[n] \in Open(rows') /\ Tail(b)[n] \in 1..l
        <3>1. n + 1 \in 1..Len(b) /\ Tail(b)[n] = b[n + 1] /\ 1 < n + 1
            BY <1>2, <1>4
        <3>2. b[n + 1] \in Open(rows) /\ b[n + 1] # h
            BY <1>1, <2>1, <2>2, <3>1 DEF BatchInv
        <3> QED
            BY <1>6, <3>1, <3>2
    <2>4. ASSUME NEW m \in 1..Len(Tail(b)), NEW n \in 1..Len(Tail(b)), m < n
          PROVE  Tail(b)[m] # Tail(b)[n] /\ rows'[Tail(b)[m]].rev <= rows'[Tail(b)[n]].rev
        <3>1. m + 1 < n + 1
            BY <1>2, <1>4, <2>4
        <3>2. b[m + 1] # b[n + 1] /\ rows[b[m + 1]].rev <= rows[b[n + 1]].rev
            BY <2>1, <2>3, <3>1 DEF BatchInv
        <3> QED
            BY <1>3, <2>3, <3>2
    <2>5. ASSUME NEW i \in Open(rows')
          PROVE  \/ \E n \in 1..Len(Tail(b)) : Tail(b)[n] = i
                 \/ \A n \in 1..Len(Tail(b)) : rows'[Tail(b)[n]].rev <= rows'[i].rev
        <3>1. i \in Open(rows) /\ i # h /\ i \in 1..l
            BY <1>6
        <3>2. CASE \E n \in 1..Len(b) : b[n] = i
            <4>1. PICK n \in 1..Len(b) : b[n] = i
                BY <3>2
            <4>2. n # 1
                BY <1>1, <3>1, <4>1
            <4>3. n - 1 \in 1..Len(Tail(b)) /\ (n - 1) + 1 = n
                BY <1>2, <1>4, <4>2
            <4> QED
                BY <2>3, <4>1, <4>3
        <3>3. CASE \A n \in 1..Len(b) : rows[b[n]].rev <= rows[i].rev
            BY <1>3, <2>3, <3>1, <3>3
        <3> QED
            BY <2>1, <3>1, <3>2, <3>3 DEF BatchInv
    <2> QED
        BY <2>3, <2>4, <2>5 DEF BatchInv
<1>10. WireInv(rows', wire, index)
    <2>1. WireInv(rows, wire, index)
        BY DEF IndInv
    <2> QED
        BY <1>3, <1>6, <2>1 DEF WireInv
<1> QED
    BY <1>4, <1>5, <1>7, <1>8, <1>9, <1>10 DEF IndInv

(* The batch is forgotten; its rows are still pending. *)
LEMMA StopStartRelayKeeps == ASSUME IndInv, StopRelay \/ StartRelay PROVE IndInv'
<1>1. UNCHANGED <<rows, wire, search, index, lost>> /\ stops' \in Nat
    BY DEF StopRelay, StartRelay, IndInv, TypeOK
<1>2. relay'.batch = <<>> /\ relay'.phase \in {"idle", "down"} /\ relay' \in Relay
    <2>1. CASE StopRelay
        BY <2>1 DEF StopRelay, Relay
    <2>2. CASE StartRelay
        BY <2>2 DEF StartRelay, Relay
    <2> QED
        BY <2>1, <2>2
<1>3. BatchInv(rows, <<>>) /\ PhaseInv(relay'.phase, <<>>)
    BY <1>2 DEF BatchInv, PhaseInv
<1>4. TypeOK'
    BY <1>1, <1>2 DEF IndInv, TypeOK
<1> QED
    BY <1>1, <1>2, <1>3, <1>4 DEF IndInv

-------------------------------------------------------------------------------
(* The search service *)

(* What is left on the wire, and what is pending, is not older than the     *)
(* message that leaves it, nor is that older than the index.                *)
LEMMA WireMoves ==
    ASSUME IndInv, wire # <<>>
    PROVE  /\ Head(wire) \in 1..Len(rows) /\ Tail(wire) \in Seq(1..Len(rows))
           /\ WireInv(rows, Tail(wire), index)
           /\ index.text <= rows[Head(wire)].rev /\ index.links <= rows[Head(wire)].rev
           /\ rows[Head(wire)].rev <= Len(rows) \div 3
           /\ \A n \in 1..Len(Tail(wire)) : rows[Head(wire)].rev <= rows[Tail(wire)[n]].rev
           /\ \A i \in Open(rows) : rows[Head(wire)].rev <= rows[i].rev
<1> DEFINE w == wire
           t == Tail(wire)
<1>1. w \in Seq(1..Len(rows)) /\ Len(w) \in Nat /\ Len(w) > 0 /\ 1 \in 1..Len(w)
    BY Shapes DEF IndInv
<1>2. /\ Head(w) = w[1] /\ t \in Seq(1..Len(rows)) /\ Len(t) = Len(w) - 1
      /\ \A n \in 1..Len(t) : n + 1 \in 1..Len(w) /\ t[n] = w[n + 1]
    BY <1>1
<1>3. WireInv(rows, w, index)
    BY DEF IndInv
<1> HIDE DEF w, t
<1>4. w[1] \in 1..Len(rows)
    BY <1>1, <1>3 DEF WireInv
<1>5. \A n \in 1..Len(t) : t[n] \in 1..Len(rows) /\ rows[w[1]].rev <= rows[t[n]].rev
    <2> TAKE n \in 1..Len(t)
    <2>1. n + 1 \in 1..Len(w) /\ t[n] = w[n + 1] /\ 1 < n + 1
        BY <1>1, <1>2
    <2> QED
        BY <1>1, <1>3, <2>1 DEF WireInv
<1>6. WireInv(rows, t, index)
    <2>1. \A m, n \in 1..Len(t) : m < n => rows[t[m]].rev <= rows[t[n]].rev
        <3> TAKE m, n \in 1..Len(t)
        <3> HAVE m < n
        <3>1. m + 1 \in 1..Len(w) /\ n + 1 \in 1..Len(w) /\ m + 1 < n + 1
            BY <1>1, <1>2
        <3> QED
            BY <1>2, <1>3, <3>1 DEF WireInv
    <2> QED
        BY <1>2, <1>3, <1>5, <2>1 DEF WireInv
<1>7. /\ index.text <= rows[w[1]].rev /\ index.links <= rows[w[1]].rev
      /\ \A i \in Open(rows) : rows[w[1]].rev <= rows[i].rev
    BY <1>1, <1>3 DEF WireInv
<1>8. rows[w[1]].rev <= Len(rows) \div 3
    BY <1>4 DEF IndInv, RowsInv
<1> QED
    BY <1>2, <1>4, <1>5, <1>6, <1>7, <1>8 DEF w, t

(* A projection moves the index forward, or leaves it. *)
LEMMA ProjectMoves ==
    ASSUME IndInv, Project
    PROVE  /\ index' \in Index
           /\ index'.text \in {index.text, rows[Head(wire)].rev}
           /\ index'.links \in {index.links, rows[Head(wire)].rev}
           /\ index'.text >= index.text /\ index'.links >= index.links
<1> DEFINE row == rows[Head(wire)]
<1>1. index.text <= row.rev /\ index.links <= row.rev /\ row.rev \in Nat
    BY WireMoves, Shapes DEF Project, IndInv
<1>2. index \in Index /\ index.text \in Nat /\ index.links \in Nat
    BY Shapes DEF IndInv, TypeOK
<1>3. index' = Projected(row)
    BY DEF Project
<1> HIDE DEF row
<1>4. \/ index' = [text |-> row.rev, links |-> row.rev]
      \/ index' = [index EXCEPT !.links = row.rev]
      \/ index' = index
    BY <1>3 DEF Projected
<1>5. CASE index' = [text |-> row.rev, links |-> row.rev]
    BY <1>1, <1>2, <1>5 DEF Index, row
<1>6. CASE index' = [index EXCEPT !.links = row.rev]
    BY <1>1, <1>2, <1>6 DEF Index, row
<1>7. CASE index' = index
    BY <1>1, <1>2, <1>7
<1> QED
    BY <1>4, <1>5, <1>6, <1>7

LEMMA ProjectKeeps == ASSUME IndInv, Project PROVE IndInv'
<1> DEFINE t == Tail(wire)
           v == rows[Head(wire)].rev
<1>1. wire # <<>> /\ wire' = t /\ UNCHANGED <<rows, relay, search, stops, lost>>
    BY DEF Project
<1>2. /\ t \in Seq(1..Len(rows)) /\ WireInv(rows, t, index)
      /\ v <= Len(rows) \div 3 /\ \A n \in 1..Len(t) : v <= rows[t[n]].rev
      /\ \A i \in Open(rows) : v <= rows[i].rev
    BY <1>1, WireMoves
<1>3. /\ index' \in Index /\ index'.text \in {index.text, v}
      /\ index'.links \in {index.links, v}
    BY ProjectMoves
<1> HIDE DEF t, v
<1>4. WireInv(rows, t, index')
    BY <1>2, <1>3 DEF WireInv
<1>5. TypeOK'
    BY <1>1, <1>2, <1>3 DEF IndInv, TypeOK
<1> QED
    BY <1>1, <1>4, <1>5 DEF IndInv

LEMMA ProjectFailsKeeps == ASSUME IndInv, ProjectFails PROVE IndInv'
<1>1. wire # <<>> /\ wire' = Tail(wire) /\ UNCHANGED <<rows, relay, search, index, stops>>
    BY DEF ProjectFails
<1>2. /\ Tail(wire) \in Seq(1..Len(rows)) /\ Head(wire) \in 1..Len(rows)
      /\ WireInv(rows, Tail(wire), index)
    BY <1>1, WireMoves
<1>3. lost' \subseteq 1..Len(rows)
    BY <1>2 DEF ProjectFails, Drop, IndInv, TypeOK
<1>4. TypeOK'
    BY <1>1, <1>2, <1>3 DEF IndInv, TypeOK
<1> QED
    BY <1>1, <1>2, <1>4 DEF IndInv

LEMMA StopStartSearchKeeps == ASSUME IndInv, StopSearch \/ StartSearch PROVE IndInv'
<1>1. UNCHANGED <<rows, relay, index>> /\ search' \in BOOLEAN /\ stops' \in Nat
    <2>1. CASE StopSearch
        <3>1. stops' \in Nat
            BY <2>1 DEF StopSearch, IndInv, TypeOK
        <3> QED
            BY <2>1, <3>1, Zenon DEF StopSearch
    <2>2. CASE StartSearch
        BY <2>2 DEF StartSearch, IndInv, TypeOK
    <2> QED
        BY <2>1, <2>2
<1>2. wire' = <<>> \/ wire' = wire
    BY DEF StopSearch, StartSearch
<1>3. \A n \in DOMAIN wire : wire[n] \in 1..Len(rows)
    BY DEF IndInv, TypeOK
<1>4. lost' \subseteq 1..Len(rows)
    <2>1. CASE StopSearch
        BY <1>3, <2>1 DEF StopSearch, Drop, IndInv, TypeOK
    <2>2. CASE StartSearch
        BY <2>2 DEF StartSearch, IndInv, TypeOK
    <2> QED
        BY <2>1, <2>2
<1>5. WireInv(rows, wire', index)
    BY <1>2 DEF IndInv, WireInv
<1>6. TypeOK'
    <2>1. wire' \in Seq(1..Len(rows))
        <3>1. <<>> \in Seq(1..Len(rows))
            OBVIOUS
        <3> QED
            BY <1>2, <3>1 DEF IndInv, TypeOK
    <2> QED
        BY <1>1, <1>4, <2>1 DEF IndInv, TypeOK
<1> QED
    BY <1>1, <1>5, <1>6 DEF IndInv

-------------------------------------------------------------------------------
LEMMA RelayStep == IndInv /\ [Next]_vars => IndInv'
<1> SUFFICES ASSUME IndInv, [Next]_vars PROVE IndInv'
    OBVIOUS
<1>1. CASE MarkPublished \/ MarkFailed
    BY <1>1, MarkKeeps DEF MarkPublished, MarkFailed
<1>2. CASE UNCHANGED vars
    BY <1>2 DEF vars, IndInv, TypeOK
<1> QED
    BY <1>1, <1>2, CommitKeeps, ClaimKeeps, PublishKeeps, StopStartRelayKeeps,
       ProjectKeeps, ProjectFailsKeeps, StopStartSearchKeeps DEF Next, Flush, Consume

(* The outbox, the batch, the wire and the index fit together in every      *)
(* reachable state, whichever processes stop and whatever fails.            *)
THEOREM RelayInvariance == Spec => []IndInv
<1>1. Init => IndInv
    BY RelayInit
<1>2. IndInv /\ [Next]_vars => IndInv'
    BY RelayStep
<1> QED
    BY <1>1, <1>2, PTL DEF Spec

(* Every variable keeps its shape. *)
THEOREM RelayTypeCorrect == Spec => []TypeOK
<1>1. IndInv => TypeOK
    BY DEF IndInv
<1> QED
    BY <1>1, RelayInvariance, PTL

(* flushOnce(): no event is published or given up before all events of      *)
(* older revisions are, across batches, failures and restarts.              *)
THEOREM OldEventsGoFirst == Spec => []OldestFirst
<1>1. IndInv => OldestFirst
    BY DEF IndInv, RowsInv, OldestFirst
<1> QED
    BY <1>1, RelayInvariance, PTL

(* The consumer of the search service never projects an older revision over *)
(* a newer one, although it compares nothing.                               *)
THEOREM IndexMovesForward == Spec => IndexNeverRegresses
<1> DEFINE Forward == index'.text >= index.text /\ index'.links >= index.links
<1>1. IndInv /\ [Next]_vars => [Forward]_vars
    <2> SUFFICES ASSUME IndInv, Next PROVE Forward
        OBVIOUS
    <2>1. CASE Project
        BY <2>1, ProjectMoves
    <2>2. CASE ~Project
        <3>1. index' = index
            BY <2>2 DEF Next, Flush, Consume, CommitRevision, ClaimPending, Publish,
               PublishFails, MarkPublished, MarkFailed, StopRelay, StartRelay,
               ProjectFails, StopSearch, StartSearch
        <3> QED
            BY <3>1, Shapes DEF IndInv
    <2> QED
        BY <2>1, <2>2
<1> HIDE DEF Forward
<1>2. Spec => [][Forward]_vars
    BY <1>1, RelayInvariance, PTL DEF Spec
<1> QED
    BY <1>2, PTL DEF IndexNeverRegresses, Forward

===============================================================================
