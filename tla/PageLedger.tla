------------------------------ MODULE PageLedger ------------------------------
(***************************************************************************)
(* What the page service promises about the history of one page: an        *)
(* append-only ledger of revisions in which the number of a revision is    *)
(* its position, a save or a restore extends the current draft head, and a *)
(* publication is a copy of the draft head at the moment it is made.       *)
(* Every step reads and writes the ledger atomically; PageService shows    *)
(* that its interleaved handlers look like this.                           *)
(***************************************************************************)
EXTENDS Naturals, Sequences

CONSTANT Docs          \* canonical document snapshots

VARIABLES log,         \* the revisions, in the order they were accepted
          draft,       \* number of the draft head, 0 before the page exists
          published    \* number of the published head, 0 if never published

vars == <<log, draft, published>>

Entry(kind, base, doc) == [kind |-> kind, base |-> base, doc |-> doc]

Init ==
    /\ log = <<>>
    /\ draft = 0
    /\ published = 0

Create ==
    /\ log = <<>>
    /\ \E d \in Docs : log' = <<Entry("draft", 0, d)>>
    /\ draft' = 1
    /\ UNCHANGED published

Save ==
    /\ log # <<>>
    /\ \E d \in Docs : log' = Append(log, Entry("draft", draft, d))
    /\ draft' = Len(log) + 1
    /\ UNCHANGED published

Publish ==
    /\ log # <<>>
    /\ log' = Append(log, Entry("published", draft, log[draft].doc))
    /\ published' = Len(log) + 1
    /\ UNCHANGED draft

Next == Create \/ Save \/ Publish

Spec == Init /\ [][Next]_vars
===============================================================================
