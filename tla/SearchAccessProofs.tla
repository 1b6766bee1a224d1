-------------------------- MODULE SearchAccessProofs --------------------------
(***************************************************************************)
(* Proofs about SearchAccess, for any pages, roles and limits and any      *)
(* number of changes while the request runs.                               *)
(***************************************************************************)
EXTENDS SearchAccess, FiniteSetTheorems, SequenceTheorems, TLAPS

(* Below, j is the request, c tells whether there is a connection to the    *)
(* auth service, r is the role of the user and g are the grants.            *)

(* The history of the request covers the present. *)
HistoryInv(j, r, g) ==
    /\ \A a \in j.permitted : Permits(r, a)
    /\ j.granted \subseteq Covered(g)
    /\ Viewable(r, g) \subseteq j.viewable

(* A membership that was read permits what the role has permitted all the   *)
(* time; if it permits to view, every page could be viewed at that time.    *)
ReadingInv(j, c) ==
    j.phase = "grants" =>
        /\ c /\ j.stage \in {"gateway", "require", "filter"}
        /\ Permits(j.membership, "page.view") => j.viewable = Pages
        /\ \A a \in j.permitted : Permits(j.membership, a)

(* Decisions stand at the position of their pages: an approved page could   *)
(* be viewed, and a user who was entitled all the time is approved.         *)
DecisionsInv(j) ==
    /\ j.stage \in {"gateway", "require", "query", "related"} => Len(j.decisions) = 0
    /\ j.stage = "filter" => Len(j.decisions) < Len(References(j))
    /\ \A k \in 1..Len(j.decisions) :
         /\ k <= Len(References(j))
         /\ j.decisions[k] => References(j)[k] \in j.viewable
         /\ ~j.decisions[k] =>
              "page.view" \notin j.permitted /\ References(j)[k] \notin j.granted

(* Entitled all the time, by the role or by a grant. *)
Entitled(j, a, p) ==
    a \in j.permitted \/ (a = "page.view" /\ p \in j.granted)

(* What the answer promises, and that there is none before the end. *)
AnswerInv(j, c) ==
    /\ j.op = "search" <=> j.page = NoPage
    /\ j.stage # "done" => j.shown = {} /\ j.outcome = "none"
    /\ j.shown \subseteq j.viewable
    /\ c =>
         /\ j.outcome = "forbidden" => ~Entitled(j, RequiredAction(j), j.page)
         /\ j.outcome = "ok" =>
              \A k \in 1..Len(References(j)) :
                  Entitled(j, "page.view", References(j)[k]) =>
                      References(j)[k] \in j.shown

JobInv(j, c, r, g) ==
    HistoryInv(j, r, g) /\ ReadingInv(j, c) /\ DecisionsInv(j) /\ AnswerInv(j, c)

IndInv ==
    /\ TypeOK
    /\ JobInv(job, checker, role, grants)

-------------------------------------------------------------------------------
(* The policy *)

LEMMA NoRoleNoPermission == \A a : ~Permits(NoRole, a)
    BY DEF NoRole, Permits

LEMMA ViewableByRole ==
    ASSUME NEW r, NEW g, Permits(r, "page.view")
    PROVE  Viewable(r, g) = Pages
    BY DEF Viewable, EvaluateAuthorization

LEMMA ViewingDecision ==
    ASSUME NEW r, NEW g, NEW p \in Pages
    PROVE  /\ EvaluateAuthorization(r, g[p], "page.view") <=> p \in Viewable(r, g)
           /\ EvaluateAuthorization(r, g[p], "page.view")
                <=> Permits(r, "page.view") \/ p \in Covered(g)
<1>1. EvaluateAuthorization(r, g[p], "page.view") <=> p \in Viewable(r, g)
    BY DEF Viewable
<1>2. p \in Covered(g) <=> g[p] \cap {"view", "edit"} # {}
    BY NoRoleNoPermission DEF Covered, EvaluateAuthorization
<1>3. EvaluateAuthorization(r, g[p], "page.view")
        <=> Permits(r, "page.view") \/ g[p] \cap {"view", "edit"} # {}
    BY DEF EvaluateAuthorization
<1> QED
    BY <1>1, <1>2, <1>3

-------------------------------------------------------------------------------
(* Sequences *)

(* The references are the backlinks and then the related pages. *)
LEMMA ReferencesOK ==
    ASSUME NEW j \in Job
    PROVE  /\ References(j) \in Seq(Pages)
           /\ Len(j.backlinks) \in Nat /\ Len(j.related) \in Nat
           /\ Len(References(j)) = Len(j.backlinks) + Len(j.related)
           /\ \A k \in 1..Len(References(j)) : References(j)[k] \in Pages
           /\ \A k \in 1..Len(References(j)) : References(j)[k] =
                IF k <= Len(j.backlinks) THEN j.backlinks[k]
                ELSE j.related[k - Len(j.backlinks)]
<1>1. j.backlinks \in Seq(Pages) /\ j.related \in Seq(Pages)
    BY DEF Job
<1>2. /\ j.backlinks \o j.related \in Seq(Pages)
      /\ Len(j.backlinks \o j.related) = Len(j.backlinks) + Len(j.related)
      /\ \A i \in 1..(Len(j.backlinks) + Len(j.related)) : (j.backlinks \o j.related)[i] =
           IF i <= Len(j.backlinks) THEN j.backlinks[i]
           ELSE j.related[i - Len(j.backlinks)]
    BY <1>1, ConcatProperties, Zenon
<1>3. /\ References(j) \in Seq(Pages)
      /\ Len(References(j)) = Len(j.backlinks) + Len(j.related)
      /\ \A k \in 1..Len(References(j)) : References(j)[k] =
           IF k <= Len(j.backlinks) THEN j.backlinks[k]
           ELSE j.related[k - Len(j.backlinks)]
    BY <1>2, Zenon DEF References
<1>4. \A k \in 1..Len(References(j)) : References(j)[k] \in Pages
    <2> DEFINE R == References(j)
    <2>1. R \in Seq(Pages)
        BY <1>3, Zenon
    <2> HIDE DEF R
    <2>2. \A k \in 1..Len(R) : R[k] \in Pages
        BY <2>1
    <2> QED
        BY <2>2 DEF R
<1>5. Len(j.backlinks) \in Nat /\ Len(j.related) \in Nat
    BY <1>1
<1> QED
    BY <1>3, <1>4, <1>5, Zenon

(* The rows of a query, in any order. *)
LEMMA OrderedSets ==
    ASSUME NEW S \in SUBSET Pages
    PROVE  /\ SetToSeqs(S) \subseteq Seq(Pages)
           /\ SetToAllKPermutations(S) \subseteq Seq(Pages)
<1>1. ASSUME NEW T \in SUBSET Pages PROVE SetToSeqs(T) \subseteq Seq(Pages)
    <2>1. Cardinality(T) \in Nat
        BY ConstantsAssumption, FS_Subset, FS_CardinalityType
    <2>2. \A f \in [1..Cardinality(T) -> T] : f \in Seq(Pages)
        BY <2>1
    <2> QED
        BY <2>2 DEF SetToSeqs
<1> QED
    BY <1>1 DEF SetToAllKPermutations

(* The answer holds the pages whose decision is an approval: positions and  *)
(* offsets agree.                                                           *)
LEMMA FilteredOK ==
    ASSUME NEW j \in Job, Len(j.decisions) = Len(References(j))
    PROVE  /\ \A p \in Filtered(j) : \E k \in 1..Len(References(j)) :
                j.decisions[k] /\ p = References(j)[k]
           /\ \A k \in 1..Len(References(j)) :
                j.decisions[k] => References(j)[k] \in Filtered(j)
<1> DEFINE R == References(j)
           m == Len(j.backlinks)
           n == Len(j.related)
           D == j.decisions
<1>1. /\ m \in Nat /\ n \in Nat /\ Len(R) = m + n /\ Len(D) = m + n
      /\ \A k \in 1..Len(R) :
           R[k] = IF k <= m THEN j.backlinks[k] ELSE j.related[k - m]
    BY ReferencesOK
<1>2. Filtered(j) = {j.backlinks[i] : i \in {k \in 1..m : k + 0 <= Len(D) /\ D[k + 0]}}
               \cup {j.related[i] : i \in {k \in 1..n : k + m <= Len(D) /\ D[k + m]}}
    BY DEF Filtered, Approved
<1> HIDE DEF R, D, m, n
<1>3. ASSUME NEW p \in Filtered(j) PROVE \E k \in 1..Len(R) : D[k] /\ p = R[k]
    <2>1. CASE p \in {j.backlinks[i] : i \in {k \in 1..m : k + 0 <= Len(D) /\ D[k + 0]}}
        <3>1. PICK i \in 1..m : D[i + 0] /\ p = j.backlinks[i]
            BY <2>1
        <3>2. i + 0 = i /\ i \in 1..Len(R) /\ i <= m
            BY <1>1
        <3>3. R[i] = j.backlinks[i]
            BY <1>1, <3>2
        <3> QED
            BY <3>1, <3>2, <3>3
    <2>2. CASE p \in {j.related[i] : i \in {k \in 1..n : k + m <= Len(D) /\ D[k + m]}}
        <3>1. PICK i \in 1..n : D[i + m] /\ p = j.related[i]
            BY <2>2
        <3>2. (i + m) - m = i /\ i + m \in 1..Len(R) /\ ~(i + m <= m)
            BY <1>1
        <3>3. R[i + m] = j.related[i]
            BY <1>1, <3>2
        <3> QED
            BY <3>1, <3>2, <3>3
    <2> QED
        BY <1>2, <2>1, <2>2
<1>4. ASSUME NEW k \in 1..Len(R), D[k] PROVE R[k] \in Filtered(j)
    <2>1. CASE k <= m
        <3>1. k \in 1..m /\ k + 0 = k /\ k + 0 <= Len(D) /\ R[k] = j.backlinks[k]
            BY <1>1, <2>1
        <3> QED
            BY <1>2, <1>4, <3>1
    <2>2. CASE ~(k <= m)
        <3>1. k - m \in 1..n /\ (k - m) + m = k /\ (k - m) + m <= Len(D)
              /\ R[k] = j.related[k - m]
            BY <1>1, <2>2
        <3> QED
            BY <1>2, <1>4, <3>1
    <2> QED
        BY <2>1, <2>2
<1> QED
    BY <1>3, <1>4 DEF R, D

-------------------------------------------------------------------------------
(* What a request is asked, and its history, stay the same in a step of it. *)
SameRequest(i, j) ==
    /\ i.op = j.op /\ i.page = j.page
    /\ i.permitted = j.permitted /\ i.granted = j.granted
    /\ i.viewable = j.viewable

LEMMA HistoryKept ==
    ASSUME NEW i, NEW j, NEW r, NEW g, SameRequest(i, j), HistoryInv(j, r, g)
    PROVE  HistoryInv(i, r, g)
    BY DEF SameRequest, HistoryInv

LEMMA DoneOK ==
    ASSUME NEW j \in Job, NEW o \in {"ok", "forbidden", "error"}
    PROVE  /\ Done(j, o) \in Job /\ SameRequest(Done(j, o), j)
           /\ Done(j, o).stage = "done" /\ Done(j, o).phase = "membership"
           /\ Done(j, o).outcome = o /\ Done(j, o).shown = j.shown
           /\ Done(j, o).backlinks = j.backlinks /\ Done(j, o).related = j.related
           /\ Done(j, o).decisions = j.decisions
<1>1. Done(j, o) \in Job
    BY DEF Done, Job
<1>2. SameRequest(Done(j, o), j)
    BY DEF Done, Job, SameRequest
<1> QED
    BY <1>1, <1>2 DEF Done, Job

(* Positions of decisions, whatever the stage. *)
Placed(j) ==
    \A k \in 1..Len(j.decisions) :
        /\ k <= Len(References(j))
        /\ j.decisions[k] => References(j)[k] \in j.viewable
        /\ ~j.decisions[k] =>
             "page.view" \notin j.permitted /\ References(j)[k] \notin j.granted

(* A request ends with an answer that keeps its promises. *)
LEMMA DoneKeeps ==
    ASSUME IndInv, NEW j \in Job, SameRequest(j, job), Placed(j),
           NEW o \in {"ok", "forbidden", "error"}, job' = Done(j, o),
           UNCHANGED <<checker, access, index, changes>>,
           j.shown \subseteq j.viewable,
           checker =>
               /\ o = "forbidden" => ~Entitled(j, RequiredAction(j), j.page)
               /\ o = "ok" =>
                    \A k \in 1..Len(References(j)) :
                        Entitled(j, "page.view", References(j)[k]) =>
                            References(j)[k] \in j.shown
    PROVE  IndInv'
<1> DEFINE d == Done(j, o)
<1>1. /\ d \in Job /\ SameRequest(d, j) /\ d.stage = "done" /\ d.phase = "membership"
      /\ d.outcome = o /\ d.shown = j.shown /\ d.backlinks = j.backlinks
      /\ d.related = j.related /\ d.decisions = j.decisions
    BY DoneOK
<1> HIDE DEF d
<1>2. References(d) = References(j) /\ RequiredAction(d) = RequiredAction(j)
    BY <1>1 DEF References, RequiredAction, SameRequest
<1>3. SameRequest(d, job)
    BY <1>1 DEF SameRequest
<1>4. HistoryInv(d, role, grants)
    BY <1>3, HistoryKept DEF IndInv, JobInv
<1>5. ReadingInv(d, checker)
    BY <1>1 DEF ReadingInv
<1>6. DecisionsInv(d)
    BY <1>1, <1>2 DEF DecisionsInv, Placed, SameRequest
<1>7. AnswerInv(d, checker)
    <2>1. d.op = "search" <=> d.page = NoPage
        BY <1>3 DEF IndInv, JobInv, AnswerInv, SameRequest
    <2>2. \A a, p : Entitled(d, a, p) <=> Entitled(j, a, p)
        BY <1>1 DEF Entitled, SameRequest
    <2> QED
        BY <1>1, <1>2, <2>1, <2>2 DEF AnswerInv, SameRequest
<1>8. job' = d /\ UNCHANGED <<checker, role, grants, docs, edges, changes>>
    BY DEF d, access, index
<1>9. TypeOK'
    BY <1>1, <1>8 DEF IndInv, TypeOK
<1> QED
    BY <1>4, <1>5, <1>6, <1>7, <1>8, <1>9 DEF IndInv, JobInv

(* A request goes on, without an answer yet. *)
LEMMA GoesOn ==
    ASSUME IndInv, NEW j \in Job, SameRequest(j, job), DecisionsInv(j),
           ReadingInv(j, checker), job' = j, j.shown = {}, j.outcome = "none",
           UNCHANGED <<checker, access, index, changes>>
    PROVE  IndInv'
<1>1. UNCHANGED <<checker, role, grants, docs, edges, changes>>
    BY DEF access, index
<1>2. HistoryInv(j, role, grants)
    BY HistoryKept DEF IndInv, JobInv
<1>3. AnswerInv(j, checker)
    BY DEF IndInv, JobInv, AnswerInv, SameRequest
<1>4. TypeOK'
    BY <1>1 DEF IndInv, TypeOK
<1> QED
    BY <1>1, <1>2, <1>3, <1>4 DEF IndInv, JobInv

-------------------------------------------------------------------------------
LEMMA AccessInit == Init => IndInv
<1> SUFFICES ASSUME Init PROVE IndInv
    OBVIOUS
<1>1. PICK page \in Pages \cup {NoPage} :
        job = NewJob(IF page = NoPage THEN "search" ELSE "backlinks", page)
    BY DEF Init
<1> DEFINE op == IF page = NoPage THEN "search" ELSE "backlinks"
           P == {a \in ReaderActions : Permits(role, a)}
<1>2. op \in {"search", "backlinks"} /\ (op = "search" <=> page = NoPage)
    OBVIOUS
<1>3. Covered(grants) \subseteq Pages /\ Viewable(role, grants) \subseteq Pages
      /\ P \subseteq ReaderActions /\ \A a \in P : Permits(role, a)
    BY DEF Covered, Viewable
<1> HIDE DEF op, P
<1>4. /\ job.op = op /\ job.page = page
      /\ job.stage = "gateway" /\ job.phase = "membership"
      /\ job.backlinks = <<>> /\ job.related = <<>> /\ job.decisions = <<>>
      /\ job.shown = {} /\ job.outcome = "none" /\ job.permitted = P
      /\ job.granted = Covered(grants) /\ job.viewable = Viewable(role, grants)
    BY <1>1 DEF NewJob, op, P
<1>5. job \in Job
    BY <1>1, <1>2, <1>3 DEF Job, NewJob, op, P, NoRole
<1>6. TypeOK
    BY <1>5, ConstantsAssumption DEF Init, TypeOK
<1>7. HistoryInv(job, role, grants) /\ ReadingInv(job, checker)
    BY <1>2, <1>3, <1>4 DEF HistoryInv, ReadingInv
<1>8. DecisionsInv(job) /\ AnswerInv(job, checker)
    BY <1>2, <1>4 DEF DecisionsInv, AnswerInv
<1> QED
    BY <1>6, <1>7, <1>8 DEF IndInv, JobInv

-------------------------------------------------------------------------------
(* The auth service *)

LEMMA ListMembershipsKeeps == ASSUME IndInv, ListMemberships PROVE IndInv'
<1> DEFINE j == [job EXCEPT !.phase = "grants", !.membership = role]
<1>1. /\ checker /\ job.stage \in {"gateway", "require", "filter"} /\ job' = j
      /\ UNCHANGED <<checker, access, index, changes>>
    BY DEF ListMemberships, Asking
<1>2. job \in Job /\ role \in Roles \cup {NoRole} /\ JobInv(job, checker, role, grants)
    BY DEF IndInv, TypeOK
<1>3. j \in Job
    BY <1>2 DEF Job
<1>4. /\ SameRequest(j, job) /\ j.stage = job.stage /\ j.membership = role
      /\ j.decisions = job.decisions /\ j.backlinks = job.backlinks
      /\ j.related = job.related /\ j.shown = job.shown /\ j.outcome = job.outcome
    BY <1>2 DEF Job, SameRequest
<1> HIDE DEF j
<1>5. j.shown = {} /\ j.outcome = "none"
    BY <1>1, <1>2, <1>4 DEF JobInv, AnswerInv
<1>6. DecisionsInv(j)
    BY <1>2, <1>4 DEF JobInv, DecisionsInv, References, SameRequest
<1>7. ReadingInv(j, checker)
    <2>1. Permits(role, "page.view") => job.viewable = Pages
        BY <1>2, ViewableByRole DEF JobInv, HistoryInv, Job
    <2>2. \A a \in job.permitted : Permits(role, a)
        BY <1>2 DEF JobInv, HistoryInv
    <2> QED
        BY <1>1, <1>4, <2>1, <2>2 DEF ReadingInv, SameRequest
<1> QED
    BY <1>1, <1>3, <1>4, <1>5, <1>6, <1>7, GoesOn

(* The gateway or the service goes on, or refuses the request. *)
LEMMA RequiredKeeps ==
    ASSUME IndInv, job.stage \in {"gateway", "require"}, NEW allowed \in BOOLEAN,
           job' = Required(job, allowed), UNCHANGED <<checker, access, index, changes>>,
           ~allowed /\ checker =>
               ~Entitled(job, RequiredAction(job), job.page)
    PROVE  IndInv'
<1>1. job \in Job /\ JobInv(job, checker, role, grants)
    BY DEF IndInv, TypeOK
<1>2. CASE ~allowed
    <2>1. SameRequest(job, job) /\ Placed(job)
        BY <1>1 DEF SameRequest, JobInv, DecisionsInv, Placed
    <2>2. job' = Done(job, "forbidden")
        BY <1>2 DEF Required
    <2>3. job.shown \subseteq job.viewable
        BY <1>1 DEF JobInv, AnswerInv
    <2> QED
        BY <1>1, <1>2, <2>1, <2>2, <2>3, DoneKeeps
<1>3. CASE allowed
    <2> DEFINE st == IF job.stage = "gateway" THEN "require" ELSE "query"
               j == [job EXCEPT !.stage = st, !.phase = "membership",
                                !.membership = NoRole]
    <2>1. job' = j
        BY <1>1, <1>3 DEF Required, Job
    <2>2. st \in {"require", "query"}
        OBVIOUS
    <2> HIDE DEF st
    <2>3. j \in Job
        BY <1>1, <2>2 DEF Job
    <2>4. /\ SameRequest(j, job) /\ j.stage = st /\ j.phase = "membership"
          /\ j.decisions = job.decisions /\ j.shown = job.shown
          /\ j.outcome = job.outcome
        BY <1>1 DEF Job, SameRequest
    <2> HIDE DEF j
    <2>5. j.shown = {} /\ j.outcome = "none"
        BY <1>1, <2>4 DEF JobInv, AnswerInv
    <2>6. Len(job.decisions) = 0
        BY <1>1 DEF JobInv, DecisionsInv
    <2>7. DecisionsInv(j) /\ ReadingInv(j, checker)
        BY <2>2, <2>4, <2>6 DEF DecisionsInv, ReadingInv
    <2> QED
        BY <2>1, <2>3, <2>4, <2>5, <2>7, GoesOn
<1> QED
    BY <1>2, <1>3

(* One more decision, at the position of the page it is about. *)
LEMMA DecidedKeeps ==
    ASSUME IndInv, job.stage = "filter", NEW allowed \in BOOLEAN,
           job' = Decided(job, allowed), UNCHANGED <<checker, access, index, changes>>,
           allowed => CheckedPage(job) \in job.viewable,
           ~allowed => "page.view" \notin job.permitted
                       /\ CheckedPage(job) \notin job.granted
    PROVE  IndInv'
<1> DEFINE ds == Append(job.decisions, allowed)
           n == Len(job.decisions)
           R == References(job)
           j == [job EXCEPT !.decisions = ds, !.phase = "membership",
                            !.membership = NoRole]
<1>1. job \in Job /\ JobInv(job, checker, role, grants)
    BY DEF IndInv, TypeOK
<1>2. job.decisions \in Seq(BOOLEAN) /\ n \in Nat
    BY <1>1 DEF Job
<1>3. /\ ds \in Seq(BOOLEAN) /\ Len(ds) = n + 1 /\ ds[n + 1] = allowed
      /\ \A k \in 1..n : ds[k] = job.decisions[k]
    BY <1>2
<1>4. n < Len(R) /\ Len(R) \in Nat /\ \A k \in 1..Len(R) : R[k] \in Pages
    <2>1. n < Len(R)
        BY <1>1 DEF JobInv, DecisionsInv
    <2>2. R \in Seq(Pages) /\ \A k \in 1..Len(R) : R[k] \in Pages
        BY <1>1, ReferencesOK, Zenon
    <2> HIDE DEF R
    <2>3. Len(R) \in Nat
        BY <2>2
    <2> QED
        BY <2>1, <2>2, <2>3
<1>5. CheckedPage(job) = R[n + 1]
    BY DEF CheckedPage
<1> HIDE DEF ds
<1>6. j \in Job
    BY <1>1, <1>3 DEF Job
<1>7. /\ SameRequest(j, job) /\ j.stage = "filter" /\ j.phase = "membership"
      /\ j.decisions = ds /\ j.backlinks = job.backlinks /\ j.related = job.related
      /\ j.shown = job.shown /\ j.outcome = job.outcome
    BY <1>1 DEF Job, SameRequest
<1>8. job' = IF Len(j.decisions) < Len(References(j)) THEN j
             ELSE Done([j EXCEPT !.shown = Filtered(j)], "ok")
    BY <1>1 DEF Decided, ds, Job
<1> HIDE DEF j
<1>9. References(j) = R
    BY <1>7 DEF References
<1> HIDE DEF R
<1>10. Placed(j)
    <2> SUFFICES ASSUME NEW k \in 1..(n + 1)
                 PROVE  /\ k <= Len(R)
                        /\ ds[k] => R[k] \in job.viewable
                        /\ ~ds[k] => "page.view" \notin job.permitted
                                     /\ R[k] \notin job.granted
        BY <1>3, <1>7, <1>9 DEF Placed, SameRequest
    <2>1. CASE k = n + 1
        BY <1>2, <1>3, <1>4, <1>5, <2>1
    <2>2. CASE k \in 1..n
        BY <1>1, <1>3, <2>2 DEF JobInv, DecisionsInv, R
    <2> QED
        BY <1>2, <2>1, <2>2
<1>11. CASE Len(ds) < Len(R)
    <2>1. job' = j
        BY <1>7, <1>8, <1>9, <1>11
    <2>2. j.shown = {} /\ j.outcome = "none"
        BY <1>1, <1>7 DEF JobInv, AnswerInv
    <2>3. DecisionsInv(j) /\ ReadingInv(j, checker)
        BY <1>7, <1>9, <1>10, <1>11 DEF DecisionsInv, ReadingInv, Placed
    <2> QED
        BY <1>6, <1>7, <2>1, <2>2, <2>3, GoesOn
<1>12. CASE ~(Len(ds) < Len(R))
    <2> DEFINE i == [j EXCEPT !.shown = Filtered(j)]
    <2>1. Len(j.decisions) = Len(References(j))
        BY <1>2, <1>3, <1>4, <1>7, <1>9, <1>12
    <2>2. \A p \in Filtered(j) : \E k \in 1..Len(R) : ds[k] /\ p = R[k]
        BY <1>6, <1>7, <1>9, <2>1, FilteredOK
    <2>3. \A k \in 1..Len(R) : ds[k] => R[k] \in Filtered(j)
        BY <1>6, <1>7, <1>9, <2>1, FilteredOK
    <2>4. Filtered(j) \subseteq job.viewable /\ Filtered(j) \subseteq Pages
        BY <1>4, <1>7, <1>9, <1>10, <2>1, <2>2 DEF Placed, SameRequest
    <2>5. i \in Job
        BY <1>6, <2>4 DEF Job
    <2>6. /\ SameRequest(i, j) /\ i.decisions = ds /\ i.backlinks = j.backlinks
          /\ i.related = j.related /\ i.shown = Filtered(j)
        BY <1>6, <1>7 DEF Job, SameRequest
    <2>7. job' = Done(i, "ok")
        BY <1>7, <1>8, <1>9, <1>12
    <2> HIDE DEF i
    <2>8. SameRequest(i, job) /\ References(i) = R
        BY <1>7, <1>9, <2>6 DEF SameRequest, References
    <2>9. Placed(i)
        BY <1>7, <1>9, <1>10, <2>6, <2>8 DEF Placed, SameRequest
    <2>10. \A k \in 1..Len(R) :
             Entitled(i, "page.view", R[k]) => R[k] \in i.shown
        BY <1>7, <1>9, <2>1, <2>3, <2>6, <2>8, <2>9 DEF Placed, Entitled
    <2> QED
        BY <2>4, <2>5, <2>6, <2>7, <2>8, <2>9, <2>10, DoneKeeps DEF SameRequest
<1> QED
    BY <1>11, <1>12

LEMMA ListPageGrantsKeeps == ASSUME IndInv, ListPageGrants PROVE IndInv'
<1> DEFINE page == CheckedPage(job)
           action == CheckedAction(job)
           permissions == IF page = NoPage THEN {} ELSE grants[page]
           allowed == EvaluateAuthorization(job.membership, permissions, action)
<1>1. /\ checker /\ job.phase = "grants"
      /\ job' = IF job.stage = "filter" THEN Decided(job, allowed)
                ELSE Required(job, allowed)
      /\ UNCHANGED <<checker, access, index, changes>>
    BY DEF ListPageGrants
<1>2. job \in Job /\ JobInv(job, checker, role, grants)
    BY DEF IndInv, TypeOK
<1>3. /\ job.stage \in {"gateway", "require", "filter"}
      /\ Permits(job.membership, "page.view") => job.viewable = Pages
      /\ \A a \in job.permitted : Permits(job.membership, a)
    BY <1>1, <1>2 DEF JobInv, ReadingInv
<1>4. job.granted \subseteq Covered(grants) /\ Viewable(role, grants) \subseteq job.viewable
    BY <1>2 DEF JobInv, HistoryInv
<1>5. Covered(grants) \subseteq Viewable(role, grants) /\ Covered(grants) \subseteq Pages
    BY ViewingDecision DEF Covered, Viewable
<1>6. allowed \in BOOLEAN
    BY DEF EvaluateAuthorization, Permits
<1>7. CASE job.stage = "filter"
    <2>1. action = "page.view" /\ page \in Pages
        <3> DEFINE R == References(job)
        <3>1. Len(job.decisions) < Len(R) /\ job.decisions \in Seq(BOOLEAN)
            BY <1>2, <1>7 DEF JobInv, DecisionsInv, Job
        <3>2. R \in Seq(Pages)
            BY <1>2, ReferencesOK, Zenon
        <3> HIDE DEF R
        <3>3. R[Len(job.decisions) + 1] \in Pages
            BY <3>1, <3>2
        <3> QED
            BY <1>7, <3>3 DEF CheckedPage, CheckedAction, R
    <2>2. page # NoPage
        BY <2>1, ConstantsAssumption
    <2>3. permissions = grants[page]
        BY <2>2
    <2>4. job' = Decided(job, allowed)
        BY <1>1, <1>7
    <2>5. allowed <=> Permits(job.membership, "page.view") \/ page \in Covered(grants)
        BY <2>1, <2>3, ViewingDecision
    <2> HIDE DEF allowed, permissions, action, page
    <2>6. allowed => page \in job.viewable
        BY <1>3, <1>4, <1>5, <2>1, <2>5
    <2>7. ~allowed => "page.view" \notin job.permitted /\ page \notin job.granted
        BY <1>3, <1>4, <2>5
    <2> QED
        BY <1>1, <1>6, <1>7, <2>4, <2>6, <2>7, DecidedKeeps DEF page
<1>8. CASE job.stage # "filter"
    <2>1. page = job.page /\ action = RequiredAction(job)
        BY <1>8 DEF CheckedPage, CheckedAction
    <2>2. job' = Required(job, allowed)
        BY <1>1, <1>8
    <2>3. ~allowed => action \notin job.permitted
        BY <1>3 DEF EvaluateAuthorization
    <2>4. ~allowed /\ action = "page.view" => page \notin job.granted
        <3>1. CASE page \in Pages
            <4>1. permissions = grants[page]
                BY <3>1, ConstantsAssumption
            <4> QED
                BY <1>4, <3>1, <4>1, ViewingDecision
        <3>2. CASE page \notin Pages
            BY <1>4, <1>5, <3>2
        <3> QED
            BY <3>1, <3>2
    <2> HIDE DEF allowed, permissions, action, page
    <2>5. ~allowed => ~Entitled(job, RequiredAction(job), job.page)
        BY <2>1, <2>3, <2>4 DEF Entitled
    <2> QED
        BY <1>1, <1>3, <1>6, <1>8, <2>2, <2>5, RequiredKeeps
<1> QED
    BY <1>7, <1>8

LEMMA DecideByRolesKeeps == ASSUME IndInv, DecideByRoles PROVE IndInv'
<1> DEFINE allowed == Allowed(TokenRoles, RequiredAction(job))
<1>1. /\ ~checker /\ job.stage \in {"gateway", "require"}
      /\ job' = Required(job, allowed)
      /\ UNCHANGED <<checker, access, index, changes>>
    BY DEF DecideByRoles
<1>2. allowed \in BOOLEAN
    BY DEF Allowed
<1> HIDE DEF allowed
<1> QED
    BY <1>1, <1>2, RequiredKeeps

-------------------------------------------------------------------------------
(* The index *)

(* What was found is filtered, or answered at once when it is nothing. *)
LEMMA ToFilterKeeps ==
    ASSUME IndInv, NEW j \in Job, SameRequest(j, job), job.stage \in {"query", "related"},
           j.decisions = job.decisions, j.shown = job.shown, j.outcome = job.outcome,
           j.phase = job.phase, job' = ToFilter(j),
           UNCHANGED <<checker, access, index, changes>>
    PROVE  IndInv'
<1>1. job \in Job /\ JobInv(job, checker, role, grants)
    BY DEF IndInv, TypeOK
<1>2. /\ Len(j.decisions) = 0 /\ j.shown = {} /\ j.outcome = "none"
      /\ j.phase # "grants"
    BY <1>1 DEF JobInv, DecisionsInv, AnswerInv, ReadingInv
<1>3. References(j) \in Seq(Pages)
    BY ReferencesOK, Zenon
<1>4. CASE References(j) = <<>>
    <2>1. job' = Done(j, "ok") /\ Len(References(j)) = 0
        BY <1>4 DEF ToFilter
    <2>2. Placed(j)
        BY <1>2 DEF Placed
    <2>3. \A k \in 1..Len(References(j)) : FALSE
        BY <2>1
    <2> QED
        BY <1>2, <2>1, <2>2, <2>3, DoneKeeps
<1>5. CASE References(j) # <<>>
    <2> DEFINE i == [j EXCEPT !.stage = "filter"]
               R == References(j)
    <2>1. job' = i
        BY <1>5 DEF ToFilter
    <2>2. R \in Seq(Pages) /\ R # <<>>
        BY <1>3, <1>5
    <2>3. i \in Job
        BY DEF Job
    <2>4. /\ SameRequest(i, j) /\ i.stage = "filter" /\ i.phase = j.phase
          /\ i.decisions = j.decisions /\ i.backlinks = j.backlinks
          /\ i.related = j.related /\ i.shown = j.shown /\ i.outcome = j.outcome
        BY DEF Job, SameRequest
    <2> HIDE DEF i
    <2>5. SameRequest(i, job) /\ References(i) = R
        BY <2>4 DEF SameRequest, References
    <2> HIDE DEF R
    <2>6. Len(R) > 0
        BY <2>2
    <2>7. DecisionsInv(i) /\ ReadingInv(i, checker)
        BY <1>2, <2>4, <2>5, <2>6 DEF DecisionsInv, ReadingInv
    <2> QED
        BY <1>2, <2>1, <2>3, <2>4, <2>5, <2>7, GoesOn
<1> QED
    BY <1>4, <1>5

LEMMA SearchKeeps == ASSUME IndInv, Search PROVE IndInv'
<1>1. PICK results \in SetToAllKPermutations(docs) :
        job' = ToFilter([job EXCEPT !.backlinks = results])
    BY DEF Search
<1> DEFINE j == [job EXCEPT !.backlinks = results]
<1>2. job \in Job /\ job.stage = "query" /\ docs \in SUBSET Pages
      /\ UNCHANGED <<checker, access, index, changes>>
    BY DEF Search, IndInv, TypeOK
<1>3. results \in Seq(Pages)
    BY <1>2, OrderedSets
<1>4. j \in Job
    BY <1>2, <1>3 DEF Job
<1>5. /\ SameRequest(j, job) /\ j.decisions = job.decisions /\ j.shown = job.shown
      /\ j.outcome = job.outcome /\ j.phase = job.phase
    BY <1>2 DEF Job, SameRequest
<1>6. job' = ToFilter(j)
    BY <1>1
<1> HIDE DEF j
<1> QED
    BY <1>2, <1>4, <1>5, <1>6, ToFilterKeeps

LEMMA ListBacklinksKeeps == ASSUME IndInv, ListBacklinks PROVE IndInv'
<1>1. PICK results \in SetToSeqs(BacklinksOf(job.page)) :
        job' = [job EXCEPT !.stage = "related", !.backlinks = results]
    BY DEF ListBacklinks
<1> DEFINE j == [job EXCEPT !.stage = "related", !.backlinks = results]
<1>2. /\ job \in Job /\ JobInv(job, checker, role, grants) /\ job.stage = "query"
      /\ BacklinksOf(job.page) \in SUBSET Pages
      /\ UNCHANGED <<checker, access, index, changes>>
    BY DEF ListBacklinks, IndInv, TypeOK, BacklinksOf
<1>3. results \in Seq(Pages)
    BY <1>2, OrderedSets
<1>4. j \in Job
    BY <1>2, <1>3 DEF Job
<1>5. /\ SameRequest(j, job) /\ j.decisions = job.decisions /\ j.shown = job.shown
      /\ j.outcome = job.outcome /\ j.phase = job.phase /\ j.stage = "related"
    BY <1>2 DEF Job, SameRequest
<1>6. job' = j
    BY <1>1
<1> HIDE DEF j
<1>7. /\ Len(j.decisions) = 0 /\ j.shown = {} /\ j.outcome = "none"
      /\ j.phase # "grants"
    BY <1>2, <1>5 DEF JobInv, DecisionsInv, AnswerInv, ReadingInv
<1>8. DecisionsInv(j) /\ ReadingInv(j, checker)
    BY <1>5, <1>7 DEF DecisionsInv, ReadingInv
<1> QED
    BY <1>2, <1>4, <1>5, <1>6, <1>7, <1>8, GoesOn

LEMMA ListRelatedKeeps == ASSUME IndInv, ListRelatedPages PROVE IndInv'
<1>1. PICK S \in SUBSET (docs \ {job.page}) : \E results \in SetToSeqs(S) :
        job' = ToFilter([job EXCEPT !.related =
                   SubSeq(results, 1, IF Len(results) > RelatedLimit
                                      THEN RelatedLimit ELSE Len(results))])
    BY DEF ListRelatedPages
<1>2. PICK results \in SetToSeqs(S) :
        job' = ToFilter([job EXCEPT !.related =
                   SubSeq(results, 1, IF Len(results) > RelatedLimit
                                      THEN RelatedLimit ELSE Len(results))])
    BY <1>1
<1> DEFINE n == IF Len(results) > RelatedLimit THEN RelatedLimit ELSE Len(results)
           s == SubSeq(results, 1, n)
           j == [job EXCEPT !.related = s]
<1>3. job \in Job /\ job.stage = "related" /\ S \in SUBSET Pages
      /\ UNCHANGED <<checker, access, index, changes>>
    BY DEF ListRelatedPages, IndInv, TypeOK
<1>4. results \in Seq(Pages)
    BY <1>3, OrderedSets
<1>5. n \in Nat /\ n <= Len(results)
    BY <1>4, ConstantsAssumption
<1> HIDE DEF n
<1>6. s \in Seq(Pages)
    BY <1>4, <1>5
<1>7. job' = ToFilter(j)
    BY <1>2 DEF n
<1> HIDE DEF s
<1>8. j \in Job
    BY <1>3, <1>6 DEF Job
<1>9. /\ SameRequest(j, job) /\ j.decisions = job.decisions /\ j.shown = job.shown
      /\ j.outcome = job.outcome /\ j.phase = job.phase
    BY <1>3 DEF Job, SameRequest
<1> HIDE DEF j
<1> QED
    BY <1>3, <1>7, <1>8, <1>9, ToFilterKeeps

LEMMA FailKeeps == ASSUME IndInv, Fail PROVE IndInv'
<1>1. job \in Job /\ JobInv(job, checker, role, grants)
    BY DEF IndInv, TypeOK
<1>2. SameRequest(job, job) /\ Placed(job)
    BY <1>1 DEF SameRequest, JobInv, DecisionsInv, Placed
<1>3. job.shown \subseteq job.viewable
    BY <1>1 DEF JobInv, AnswerInv
<1>4. job' = Done(job, "error") /\ UNCHANGED <<checker, access, index, changes>>
    BY DEF Fail
<1> QED
    BY <1>1, <1>2, <1>3, <1>4, DoneKeeps

-------------------------------------------------------------------------------
(* What changes meanwhile *)

(* The history follows the change: what was entitled all the time can only  *)
(* get less, what could be viewed at some time only more.                   *)
LEMMA ChangeAccessKeeps == ASSUME IndInv, ChangeAccess PROVE IndInv'
<1> DEFINE P == {a \in job.permitted : Permits(role', a)}
           G == job.granted \cap Covered(grants')
           V == job.viewable \cup Viewable(role', grants')
           j == [job EXCEPT !.permitted = P, !.granted = G, !.viewable = V]
<1>1. /\ job.stage # "done" /\ job' = j /\ changes < MaxChanges
      /\ changes' = changes + 1 /\ UNCHANGED <<checker, docs, edges>>
    BY DEF ChangeAccess, Changing, index
<1>2. job \in Job /\ JobInv(job, checker, role, grants)
    BY DEF IndInv, TypeOK
<1>3. role' \in Roles \cup {NoRole} /\ grants' \in [Pages -> SUBSET {"view", "edit"}]
    <2>1. CASE role' \in Roles \cup {NoRole} /\ UNCHANGED grants
        BY <2>1 DEF IndInv, TypeOK
    <2>2. CASE /\ \E p \in Pages, g \in SUBSET {"view", "edit"} :
                    grants' = [grants EXCEPT ![p] = g]
               /\ UNCHANGED role
        BY <2>2 DEF IndInv, TypeOK
    <2> QED
        BY <2>1, <2>2 DEF ChangeAccess
<1>4. changes' \in 0..MaxChanges
    BY <1>1, ConstantsAssumption DEF IndInv, TypeOK
<1>5. /\ P \subseteq job.permitted /\ \A a \in P : Permits(role', a)
      /\ G \subseteq job.granted /\ G \subseteq Covered(grants')
      /\ job.viewable \subseteq V /\ Viewable(role', grants') \subseteq V
      /\ Viewable(role', grants') \subseteq Pages
    BY DEF Viewable
<1> HIDE DEF P, G
<1>6. V \subseteq Pages /\ (job.viewable = Pages => V = Pages)
    BY <1>2, <1>5 DEF Job
<1> HIDE DEF V
<1>7. j \in Job
    BY <1>2, <1>5, <1>6 DEF Job
<1>8. /\ j.op = job.op /\ j.page = job.page
      /\ j.stage = job.stage /\ j.phase = job.phase /\ j.membership = job.membership
      /\ j.backlinks = job.backlinks /\ j.related = job.related
      /\ j.decisions = job.decisions /\ j.shown = job.shown /\ j.outcome = job.outcome
      /\ j.permitted = P /\ j.granted = G /\ j.viewable = V
    BY <1>2 DEF Job
<1> HIDE DEF j
<1>9. TypeOK'
    BY <1>1, <1>3, <1>4, <1>7 DEF IndInv, TypeOK
<1>10. HistoryInv(j, role', grants')
    BY <1>5, <1>8 DEF HistoryInv
<1>11. ReadingInv(j, checker)
    BY <1>2, <1>5, <1>6, <1>8 DEF JobInv, ReadingInv
<1>12. DecisionsInv(j)
    <2>1. References(j) = References(job)
        BY <1>8 DEF References
    <2> QED
        BY <1>2, <1>5, <1>8, <2>1 DEF JobInv, DecisionsInv
<1>13. AnswerInv(j, checker)
    BY <1>1, <1>2, <1>8 DEF JobInv, AnswerInv
<1> QED
    BY <1>1, <1>9, <1>10, <1>11, <1>12, <1>13 DEF IndInv, JobInv

LEMMA ProjectKeeps == ASSUME IndInv, Project PROVE IndInv'
<1>1. PICK p \in Pages, targets \in SUBSET Pages :
        /\ docs' = docs \cup {p}
        /\ edges' = {e \in edges : e[1] # p} \cup ({p} \X targets)
    BY DEF Project
<1>2. UNCHANGED <<checker, role, grants, job>> /\ changes' \in 0..MaxChanges
    <2>1. changes' \in 0..MaxChanges
        BY ConstantsAssumption DEF Project, Changing, IndInv, TypeOK
    <2> QED
        BY <2>1 DEF Project, access
<1>3. docs' \subseteq Pages /\ edges' \subseteq docs' \X Pages
    BY <1>1 DEF IndInv, TypeOK
<1>4. TypeOK'
    BY <1>2, <1>3 DEF IndInv, TypeOK
<1> QED
    BY <1>2, <1>4 DEF IndInv

-------------------------------------------------------------------------------
LEMMA AccessStep == IndInv /\ [Next]_vars => IndInv'
<1> SUFFICES ASSUME IndInv, [Next]_vars PROVE IndInv'
    OBVIOUS
<1>1. CASE UNCHANGED vars
    BY <1>1 DEF vars, IndInv, TypeOK
<1> QED
    BY <1>1, ListMembershipsKeeps, ListPageGrantsKeeps, DecideByRolesKeeps, SearchKeeps,
       ListBacklinksKeeps, ListRelatedKeeps, FailKeeps, ChangeAccessKeeps, ProjectKeeps
       DEF Next

(* What the request has read, decided and found agrees with its history in  *)
(* every reachable state.                                                   *)
THEOREM AccessInvariance == Spec => []IndInv
<1>1. Init => IndInv
    BY AccessInit
<1>2. IndInv /\ [Next]_vars => IndInv'
    BY AccessStep
<1> QED
    BY <1>1, <1>2, PTL DEF Spec

(* Every variable keeps its shape. *)
THEOREM AccessTypeCorrect == Spec => []TypeOK
<1>1. IndInv => TypeOK
    BY DEF IndInv
<1> QED
    BY <1>1, AccessInvariance, PTL

(* FilterSearchResults(), FilterBacklinks(): no page is in an answer that   *)
(* the user could at no time view while the request ran.                    *)
THEOREM AnswersWereViewable == Spec => []ShownWasViewable
<1>1. IndInv => ShownWasViewable
    BY DEF IndInv, JobInv, AnswerInv, ShownWasViewable
<1> QED
    BY <1>1, AccessInvariance, PTL

(* RequireAction(), Require(), FilterSearchResults() and FilterBacklinks(): *)
(* who is entitled all the time on one ground is not refused by the auth    *)
(* service, and sees every page found.                                      *)
THEOREM EntitledAreServed == Spec => []SteadyIsShown
<1>1. IndInv => SteadyIsShown
    <2> SUFFICES ASSUME IndInv, checker
                 PROVE  /\ job.outcome = "forbidden" =>
                             ~Steady(RequiredAction(job), job.page)
                        /\ job.outcome = "ok" => \A p \in Range(References(job)) :
                             Steady("page.view", p) => p \in job.shown
        BY DEF SteadyIsShown
    <2> DEFINE R == References(job)
    <2>1. job \in Job /\ AnswerInv(job, checker)
        BY DEF IndInv, TypeOK, JobInv
    <2>2. R \in Seq(Pages)
        BY <2>1, ReferencesOK, Zenon
    <2>3. \A a, p : Steady(a, p) <=> Entitled(job, a, p)
        BY DEF Steady, Entitled
    <2> HIDE DEF R
    <2>4. \A p \in Range(R) : \E k \in 1..Len(R) : p = R[k]
        BY <2>2 DEF Range
    <2> QED
        BY <2>1, <2>3, <2>4 DEF AnswerInv, R
<1> QED
    BY <1>1, AccessInvariance, PTL

===============================================================================
