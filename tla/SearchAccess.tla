----------------------------- MODULE SearchAccess -----------------------------
(***************************************************************************)
(* A search, or a query for the backlinks of a page, from the gateway to   *)
(* the filtered answer, while roles, page grants and the index change.     *)
(*                                                                         *)
(* The gateway and the search service each ask the auth service whether    *)
(* the action is allowed; the search service then reads its index and asks *)
(* about every page it found.  A decision reads the membership and the     *)
(* grants of the page one after the other, and the decisions of a batch    *)
(* come one after another, so an answer is put together from many moments. *)
(* Without a connection to the auth service the roles in the token decide: *)
(* there are none, so that everything is refused.                          *)
(*                                                                         *)
(* A request changes nothing, so one of them stands for all.  It is of one *)
(* user in one workspace, and authenticated: the gateway lets no other     *)
(* pass.  What a query matches is left open.                               *)
(***************************************************************************)
EXTENDS Naturals, SequencesExt

CONSTANTS Pages, NoPage,  \* pages of the workspace; a search names none
          Roles,          \* roles a membership may have here
          SearchLimit,    \* LIMIT of the search statement
          RelatedLimit,   \* LIMIT of the related pages
          MaxChanges      \* bound: changes while the request runs

NoRole == "none"

ASSUME ConstantsAssumption ==
    /\ IsFiniteSet(Pages) /\ NoPage \notin Pages
    /\ Roles \subseteq {"owner", "admin", "editor", "commenter", "viewer"}
    /\ SearchLimit \in Nat /\ RelatedLimit \in Nat
    /\ MaxChanges \in Nat

VARIABLES checker,  \* is there a connection to the auth service?
          role,     \* workspace_memberships: the role of the user
          grants,   \* page_grants: the permissions of the user on a page
          docs,     \* search_documents
          edges,    \* page_link_edges: <<source, target>>
          changes,  \* changes made so far
          job       \* the request

vars == <<checker, role, grants, docs, edges, changes, job>>
access == <<role, grants>>
index == <<docs, edges>>

-------------------------------------------------------------------------------
(* Policy *)

ReaderActions == {"page.view", "file.read", "search.query"}

EditorActions ==
    ReaderActions \cup {"page.edit", "page.archive", "page.publish",
                        "page.restore", "page.embed_table", "file.upload"}

(* What a role permits in the auth service. *)
Permits(r, action) ==
    \/ r \in {"owner", "admin"}
    \/ r = "editor" /\ action \in EditorActions
    \/ r \in {"commenter", "viewer"} /\ action \in ReaderActions

(* The decision of the auth service on one action and page. *)
EvaluateAuthorization(r, permissions, action) ==
    \/ Permits(r, action)
    \/ action = "page.view" /\ permissions \cap {"view", "edit"} # {}
    \/ /\ action \in {"page.edit", "page.archive", "page.embed_table", "file.upload"}
       /\ "edit" \in permissions

(* An access token carries no roles, nor does the identity that the gateway *)
(* makes of it and the services take over.                                  *)
TokenRoles == {}

(* What the roles in a token allow, in the services themselves. *)
Allowed(roles, action) ==
    \E r \in roles :
        \/ r \in {"owner", "admin"}
        \/ r = "editor" /\ action \in EditorActions
        \/ r \in {"commenter", "viewer"} /\ action \in ReaderActions

-------------------------------------------------------------------------------
(* The request *)

(* stage: who asks.  membership: the role that was read for the check under *)
(* way.  The last three are history: actions the role has permitted and     *)
(* pages a grant has covered all the time, and pages that could be viewed   *)
(* at some time.                                                            *)
Job == [op : {"search", "backlinks"}, page : Pages \cup {NoPage},
        stage : {"gateway", "require", "query", "related", "filter", "done"},
        phase : {"membership", "grants"}, membership : Roles \cup {NoRole},
        backlinks : Seq(Pages), related : Seq(Pages),
        decisions : Seq(BOOLEAN), shown : SUBSET Pages,
        outcome : {"none", "ok", "forbidden", "error"},
        permitted : SUBSET ReaderActions, granted : SUBSET Pages,
        viewable : SUBSET Pages]

Viewable(r, g) == {p \in Pages : EvaluateAuthorization(r, g[p], "page.view")}

Covered(g) == {p \in Pages : EvaluateAuthorization(NoRole, g[p], "page.view")}

NewJob(op, page) ==
    [op |-> op, page |-> page, stage |-> "gateway", phase |-> "membership",
     membership |-> NoRole, backlinks |-> <<>>, related |-> <<>>, decisions |-> <<>>,
     shown |-> {}, outcome |-> "none",
     permitted |-> {a \in ReaderActions : Permits(role, a)},
     granted |-> Covered(grants), viewable |-> Viewable(role, grants)]

Init ==
    /\ checker \in BOOLEAN
    /\ role \in Roles \cup {NoRole}
    /\ grants \in [Pages -> SUBSET {"view", "edit"}]
    /\ docs \in SUBSET Pages
    /\ edges \in SUBSET (docs \X Pages)
    /\ changes = 0
    /\ \E page \in Pages \cup {NoPage} :
         job = NewJob(IF page = NoPage THEN "search" ELSE "backlinks", page)

RequiredAction(j) == IF j.op = "search" THEN "search.query" ELSE "page.view"

(* The references in the order in which they are checked. *)
References(j) == j.backlinks \o j.related

(* The page the check under way is about. *)
CheckedPage(j) ==
    IF j.stage = "filter" THEN References(j)[Len(j.decisions) + 1] ELSE j.page

CheckedAction(j) == IF j.stage = "filter" THEN "page.view" ELSE RequiredAction(j)

Done(j, outcome) ==
    [j EXCEPT !.stage = "done", !.phase = "membership", !.membership = NoRole,
              !.outcome = outcome]

(* RequireAction of the gateway, then Require of the service. *)
Required(j, allowed) ==
    IF ~allowed THEN Done(j, "forbidden")
    ELSE [j EXCEPT !.stage = IF @ = "gateway" THEN "require" ELSE "query",
                   !.phase = "membership", !.membership = NoRole]

(* Mutant of Approved: the bound of the positions is one too small. *)
ApprovedButLast(references, decisions, offset) ==
    {references[i] : i \in {k \in 1..Len(references) :
                              k + offset < Len(decisions) /\ decisions[k + offset]}}

(* The references whose decision, found by its position, is an approval. *)
Approved(references, decisions, offset) ==
    {references[i] : i \in {k \in 1..Len(references) :
                              k + offset <= Len(decisions) /\ decisions[k + offset]}}

(* Mutant of Filtered: the decisions on related pages are not offset. *)
FilteredWithoutOffset(j) ==
    Approved(j.backlinks, j.decisions, 0) \cup Approved(j.related, j.decisions, 0)

(* What is left of the answer when all decisions are there.  The service    *)
(* would show everything if it got none: the auth service answers each of   *)
(* the checks, and without checks there is no batch.                        *)
Filtered(j) ==
    Approved(j.backlinks, j.decisions, 0)
    \cup Approved(j.related, j.decisions, Len(j.backlinks))

(* One more decision of a batch. *)
Decided(j, allowed) ==
    LET k == [j EXCEPT !.decisions = Append(@, allowed), !.phase = "membership",
                       !.membership = NoRole] IN
    IF Len(k.decisions) < Len(References(k)) THEN k
    ELSE Done([k EXCEPT !.shown = Filtered(k)], "ok")

-------------------------------------------------------------------------------
(* Authorize and BatchAuthorize of the auth service *)

Asking == job.stage \in {"gateway", "require", "filter"}

ListMemberships ==
    /\ checker
    /\ Asking
    /\ job.phase = "membership"
    /\ job' = [job EXCEPT !.phase = "grants", !.membership = role]
    /\ UNCHANGED <<checker, access, index, changes>>

(* The grants are read, unless no page is named, and the decision is made. *)
ListPageGrants ==
    /\ checker
    /\ job.phase = "grants"
    /\ LET permissions == IF CheckedPage(job) = NoPage THEN {}
                          ELSE grants[CheckedPage(job)]
           allowed == EvaluateAuthorization(job.membership, permissions,
                                            CheckedAction(job)) IN
       job' = IF job.stage = "filter" THEN Decided(job, allowed)
              ELSE Required(job, allowed)
    /\ UNCHANGED <<checker, access, index, changes>>

(* Without the auth service the roles decide.  No request gets so far that  *)
(* the service would filter its results by them.                            *)
DecideByRoles ==
    /\ ~checker
    /\ job.stage \in {"gateway", "require"}
    /\ job' = Required(job, Allowed(TokenRoles, RequiredAction(job)))
    /\ UNCHANGED <<checker, access, index, changes>>

-------------------------------------------------------------------------------
(* The index *)

(* Nothing to filter is answered at once. *)
ToFilter(j) ==
    IF References(j) = <<>> THEN Done(j, "ok") ELSE [j EXCEPT !.stage = "filter"]

(* The first SearchLimit documents that match, in any order. *)
Search ==
    /\ job.stage = "query"
    /\ job.op = "search"
    /\ \E results \in SetToAllKPermutations(docs) :
         /\ Len(results) <= SearchLimit
         /\ job' = ToFilter([job EXCEPT !.backlinks = results])
    /\ UNCHANGED <<checker, access, index, changes>>

BacklinksOf(page) == {d \in docs : <<d, page>> \in edges}

ListBacklinks ==
    /\ job.stage = "query"
    /\ job.op = "backlinks"
    /\ \E results \in SetToSeqs(BacklinksOf(job.page)) :
         job' = [job EXCEPT !.stage = "related", !.backlinks = results]
    /\ UNCHANGED <<checker, access, index, changes>>

Targets(page) == {t \in Pages : <<page, t>> \in edges}

(* Linked either way or sharing a target; others may be close in topic. *)
RelatedTo(page) ==
    {d \in docs \ {page} :
        \/ d \in Targets(page) \/ page \in Targets(d)
        \/ Targets(page) \cap Targets(d) # {}}

(* A second statement, which may see another index than the first. *)
ListRelatedPages ==
    /\ job.stage = "related"
    /\ \E S \in SUBSET (docs \ {job.page}) :
         /\ RelatedTo(job.page) \subseteq S
         /\ \E results \in SetToSeqs(S) :
              job' = ToFilter([job EXCEPT !.related =
                         SubSeq(results, 1, IF Len(results) > RelatedLimit
                                            THEN RelatedLimit ELSE Len(results))])
    /\ UNCHANGED <<checker, access, index, changes>>

(* A call fails: nothing found so far is shown. *)
Fail ==
    /\ job.stage # "done"
    /\ job' = Done(job, "error")
    /\ UNCHANGED <<checker, access, index, changes>>

-------------------------------------------------------------------------------
(* What changes meanwhile *)

Changing ==
    /\ job.stage # "done"
    /\ changes < MaxChanges
    /\ changes' = changes + 1

(* A membership or the grants on a page change. *)
ChangeAccess ==
    /\ Changing
    /\ \/ role' \in Roles \cup {NoRole} /\ UNCHANGED grants
       \/ /\ \E p \in Pages, g \in SUBSET {"view", "edit"} :
               grants' = [grants EXCEPT ![p] = g]
          /\ UNCHANGED role
    /\ access' # access
    /\ job' = [job EXCEPT !.permitted = {a \in @ : Permits(role', a)},
                          !.granted = @ \cap Covered(grants'),
                          !.viewable = @ \cup Viewable(role', grants')]
    /\ UNCHANGED <<checker, index>>

(* The projection of a page enters it and replaces its links. *)
Project ==
    /\ Changing
    /\ \E p \in Pages, targets \in SUBSET Pages :
         /\ docs' = docs \cup {p}
         /\ edges' = {e \in edges : e[1] # p} \cup ({p} \X targets)
    /\ UNCHANGED <<checker, access, job>>

Next ==
    \/ ListMemberships \/ ListPageGrants \/ DecideByRoles
    \/ Search \/ ListBacklinks \/ ListRelatedPages \/ Fail
    \/ ChangeAccess \/ Project

Spec == Init /\ [][Next]_vars

-------------------------------------------------------------------------------
(* Properties *)

(* Every variable has its shape. *)
TypeOK ==
    /\ checker \in BOOLEAN
    /\ role \in Roles \cup {NoRole}
    /\ grants \in [Pages -> SUBSET {"view", "edit"}]
    /\ docs \subseteq Pages
    /\ edges \subseteq docs \X Pages
    /\ changes \in 0..MaxChanges
    /\ job \in Job

(* Every page in an answer could be viewed by the user at some time while   *)
(* the request ran, although role and grants are read at different times    *)
(* and decisions are matched to pages by position.                          *)
ShownWasViewable == job.shown \subseteq job.viewable

(* The user was entitled all the time on one and the same ground. *)
Steady(action, p) ==
    action \in job.permitted \/ (action = "page.view" /\ p \in job.granted)

(* Nobody loses what is theirs to a change that does not concern them: a    *)
(* request that was allowed all the time by the role, or by a grant, is not *)
(* refused, and every page found that was is shown.  A user who moves from  *)
(* a grant to a role meanwhile can fall between the two reads, and nobody   *)
(* is served without the auth service.                                      *)
SteadyIsShown ==
    checker =>
        /\ job.outcome = "forbidden" => ~Steady(RequiredAction(job), job.page)
        /\ job.outcome = "ok" =>
             \A p \in Range(References(job)) : Steady("page.view", p) => p \in job.shown

===============================================================================
