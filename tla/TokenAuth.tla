------------------------------ MODULE TokenAuth ------------------------------
(***************************************************************************)
(* Tokens: the auth service issues them and keeps a session row for each   *)
(* refresh token; the gateway verifies access tokens with the signing keys *)
(* it fetches from the auth service and caches.                            *)
(*                                                                         *)
(* A refresh reads its session, issues a new pair, revokes the old session *)
(* and creates the new one in separate statements.  The gateway fetches    *)
(* keys outside its lock, and stores what it got whenever it gets it.      *)
(* Without a configured key, every start of the auth service makes a new   *)
(* one under the same key id; with a configured one, MaxKeys is 1.         *)
(*                                                                         *)
(* Time passes in ticks, and is kept as ages.  A step that only uses       *)
(* memory takes less than a tick, a fetch at most the timeout of the       *)
(* client.  An access and a refresh token issued together are one token    *)
(* here; one that has expired or was not signed by the auth service counts *)
(* as not valid.                                                           *)
(***************************************************************************)
EXTENDS Naturals, Sequences

CONSTANTS Procs,      \* requests, to either service, active at once
          TTL,        \* of the cached keys, in ticks
          Timeout,    \* of a fetch, in ticks
          MaxTokens,  \* bound: tokens issued
          MaxKeys     \* bound: keys made, one per start of the auth service

ASSUME ConstantsAssumption ==
    /\ TTL \in Nat /\ Timeout \in Nat
    /\ MaxTokens \in Nat /\ MaxKeys \in Nat

VARIABLES key,      \* the signing key of the auth service
          retired,  \* ticks since a key was replaced, at most Long
          tokens,   \* the tokens issued: key, and the one refreshed, 0 if none
          given,    \* tokens that reached a client
          rows,     \* refresh_sessions
          revoked,  \* rows with a revoked_at
          cut,      \* sessions whose refresh ended before the new row (history)
          cache,    \* publicKeys and the ticks since lastFetch
          job       \* what each request is doing

vars == <<key, retired, tokens, given, rows, revoked, cut, cache, job>>
tables == <<tokens, given, rows, revoked, cut>>

-------------------------------------------------------------------------------
Long == TTL + Timeout + 1

Tokens == 1..Len(tokens)

(* doc 0: nothing was fetched yet. *)
Cache == [doc : Nat, age : 0..(TTL + 1)]

NoKeys == [doc |-> 0, age |-> TTL + 1]

(* token: the refresh token to exchange.  sig: the key that signed the      *)
(* access token, 0 if the token is not valid.  round: the first parse, the  *)
(* forced refresh, the second parse.  The last three are history: a fetch   *)
(* of this request failed; a key older than sig was stored by another       *)
(* request; the token had been exchanged when the request came.             *)
Job == [op : {"none", "login", "refresh", "access"},
        phase : {"idle", "session", "issue", "revoke", "create", "reply",
                 "lookup", "check", "fetch", "store", "again",
                 "accepted", "refused"},
        token : Nat, new : Nat, sig : Nat, round : {"first", "forced", "second"},
        doc : Nat, age : 0..(Timeout + 1),
        failed : BOOLEAN, overtaken : BOOLEAN, reused : BOOLEAN]

Idle == [op |-> "none", phase |-> "idle", token |-> 0, new |-> 0, sig |-> 0,
         round |-> "first", doc |-> 0, age |-> 0,
         failed |-> FALSE, overtaken |-> FALSE, reused |-> FALSE]

(* The refreshes of P that revoked their session and have not created the   *)
(* new one.                                                                 *)
Torn(P) == {job[p].token : p \in {q \in P : job[q].op = "refresh" /\ job[q].phase = "create"}}

Goto(p, phase) == job' = [job EXCEPT ![p].phase = phase]

-------------------------------------------------------------------------------
(* The auth service *)

Init ==
    /\ key = 1
    /\ retired = [k \in 1..MaxKeys |-> 0]
    /\ tokens = <<>>
    /\ given = {} /\ rows = {} /\ revoked = {} /\ cut = {}
    /\ cache = NoKeys
    /\ job = [p \in Procs |-> Idle]

(* The credentials are right. *)
Login(p) ==
    /\ job[p] = Idle
    /\ job' = [job EXCEPT ![p] = [Idle EXCEPT !.op = "login", !.phase = "issue"]]
    /\ UNCHANGED <<key, retired, tables, cache>>

(* A client sends a refresh token, which must carry a signature of the      *)
(* present key.                                                             *)
Refresh(p) ==
    /\ job[p] = Idle
    /\ \E t \in given : job' = [job EXCEPT ![p] =
         [Idle EXCEPT !.op = "refresh", !.token = t,
                      !.phase = IF tokens[t].key = key THEN "session" ELSE "refused",
                      !.reused = \E s \in given : tokens[s].parent = t]]
    /\ UNCHANGED <<key, retired, tables, cache>>

(* Mutant of GetRefreshSession: the new session gets no id of its own. *)
GetSessionOnly(p) ==
    /\ job[p].phase = "session"
    /\ Goto(p, IF job[p].token \in rows \ revoked THEN "revoke" ELSE "refused")
    /\ UNCHANGED <<key, retired, tables, cache>>

(* Mutant of GetRefreshSession: the query lacks "revoked_at IS NULL". *)
GetAnySession(p) ==
    /\ job[p].phase = "session"
    /\ Goto(p, IF job[p].token \in rows THEN "issue" ELSE "refused")
    /\ UNCHANGED <<key, retired, tables, cache>>

GetRefreshSession(p) ==
    /\ job[p].phase = "session"
    /\ Goto(p, IF job[p].token \in rows \ revoked THEN "issue" ELSE "refused")
    /\ UNCHANGED <<key, retired, tables, cache>>

IssueTokens(p) ==
    /\ job[p].phase = "issue"
    /\ Len(tokens) < MaxTokens
    /\ tokens' = Append(tokens, [key |-> key, parent |-> job[p].token])
    /\ job' = [job EXCEPT ![p] =
         [@ EXCEPT !.phase = IF job[p].op = "login" THEN "create" ELSE "revoke",
                   !.new = Len(tokens) + 1]]
    /\ UNCHANGED <<key, retired, given, rows, revoked, cut, cache>>

(* The UPDATE does not ask whether the session was revoked already. *)
RevokeRefreshSession(p) ==
    /\ job[p].phase = "revoke"
    /\ revoked' = revoked \cup {job[p].token}
    /\ Goto(p, "create")
    /\ UNCHANGED <<key, retired, tokens, given, rows, cut, cache>>

(* Mutant of CreateRefreshSession: the row is written under the old id. *)
CreateOldSession(p) ==
    /\ job[p].phase = "create"
    /\ rows' = rows \cup {IF job[p].op = "refresh" THEN job[p].token ELSE job[p].new}
    /\ Goto(p, "reply")
    /\ UNCHANGED <<key, retired, tokens, given, revoked, cut, cache>>

CreateRefreshSession(p) ==
    /\ job[p].phase = "create"
    /\ rows' = rows \cup {job[p].new}
    /\ Goto(p, "reply")
    /\ UNCHANGED <<key, retired, tokens, given, revoked, cut, cache>>

(* The memberships were read, and the answer reaches the client. *)
Reply(p) ==
    /\ job[p].phase = "reply"
    /\ given' = given \cup {job[p].new}
    /\ job' = [job EXCEPT ![p] = Idle]
    /\ UNCHANGED <<key, retired, tokens, rows, revoked, cut, cache>>

(* The auth service stops and is started without a configured key. *)
RestartAuth ==
    /\ key < MaxKeys
    /\ key' = key + 1
    /\ job' = [p \in Procs |->
                 IF job[p].op \in {"login", "refresh"} THEN Idle ELSE job[p]]
    /\ cut' = cut \cup Torn(Procs)
    /\ UNCHANGED <<retired, tokens, given, rows, revoked, cache>>

-------------------------------------------------------------------------------
(* The gateway *)

(* RequireAuth gets a token from a client. *)
RequireAuth(p) ==
    /\ job[p] = Idle
    /\ \E k \in {tokens[t].key : t \in given} \cup {0} :
         job' = [job EXCEPT ![p] =
             [Idle EXCEPT !.op = "access", !.phase = "lookup", !.sig = k]]
    /\ UNCHANGED <<key, retired, tables, cache>>

(* Mutant of CachedKey: keys do not go out of date. *)
CachedKeyForEver == cache.doc

(* The key for the key id, 0 if there is none or it is too old. *)
CachedKey == IF cache.age > TTL THEN 0 ELSE cache.doc

(* Mutant of ParseFailed: the refresh before the second parse is not forced. *)
ParseFailedUnforced(j) ==
    IF j.round = "first" THEN [j EXCEPT !.round = "forced", !.phase = "check"]
    ELSE [j EXCEPT !.phase = "refused"]

(* A parse ends with an error: the keys are fetched and the token is parsed *)
(* once more; any error after that is the answer.                           *)
ParseFailed(j) ==
    IF j.round = "first" THEN [j EXCEPT !.round = "forced", !.phase = "fetch"]
    ELSE [j EXCEPT !.phase = "refused"]

(* The signature is verified with the key that was found. *)
Verify(p, k) ==
    job' = [job EXCEPT ![p] = IF @.sig = k
                              THEN [@ EXCEPT !.phase = "accepted"]
                              ELSE ParseFailed(@)]

LookupKey(p) ==
    /\ job[p].phase = "lookup"
    /\ IF CachedKey # 0 THEN Verify(p, CachedKey) ELSE Goto(p, "check")
    /\ UNCHANGED <<key, retired, tables, cache>>

(* refreshKeys(false): perhaps another request has fetched meanwhile. *)
CheckKeys(p) ==
    /\ job[p].phase = "check"
    /\ Goto(p, IF cache.age <= TTL /\ cache.doc # 0 THEN "again" ELSE "fetch")
    /\ UNCHANGED <<key, retired, tables, cache>>

(* The auth service answers with its document. *)
FetchKeys(p) ==
    /\ job[p].phase = "fetch"
    /\ job' = [job EXCEPT ![p] = [@ EXCEPT !.phase = "store", !.doc = key, !.age = 0]]
    /\ UNCHANGED <<key, retired, tables, cache>>

(* No answer in time, a status that is no success, or a bad document. *)
FetchFails(p) ==
    /\ job[p].phase \in {"fetch", "store"}
    /\ job' = [job EXCEPT ![p] =
         ParseFailed([@ EXCEPT !.failed = TRUE, !.doc = 0, !.age = 0])]
    /\ UNCHANGED <<key, retired, tables, cache>>

(* The lock is taken and the cache replaced, whatever it holds. *)
StoreKeys(p) ==
    /\ job[p].phase = "store"
    /\ job[p].age <= Timeout
    /\ cache' = [doc |-> job[p].doc, age |-> 0]
    /\ job' = [q \in Procs |->
         IF q = p
         THEN [job[p] EXCEPT !.doc = 0, !.age = 0,
                 !.phase = IF job[p].round = "forced" THEN "lookup" ELSE "again",
                 !.round = IF @ = "forced" THEN "second" ELSE @]
         ELSE [job[q] EXCEPT !.overtaken = @ \/ job[p].doc < job[q].sig]]
    /\ UNCHANGED <<key, retired, tables>>

(* lookupKey looks once more. *)
LookupAgain(p) ==
    /\ job[p].phase = "again"
    /\ IF CachedKey # 0 THEN Verify(p, CachedKey)
       ELSE job' = [job EXCEPT ![p] = ParseFailed(@)]
    /\ UNCHANGED <<key, retired, tables, cache>>

RestartGateway ==
    /\ cache' = NoKeys
    /\ job' = [p \in Procs |-> IF job[p].op = "access" THEN Idle ELSE job[p]]
    /\ UNCHANGED <<key, retired, tables>>

-------------------------------------------------------------------------------
(* A request ends: it was answered, a call failed, or the client went away. *)
End(p) ==
    /\ job[p] # Idle
    /\ job' = [job EXCEPT ![p] = Idle]
    /\ cut' = cut \cup Torn({p})
    /\ UNCHANGED <<key, retired, tokens, given, rows, revoked, cache>>

Older(age, limit) == IF age < limit THEN age + 1 ELSE age

(* Time passes, but not between two steps that only use memory. *)
Tick ==
    /\ \A p \in Procs : job[p].phase \notin {"lookup", "check", "again"}
    /\ cache' = [cache EXCEPT !.age = Older(@, TTL + 1)]
    /\ retired' = [k \in 1..MaxKeys |->
                     IF k < key THEN Older(retired[k], Long) ELSE 0]
    /\ job' = [p \in Procs |->
                 IF job[p].phase = "store"
                 THEN [job[p] EXCEPT !.age = Older(@, Timeout + 1)] ELSE job[p]]
    /\ UNCHANGED <<key, tables>>

AuthHandler(p) ==
    \/ Login(p) \/ Refresh(p) \/ GetRefreshSession(p) \/ IssueTokens(p)
    \/ RevokeRefreshSession(p) \/ CreateRefreshSession(p) \/ Reply(p)

GatewayHandler(p) ==
    \/ RequireAuth(p) \/ LookupKey(p) \/ CheckKeys(p) \/ FetchKeys(p)
    \/ FetchFails(p) \/ StoreKeys(p) \/ LookupAgain(p)

Next ==
    \/ \E p \in Procs : AuthHandler(p) \/ GatewayHandler(p) \/ End(p)
    \/ RestartAuth \/ RestartGateway \/ Tick

Spec == Init /\ [][Next]_vars

-------------------------------------------------------------------------------
(* Properties *)

(* Every variable has its shape. *)
TypeOK ==
    /\ key \in Nat
    /\ retired \in [1..MaxKeys -> 0..Long]
    /\ tokens \in Seq([key : Nat, parent : Nat])
    /\ given \subseteq rows
    /\ rows \subseteq Tokens
    /\ revoked \subseteq rows
    /\ cut \subseteq revoked
    /\ cache \in Cache
    /\ job \in [Procs -> Job]

(* A refresh token works once: when a client has got the pair it was        *)
(* exchanged for, a later refresh with it gets none, although refreshes     *)
(* that overlap may all succeed.                                            *)
ReuseIsRefused ==
    \A p \in Procs :
        job[p].op = "refresh" /\ job[p].reused =>
            job[p].phase \in {"session", "refused"}

(* A session is revoked for a new one that has its row too, or is about to: *)
(* only a refresh that ended between the two statements, by an error or a   *)
(* restart, leaves a client without either.  Two refreshes of one session   *)
(* do not make up for each other's missing row.                             *)
RevokedWasReplaced ==
    \A t \in revoked \ cut :
        \/ \E s \in rows : tokens[s].parent = t
        \/ t \in Torn(Procs)

(* Tokens of a key that was replaced are accepted no longer than the TTL of *)
(* the cache and the timeout of a fetch after that, whatever fetches were   *)
(* under way and in which order they were stored.                           *)
RetiredKeysExpire ==
    [][\A p \in Procs :
         job[p].phase # "accepted" /\ job'[p].phase = "accepted" =>
             job[p].sig = key \/ retired[job[p].sig] <= TTL + Timeout]_vars

(* A token of the present key is refused only if a fetch of that request    *)
(* failed, or another request stored an older document while it ran: what   *)
(* the cache held before does not matter.                                   *)
CurrentTokensPass ==
    \A p \in Procs :
        /\ job[p].op = "access" /\ job[p].phase = "refused"
        /\ job[p].sig = key
        => job[p].failed \/ job[p].overtaken

===============================================================================
