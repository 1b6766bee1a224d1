--------------------------- MODULE TokenAuthProofs ---------------------------
(***************************************************************************)
(* Proofs about TokenAuth, for any number of requests, tokens and keys and *)
(* any TTL and timeout.                                                    *)
(***************************************************************************)
EXTENDS TokenAuth, TLAPS

(* The phases of the two services. *)
AuthPhases == {"session", "issue", "revoke", "create", "reply"}
AccessPhases == {"lookup", "check", "fetch", "store", "again", "accepted"}

(* The tables.  A token is signed with a key that was made.  The token a    *)
(* given one was exchanged for is revoked.                                  *)
TableInv ==
    /\ key >= 1
    /\ key = 1 \/ key <= MaxKeys
    /\ \A t \in Tokens : tokens[t].key \in 1..key
    /\ \A t \in given : tokens[t].parent # 0 => tokens[t].parent \in revoked

(* What a request to the auth service knows: the token of a refresh is in   *)
(* the table and is revoked before the new row is made, the new token is    *)
(* the one the old is exchanged for, and its row is there before the answer. *)
AuthInv(j, tk, gv, rw, rv) ==
    /\ j.phase \in AuthPhases => j.op \in {"login", "refresh"}
    /\ j.phase \in {"session", "revoke"} => j.op = "refresh"
    /\ j.op = "login" => j.token = 0
    /\ j.op = "refresh" => j.token \in gv
    /\ j.phase \in {"revoke", "create", "reply"} =>
         j.new \in 1..Len(tk) /\ tk[j.new].parent = j.token
    /\ j.phase = "reply" => j.new \in rw
    /\ j.phase \in {"create", "reply"} /\ j.op = "refresh" => j.token \in rv

(* A token that had been exchanged when the request came is revoked. *)
ReuseInv(j, rv) ==
    j.op = "refresh" /\ j.reused =>
        j.token \in rv /\ j.phase \in {"session", "refused"}

(* The request has a reason to refuse a token of the present key. *)
Excused(j) == j.failed \/ j.overtaken \/ j.sig = 0

(* What a request to the gateway knows.  A document that was fetched is as  *)
(* new as the token.  A request that has fetched for the second parse finds *)
(* a document in the cache that is, unless it is excused; if it refuses the *)
(* token all the same the key has been replaced.                            *)
AccessInv(j, k, ca) ==
    /\ j.phase \in AccessPhases => j.op = "access"
    /\ j.sig \in 0..k
    /\ j.phase = "store" => j.doc \in 1..k /\ j.sig <= j.doc
    /\ j.round = "forced" => j.phase \in {"fetch", "store"} \/ Excused(j)
    /\ j.round = "second" /\ j.phase = "lookup" =>
         Excused(j) \/ (ca.doc >= j.sig /\ ca.age = 0)
    /\ j.round = "second" /\ j.phase \in {"check", "fetch", "store", "again"} =>
         Excused(j)
    /\ j.op = "access" /\ j.phase = "refused" => Excused(j) \/ j.sig < k

(* How long ago keys were replaced: those that were not, not at all, that   *)
(* of a document under way at most as long as it takes, that of the cached  *)
(* document at most the age of the cache and a timeout.                     *)
AgeInv ==
    /\ \A k \in 1..MaxKeys : k >= key => retired[k] = 0
    /\ cache.doc \in 0..key
    /\ cache.doc # 0 /\ cache.doc < key =>
         retired[cache.doc] <= cache.age + Timeout \/ cache.age > TTL
    /\ \A p \in Procs :
         job[p].phase = "store" /\ job[p].doc < key /\ job[p].age <= Timeout =>
             retired[job[p].doc] <= job[p].age

JobInv(j, tk, gv, rw, rv, k, ca) ==
    AuthInv(j, tk, gv, rw, rv) /\ ReuseInv(j, rv) /\ AccessInv(j, k, ca)

Jobs ==
    /\ job \in [Procs -> Job]
    /\ \A p \in Procs : JobInv(job[p], tokens, given, rows, revoked, key, cache)

IndInv ==
    /\ TypeOK
    /\ TableInv
    /\ AgeInv
    /\ RevokedWasReplaced
    /\ Jobs

-------------------------------------------------------------------------------
(* A request that is not there satisfies every one of its conditions. *)
LEMMA IdleOK ==
    ASSUME TypeOK, TableInv
    PROVE  Idle \in Job /\ JobInv(Idle, tokens, given, rows, revoked, key, cache)
<1>1. Idle \in Job
    BY ConstantsAssumption DEF Idle, Job
<1>2. AuthInv(Idle, tokens, given, rows, revoked) /\ ReuseInv(Idle, revoked)
    BY DEF Idle, AuthInv, ReuseInv, AuthPhases
<1>3. AccessInv(Idle, key, cache)
    BY DEF Idle, AccessInv, AccessPhases, Excused, TypeOK, TableInv
<1> QED
    BY <1>1, <1>2, <1>3 DEF JobInv

LEMMA TokenInit == Init => IndInv
<1> SUFFICES ASSUME Init PROVE IndInv
    OBVIOUS
<1>1. Idle \in Job
    BY ConstantsAssumption DEF Idle, Job
<1>2. TypeOK
    <2>1. NoKeys \in Cache
        BY ConstantsAssumption DEF NoKeys, Cache
    <2>2. retired \in [1..MaxKeys -> 0..Long]
        BY ConstantsAssumption DEF Init, Long
    <2> QED
        BY <1>1, <2>1, <2>2 DEF Init, TypeOK, Tokens
<1>3. TableInv
    BY DEF Init, TableInv, Tokens
<1>4. AgeInv
    BY DEF Init, AgeInv, NoKeys, Idle
<1>5. RevokedWasReplaced
    BY DEF Init, RevokedWasReplaced
<1>6. Jobs
    BY <1>2, <1>3, IdleOK DEF Init, Jobs
<1> QED
    BY <1>2, <1>3, <1>4, <1>5, <1>6 DEF IndInv

-------------------------------------------------------------------------------
(* Tables only grow, and rows are not rewritten, apart from the revocation. *)
TablesGrow ==
    /\ Len(tokens) <= Len(tokens')
    /\ \A t \in 1..Len(tokens) : tokens'[t] = tokens[t]
    /\ given \subseteq given' /\ rows \subseteq rows' /\ revoked \subseteq revoked'

LEMMA JobKept ==
    ASSUME IndInv, TypeOK', TablesGrow, NEW j \in Job,
           JobInv(j, tokens, given, rows, revoked, key, cache)
    PROVE  JobInv(j, tokens', given', rows', revoked', key, cache)
<1>1. Len(tokens) \in Nat /\ Len(tokens') \in Nat
    BY DEF IndInv, TypeOK
<1>2. AuthInv(j, tokens', given', rows', revoked')
    BY <1>1 DEF JobInv, AuthInv, TablesGrow
<1> QED
    BY <1>2 DEF JobInv, ReuseInv, TablesGrow

(* One request goes on. *)
LEMMA OneJob ==
    ASSUME IndInv, NEW p \in Procs, NEW j \in Job, job' = [job EXCEPT ![p] = j],
           TypeOK', TablesGrow, UNCHANGED <<key, retired, cache>>,
           JobInv(j, tokens', given', rows', revoked', key, cache),
           j.phase = "store" => j.doc = key
    PROVE  Jobs' /\ AgeInv'
<1>1. job \in [Procs -> Job] /\ key \in Nat
    BY DEF IndInv, TypeOK
<1>2. ASSUME NEW q \in Procs
      PROVE  JobInv(job'[q], tokens', given', rows', revoked', key, cache)
    <2>1. CASE q = p
        BY <2>1, <1>1
    <2>2. CASE q # p
        <3>1. job'[q] = job[q] /\ job[q] \in Job
            BY <2>2, <1>1
        <3>2. JobInv(job[q], tokens, given, rows, revoked, key, cache)
            BY DEF IndInv, Jobs
        <3>3. JobInv(job[q], tokens', given', rows', revoked', key, cache)
            BY <3>1, <3>2, JobKept
        <3> QED
            BY <3>1, <3>3
    <2> QED
        BY <2>1, <2>2
<1>3. Jobs'
    BY <1>1, <1>2 DEF Jobs
<1>4. AgeInv'
    BY <1>1 DEF IndInv, AgeInv
<1> QED
    BY <1>3, <1>4

(* A request that is not between the revocation and the new row goes on,    *)
(* without a change of the tables.                                          *)
LEMMA PlainStep ==
    ASSUME IndInv, NEW p \in Procs, NEW j \in Job, job' = [job EXCEPT ![p] = j],
           UNCHANGED <<key, retired, tables, cache>>,
           JobInv(j, tokens, given, rows, revoked, key, cache),
           j.phase = "store" => j.doc = key,
           job[p].phase # "create"
    PROVE  IndInv'
<1>1. UNCHANGED <<tokens, given, rows, revoked, cut>>
    BY DEF tables
<1>2. TypeOK'
    BY <1>1 DEF IndInv, TypeOK, Tokens
<1>3. TableInv'
    BY <1>1 DEF IndInv, TableInv, Tokens
<1>4. TablesGrow
    BY <1>1, <1>2 DEF TablesGrow, IndInv, TypeOK
<1>5. Jobs' /\ AgeInv'
    BY <1>1, <1>2, <1>4, OneJob
<1>6. Torn(Procs) \subseteq Torn(Procs)'
    BY DEF Torn, IndInv, TypeOK
<1>7. RevokedWasReplaced'
    BY <1>1, <1>6 DEF RevokedWasReplaced, IndInv
<1> QED
    BY <1>2, <1>3, <1>5, <1>7 DEF IndInv

-------------------------------------------------------------------------------
(* The auth service *)

LEMMA LoginKeeps == ASSUME IndInv, NEW p \in Procs, Login(p) PROVE IndInv'
<1> DEFINE j == [Idle EXCEPT !.op = "login", !.phase = "issue"]
<1>1. Idle \in Job /\ JobInv(Idle, tokens, given, rows, revoked, key, cache)
    BY IdleOK DEF IndInv
<1>2. j \in Job
    BY <1>1 DEF Job
<1>3. JobInv(j, tokens, given, rows, revoked, key, cache)
    BY <1>1 DEF JobInv, AuthInv, ReuseInv, AccessInv, Excused, AuthPhases,
                AccessPhases, Idle
<1>4. job' = [job EXCEPT ![p] = j] /\ UNCHANGED <<key, retired, tables, cache>>
    BY DEF Login
<1>5. job[p].phase # "create" /\ j.phase # "store"
    BY DEF Login, Idle
<1> HIDE DEF j
<1> QED
    BY <1>2, <1>3, <1>4, <1>5, PlainStep

LEMMA RefreshKeeps == ASSUME IndInv, NEW p \in Procs, Refresh(p) PROVE IndInv'
<1>1. PICK t \in given : job' = [job EXCEPT ![p] =
         [Idle EXCEPT !.op = "refresh", !.token = t,
                      !.phase = IF tokens[t].key = key THEN "session" ELSE "refused",
                      !.reused = \E s \in given : tokens[s].parent = t]]
    BY DEF Refresh
<1> DEFINE ph == IF tokens[t].key = key THEN "session" ELSE "refused"
           again == \E s \in given : tokens[s].parent = t
           j == [Idle EXCEPT !.op = "refresh", !.token = t, !.phase = ph,
                             !.reused = again]
<1>2. Idle \in Job /\ JobInv(Idle, tokens, given, rows, revoked, key, cache)
    BY IdleOK DEF IndInv
<1>3. t \in Nat /\ t # 0
    BY DEF IndInv, TypeOK, Tokens
<1>4. ph \in {"session", "refused"} /\ again \in BOOLEAN
    OBVIOUS
<1>5. again => t \in revoked
    BY <1>3 DEF IndInv, TableInv
<1> HIDE DEF ph, again
<1>6. j \in Job
    BY <1>2, <1>3, <1>4 DEF Job
<1>7. /\ j.op = "refresh" /\ j.token = t /\ j.phase = ph /\ j.reused = again
      /\ j.sig = 0 /\ j.round = "first"
    BY DEF Idle
<1> HIDE DEF j
<1>8. AuthInv(j, tokens, given, rows, revoked) /\ ReuseInv(j, revoked)
    BY <1>4, <1>5, <1>7 DEF AuthInv, ReuseInv, AuthPhases
<1>9. AccessInv(j, key, cache)
    BY <1>2, <1>4, <1>7 DEF JobInv, AccessInv, Excused, AccessPhases, Idle
<1>10. job' = [job EXCEPT ![p] = j] /\ UNCHANGED <<key, retired, tables, cache>>
    BY <1>1 DEF Refresh, j, ph, again
<1>11. job[p].phase # "create" /\ j.phase # "store"
    BY <1>4, <1>7 DEF Refresh, Idle
<1> QED
    BY <1>6, <1>8, <1>9, <1>10, <1>11, PlainStep DEF JobInv

(* A session that was found is not revoked, so it was not exchanged before. *)
LEMMA GetRefreshSessionKeeps ==
    ASSUME IndInv, NEW p \in Procs, GetRefreshSession(p) PROVE IndInv'
<1> DEFINE ph == IF job[p].token \in rows \ revoked THEN "issue" ELSE "refused"
           j == [job[p] EXCEPT !.phase = ph]
<1>1. job[p] \in Job /\ JobInv(job[p], tokens, given, rows, revoked, key, cache)
    BY DEF IndInv, Jobs
<1>2. job[p].phase = "session" /\ job[p].op = "refresh"
    BY <1>1 DEF GetRefreshSession, JobInv, AuthInv
<1>3. ph \in {"issue", "refused"} /\ (ph = "issue" => job[p].token \notin revoked)
    OBVIOUS
<1> HIDE DEF ph
<1>4. j \in Job
    BY <1>1, <1>3 DEF Job
<1>5. JobInv(j, tokens, given, rows, revoked, key, cache)
    BY <1>1, <1>2, <1>3 DEF JobInv, AuthInv, ReuseInv, AccessInv, Excused,
                            AuthPhases, AccessPhases, Job
<1>6. job' = [job EXCEPT ![p] = j] /\ UNCHANGED <<key, retired, tables, cache>>
    BY DEF GetRefreshSession, Goto, ph
<1>7. j.phase # "store"
    BY <1>1, <1>3 DEF Job
<1> HIDE DEF j
<1> QED
    BY <1>2, <1>4, <1>5, <1>6, <1>7, PlainStep

LEMMA IssueTokensKeeps == ASSUME IndInv, NEW p \in Procs, IssueTokens(p) PROVE IndInv'
<1> DEFINE n == Len(tokens) + 1
           ph == IF job[p].op = "login" THEN "create" ELSE "revoke"
           row == [key |-> key, parent |-> job[p].token]
           j == [job[p] EXCEPT !.phase = ph, !.new = n]
<1>1. job[p] \in Job /\ JobInv(job[p], tokens, given, rows, revoked, key, cache)
    BY DEF IndInv, Jobs
<1>2. /\ job[p].phase = "issue" /\ tokens' = Append(tokens, row)
      /\ job' = [job EXCEPT ![p] = j]
      /\ UNCHANGED <<key, retired, given, rows, revoked, cut, cache>>
    BY DEF IssueTokens
<1>3. tokens \in Seq([key : Nat, parent : Nat]) /\ row \in [key : Nat, parent : Nat]
    BY <1>1 DEF IndInv, TypeOK, Job
<1>4. /\ tokens' \in Seq([key : Nat, parent : Nat]) /\ Len(tokens') = n /\ n \in Nat
      /\ \A t \in 1..Len(tokens) : tokens'[t] = tokens[t]
      /\ tokens'[n] = row /\ Len(tokens) \in Nat
    BY <1>2, <1>3
<1>5. row.key = key /\ row.parent = job[p].token /\ n = Len(tokens) + 1
    OBVIOUS
<1>6. job[p].op \in {"login", "refresh"}
    BY <1>1, <1>2 DEF JobInv, AuthInv, AuthPhases
<1>7. ph \in {"create", "revoke"} /\ (ph = "create" <=> job[p].op = "login")
    OBVIOUS
<1> HIDE DEF n, row, ph
<1>8. j \in Job
    BY <1>1, <1>4, <1>7 DEF Job
<1>9. TypeOK'
    BY <1>2, <1>4, <1>5, <1>8 DEF IndInv, TypeOK, Tokens
<1>10. TablesGrow
    BY <1>2, <1>4, <1>5 DEF TablesGrow
<1>11. JobInv(job[p], tokens', given', rows', revoked', key, cache)
    BY <1>1, <1>9, <1>10, JobKept
<1>12. n \in 1..Len(tokens') /\ tokens'[n].parent = job[p].token
    BY <1>4, <1>5
<1>13. JobInv(j, tokens', given', rows', revoked', key, cache)
    BY <1>1, <1>2, <1>6, <1>7, <1>11, <1>12
       DEF JobInv, AuthInv, ReuseInv, AccessInv, Excused, AuthPhases, AccessPhases, Job
<1>14. j.phase # "store"
    BY <1>1, <1>7 DEF Job
<1> HIDE DEF j
<1>15. Jobs' /\ AgeInv'
    BY <1>2, <1>8, <1>9, <1>10, <1>13, <1>14, OneJob
<1>16. TableInv'
    <2>1. \A t \in 1..Len(tokens') : tokens'[t].key \in 1..key'
        BY <1>2, <1>4, <1>5 DEF IndInv, TableInv, Tokens, TypeOK
    <2>2. \A t \in given' : tokens'[t].parent # 0 => tokens'[t].parent \in revoked'
        BY <1>2, <1>4 DEF IndInv, TableInv, Tokens, TypeOK
    <2> QED
        BY <1>2, <2>1, <2>2 DEF IndInv, TableInv, Tokens
<1>17. RevokedWasReplaced'
    <2>1. \A s \in rows : tokens'[s] = tokens[s]
        BY <1>4 DEF IndInv, TypeOK, Tokens
    <2>2. Torn(Procs) \subseteq Torn(Procs)'
        BY <1>2 DEF Torn, IndInv, TypeOK
    <2> QED
        BY <1>2, <2>1, <2>2 DEF IndInv, RevokedWasReplaced
<1> QED
    BY <1>9, <1>15, <1>16, <1>17 DEF IndInv

LEMMA RevokeKeeps ==
    ASSUME IndInv, NEW p \in Procs, RevokeRefreshSession(p) PROVE IndInv'
<1> DEFINE t == job[p].token
           j == [job[p] EXCEPT !.phase = "create"]
<1>1. job[p] \in Job /\ JobInv(job[p], tokens, given, rows, revoked, key, cache)
    BY DEF IndInv, Jobs
<1>2. /\ job[p].phase = "revoke" /\ revoked' = revoked \cup {t}
      /\ job' = [job EXCEPT ![p] = j]
      /\ UNCHANGED <<key, retired, tokens, given, rows, cut, cache>>
    BY DEF RevokeRefreshSession, Goto
<1>3. job[p].op = "refresh" /\ t \in given /\ t \in rows
    BY <1>1, <1>2 DEF JobInv, AuthInv, IndInv, TypeOK
<1>4. j \in Job
    BY <1>1 DEF Job
<1>5. TypeOK'
    BY <1>2, <1>3, <1>4 DEF IndInv, TypeOK, Tokens
<1>6. TablesGrow
    BY <1>2 DEF TablesGrow, IndInv, TypeOK
<1>7. JobInv(job[p], tokens', given', rows', revoked', key, cache)
    BY <1>1, <1>5, <1>6, JobKept
<1>8. t \in revoked'
    BY <1>2
<1>9. JobInv(j, tokens', given', rows', revoked', key, cache)
    BY <1>1, <1>2, <1>3, <1>7, <1>8
       DEF JobInv, AuthInv, ReuseInv, AccessInv, Excused, AuthPhases, AccessPhases, Job
<1>10. j.phase = "create" /\ j.op = "refresh" /\ j.token = t
    BY <1>1, <1>3 DEF Job
<1> HIDE DEF j
<1>11. Jobs' /\ AgeInv'
    BY <1>2, <1>4, <1>5, <1>6, <1>9, <1>10, OneJob
<1>12. TableInv'
    BY <1>2 DEF IndInv, TableInv, Tokens
<1>13. RevokedWasReplaced'
    <2>1. job'[p] = j /\ \A q \in Procs : q # p => job'[q] = job[q]
        BY <1>2 DEF IndInv, TypeOK
    <2>2. t \in Torn(Procs)' /\ Torn(Procs) \subseteq Torn(Procs)'
        BY <1>2, <1>10, <2>1 DEF Torn
    <2> QED
        BY <1>2, <2>2 DEF IndInv, RevokedWasReplaced
<1> QED
    BY <1>5, <1>11, <1>12, <1>13 DEF IndInv

LEMMA CreateKeeps ==
    ASSUME IndInv, NEW p \in Procs, CreateRefreshSession(p) PROVE IndInv'
<1> DEFINE j == [job[p] EXCEPT !.phase = "reply"]
<1>1. job[p] \in Job /\ JobInv(job[p], tokens, given, rows, revoked, key, cache)
    BY DEF IndInv, Jobs
<1>2. /\ job[p].phase = "create" /\ rows' = rows \cup {job[p].new}
      /\ job' = [job EXCEPT ![p] = j]
      /\ UNCHANGED <<key, retired, tokens, given, revoked, cut, cache>>
    BY DEF CreateRefreshSession, Goto
<1>3. /\ job[p].op \in {"login", "refresh"}
      /\ job[p].new \in 1..Len(tokens) /\ tokens[job[p].new].parent = job[p].token
    BY <1>1, <1>2 DEF JobInv, AuthInv, AuthPhases
<1>4. j \in Job
    BY <1>1 DEF Job
<1>5. TypeOK'
    BY <1>2, <1>3, <1>4 DEF IndInv, TypeOK, Tokens
<1>6. TablesGrow
    BY <1>2 DEF TablesGrow, IndInv, TypeOK
<1>7. JobInv(job[p], tokens', given', rows', revoked', key, cache)
    BY <1>1, <1>5, <1>6, JobKept
<1>8. job[p].new \in rows'
    BY <1>2
<1>9. JobInv(j, tokens', given', rows', revoked', key, cache)
    BY <1>1, <1>2, <1>3, <1>7, <1>8
       DEF JobInv, AuthInv, ReuseInv, AccessInv, Excused, AuthPhases, AccessPhases, Job
<1>10. j.phase = "reply"
    BY <1>1 DEF Job
<1> HIDE DEF j
<1>11. Jobs' /\ AgeInv'
    BY <1>2, <1>4, <1>5, <1>6, <1>9, <1>10, OneJob
<1>12. TableInv'
    BY <1>2 DEF IndInv, TableInv, Tokens
<1>13. RevokedWasReplaced'
    <2>1. \A q \in Procs : q # p => job'[q] = job[q]
        BY <1>2 DEF IndInv, TypeOK
    <2>2. \A t \in Torn(Procs) : t = job[p].token \/ t \in Torn(Procs)'
        BY <2>1 DEF Torn
    <2> SUFFICES ASSUME NEW t \in revoked \ cut
                 PROVE  (\E s \in rows' : tokens[s].parent = t) \/ t \in Torn(Procs)'
        BY <1>2 DEF RevokedWasReplaced
    <2>3. CASE \E s \in rows : tokens[s].parent = t
        BY <2>3, <1>2
    <2>4. CASE t \in Torn(Procs)
        BY <2>2, <2>4, <1>3, <1>8
    <2> QED
        BY <2>3, <2>4 DEF IndInv, RevokedWasReplaced
<1> QED
    BY <1>5, <1>11, <1>12, <1>13 DEF IndInv

(* The token a client gets was exchanged for one that is revoked. *)
LEMMA ReplyKeeps == ASSUME IndInv, NEW p \in Procs, Reply(p) PROVE IndInv'
<1>1. job[p] \in Job /\ JobInv(job[p], tokens, given, rows, revoked, key, cache)
    BY DEF IndInv, Jobs
<1>2. /\ job[p].phase = "reply" /\ given' = given \cup {job[p].new}
      /\ job' = [job EXCEPT ![p] = Idle]
      /\ UNCHANGED <<key, retired, tokens, rows, revoked, cut, cache>>
    BY DEF Reply
<1>3. /\ job[p].op \in {"login", "refresh"}
      /\ job[p].op = "login" => job[p].token = 0
      /\ job[p].op = "refresh" => job[p].token \in revoked
      /\ job[p].new \in rows /\ tokens[job[p].new].parent = job[p].token
    BY <1>1, <1>2 DEF JobInv, AuthInv, AuthPhases
<1>4. Idle \in Job
    BY IdleOK DEF IndInv
<1>5. TypeOK'
    BY <1>2, <1>3, <1>4 DEF IndInv, TypeOK, Tokens
<1>6. TableInv'
    BY <1>2, <1>3 DEF IndInv, TableInv, Tokens
<1>7. TablesGrow
    BY <1>2 DEF TablesGrow, IndInv, TypeOK
<1>8. JobInv(Idle, tokens', given', rows', revoked', key, cache)
    <2>1. JobInv(Idle, tokens, given, rows, revoked, key, cache)
        BY IdleOK DEF IndInv
    <2> QED
        BY <2>1, <1>4, <1>5, <1>7, JobKept
<1>9. Idle.phase # "store"
    BY DEF Idle
<1>10. Jobs' /\ AgeInv'
    BY <1>2, <1>4, <1>5, <1>7, <1>8, <1>9, OneJob
<1>11. Torn(Procs) \subseteq Torn(Procs)'
    BY <1>2 DEF Torn, IndInv, TypeOK
<1>12. RevokedWasReplaced'
    BY <1>2, <1>11 DEF RevokedWasReplaced, IndInv
<1> QED
    BY <1>5, <1>6, <1>10, <1>12 DEF IndInv

(* The session of a refresh that ends between the two writes is cut. *)
LEMMA EndKeeps == ASSUME IndInv, NEW p \in Procs, End(p) PROVE IndInv'
<1>1. job[p] \in Job /\ JobInv(job[p], tokens, given, rows, revoked, key, cache)
    BY DEF IndInv, Jobs
<1>2. /\ cut' = cut \cup Torn({p}) /\ job' = [job EXCEPT ![p] = Idle]
      /\ UNCHANGED <<key, retired, tokens, given, rows, revoked, cache>>
    BY DEF End
<1>3. Torn({p}) \subseteq revoked
    BY <1>1 DEF Torn, JobInv, AuthInv
<1>4. Idle \in Job
    BY IdleOK DEF IndInv
<1>5. TypeOK'
    BY <1>2, <1>3, <1>4 DEF IndInv, TypeOK, Tokens
<1>6. TableInv'
    BY <1>2 DEF IndInv, TableInv, Tokens
<1>7. TablesGrow
    BY <1>2 DEF TablesGrow, IndInv, TypeOK
<1>8. JobInv(Idle, tokens', given', rows', revoked', key, cache)
    <2>1. JobInv(Idle, tokens, given, rows, revoked, key, cache)
        BY IdleOK DEF IndInv
    <2> QED
        BY <2>1, <1>4, <1>5, <1>7, JobKept
<1>9. Idle.phase # "store"
    BY DEF Idle
<1>10. Jobs' /\ AgeInv'
    BY <1>2, <1>4, <1>5, <1>7, <1>8, <1>9, OneJob
<1>11. Torn(Procs) \subseteq Torn(Procs)' \cup Torn({p})
    BY <1>2 DEF Torn, IndInv, TypeOK
<1>12. RevokedWasReplaced'
    BY <1>2, <1>11 DEF RevokedWasReplaced, IndInv
<1> QED
    BY <1>5, <1>6, <1>10, <1>12 DEF IndInv

(* A restart cuts every refresh that is between the two writes.  The key it *)
(* replaces has been replaced for no time yet.                              *)
LEMMA RestartAuthKeeps == ASSUME IndInv, RestartAuth PROVE IndInv'
<1>1. /\ key < MaxKeys /\ key' = key + 1 /\ key \in Nat
      /\ job' = [p \in Procs |->
                   IF job[p].op \in {"login", "refresh"} THEN Idle ELSE job[p]]
      /\ cut' = cut \cup Torn(Procs)
      /\ UNCHANGED <<retired, tokens, given, rows, revoked, cache>>
    BY DEF RestartAuth, IndInv, TypeOK
<1>2. \A p \in Procs :
        job[p] \in Job /\ JobInv(job[p], tokens, given, rows, revoked, key, cache)
    BY DEF IndInv, Jobs
<1>3. Torn(Procs) \subseteq revoked
    BY <1>2 DEF Torn, JobInv, AuthInv
<1>4. Idle \in Job
    BY IdleOK DEF IndInv
<1>5. TypeOK'
    <2>1. job' \in [Procs -> Job]
        BY <1>1, <1>2, <1>4
    <2>2. key' \in Nat /\ cut' \subseteq revoked'
        BY <1>1, <1>3 DEF IndInv, TypeOK
    <2> QED
        BY <1>1, <2>1, <2>2 DEF IndInv, TypeOK, Tokens
<1>6. TableInv'
    <2>1. key' >= 1 /\ key' <= MaxKeys
        BY <1>1, ConstantsAssumption
    <2>2. \A t \in Tokens : tokens[t].key \in 1..key'
        BY <1>1 DEF IndInv, TableInv
    <2> QED
        BY <1>1, <2>1, <2>2 DEF IndInv, TableInv, Tokens
<1>7. ASSUME NEW p \in Procs
      PROVE  JobInv(job'[p], tokens', given', rows', revoked', key', cache')
    <2>1. CASE job[p].op \in {"login", "refresh"}
        <3>1. job'[p] = Idle
            BY <1>1, <2>1
        <3>2. JobInv(Idle, tokens', given', rows', revoked', key', cache')
            BY <1>5, <1>6, IdleOK DEF JobInv, AuthInv, ReuseInv, AccessInv, Idle,
               Excused, AuthPhases, AccessPhases, TypeOK, TableInv
        <3> QED
            BY <3>1, <3>2
    <2>2. CASE job[p].op \notin {"login", "refresh"}
        <3>1. job'[p] = job[p]
            BY <1>1, <2>2
        <3>2. AccessInv(job[p], key + 1, cache)
            BY <1>1, <1>2 DEF JobInv, AccessInv, Excused, Job
        <3> QED
            BY <1>1, <1>2, <3>1, <3>2 DEF JobInv
    <2> QED
        BY <2>1, <2>2
<1>8. Jobs'
    BY <1>1, <1>2, <1>4, <1>7 DEF Jobs
<1>9. AgeInv'
    <2>1. \A k \in 1..MaxKeys : k >= key => retired[k] = 0
        BY DEF IndInv, AgeInv
    <2>2. key \in 1..MaxKeys
        BY <1>1, ConstantsAssumption DEF IndInv, TableInv
    <2>3. retired[key] = 0
        BY <1>1, <2>1, <2>2
    <2>4. cache.doc \in 0..key /\ cache.doc \in Nat /\ cache.age \in Nat
        BY ConstantsAssumption DEF IndInv, AgeInv, TypeOK, Cache
    <2>5. cache.doc # 0 /\ cache.doc < key' =>
            retired'[cache'.doc] <= cache'.age + Timeout \/ cache'.age > TTL
        BY <1>1, <2>3, <2>4, ConstantsAssumption DEF IndInv, AgeInv
    <2>6. ASSUME NEW p \in Procs, job'[p].phase = "store", job'[p].doc < key',
                 job'[p].age <= Timeout
          PROVE  retired'[job'[p].doc] <= job'[p].age
        <3>1. job'[p] = job[p]
            BY <1>1, <2>6 DEF Idle
        <3>2. job[p].doc \in 1..key /\ job[p].age \in Nat
            BY <1>2, <2>6, <3>1, ConstantsAssumption DEF JobInv, AccessInv, Job
        <3>3. CASE job[p].doc = key
            BY <1>1, <2>3, <3>1, <3>2, <3>3
        <3>4. CASE job[p].doc < key
            BY <1>1, <2>6, <3>1, <3>4 DEF IndInv, AgeInv
        <3> QED
            BY <1>1, <3>2, <3>3, <3>4
    <2>7. \A k \in 1..MaxKeys : k >= key' => retired'[k] = 0
        BY <1>1, <2>1
    <2>8. cache'.doc \in 0..key'
        BY <1>1, <2>4
    <2> QED
        BY <1>1, <2>5, <2>6, <2>7, <2>8 DEF AgeInv
<1>10. RevokedWasReplaced'
    BY <1>1 DEF RevokedWasReplaced, IndInv
<1> QED
    BY <1>5, <1>6, <1>8, <1>9, <1>10 DEF IndInv

-------------------------------------------------------------------------------
(* The gateway *)

LEMMA RequireAuthKeeps == ASSUME IndInv, NEW p \in Procs, RequireAuth(p) PROVE IndInv'
<1>1. PICK k \in {tokens[t].key : t \in given} \cup {0} : job' = [job EXCEPT ![p] =
         [Idle EXCEPT !.op = "access", !.phase = "lookup", !.sig = k]]
    BY DEF RequireAuth
<1> DEFINE j == [Idle EXCEPT !.op = "access", !.phase = "lookup", !.sig = k]
<1>2. k \in 0..key /\ k \in Nat
    BY DEF IndInv, TypeOK, TableInv, Tokens
<1>3. Idle \in Job
    BY IdleOK DEF IndInv
<1>4. j \in Job
    BY <1>2, <1>3 DEF Job
<1>5. JobInv(j, tokens, given, rows, revoked, key, cache)
    BY <1>2 DEF JobInv, AuthInv, ReuseInv, AccessInv, Excused, AuthPhases,
                AccessPhases, Idle
<1>6. job' = [job EXCEPT ![p] = j] /\ UNCHANGED <<key, retired, tables, cache>>
    BY <1>1 DEF RequireAuth
<1>7. job[p].phase # "create" /\ j.phase # "store"
    BY DEF RequireAuth, Idle
<1> HIDE DEF j
<1> QED
    BY <1>4, <1>5, <1>6, <1>7, PlainStep

(* A parse ends with an error, in the first round or with an excuse. *)
LEMMA ParseFailedOK ==
    ASSUME IndInv, NEW j \in Job, j.op = "access", j.sig \in 0..key,
           j.round = "first" \/ Excused(j) \/ (j.round = "second" /\ j.sig < key)
    PROVE  /\ ParseFailed(j) \in Job
           /\ ParseFailed(j).phase \in {"fetch", "refused"}
           /\ JobInv(ParseFailed(j), tokens, given, rows, revoked, key, cache)
<1>1. CASE j.round = "first"
    <2> DEFINE k == [j EXCEPT !.round = "forced", !.phase = "fetch"]
    <2>1. ParseFailed(j) = k /\ k \in Job
        BY <1>1 DEF ParseFailed, Job
    <2>2. /\ k.op = "access" /\ k.phase = "fetch" /\ k.round = "forced"
          /\ k.sig = j.sig
        BY DEF Job
    <2>3. JobInv(k, tokens, given, rows, revoked, key, cache)
        BY <2>2 DEF JobInv, AuthInv, ReuseInv, AccessInv, AuthPhases, AccessPhases
    <2> QED
        BY <2>1, <2>2, <2>3
<1>2. CASE j.round # "first"
    <2> DEFINE k == [j EXCEPT !.phase = "refused"]
    <2>1. ParseFailed(j) = k /\ k \in Job
        BY <1>2 DEF ParseFailed, Job
    <2>2. /\ k.op = "access" /\ k.phase = "refused" /\ k.round = j.round
          /\ k.sig = j.sig /\ k.failed = j.failed /\ k.overtaken = j.overtaken
        BY DEF Job
    <2>3. JobInv(k, tokens, given, rows, revoked, key, cache)
        BY <1>2, <2>2 DEF JobInv, AuthInv, ReuseInv, AccessInv, Excused, AuthPhases, AccessPhases
    <2> QED
        BY <2>1, <2>2, <2>3
<1> QED
    BY <1>1, <1>2

(* The signature is checked with a cached key: if it fails in the second    *)
(* round, the document is newer than the token or there is an excuse.       *)
LEMMA VerifyKeeps ==
    ASSUME IndInv, NEW p \in Procs, job[p].phase \in {"lookup", "again"},
           CachedKey # 0, Verify(p, CachedKey),
           UNCHANGED <<key, retired, tables, cache>>
    PROVE  IndInv'
<1> DEFINE k == CachedKey
           j == IF job[p].sig = k THEN [job[p] EXCEPT !.phase = "accepted"]
                ELSE ParseFailed(job[p])
<1>1. job[p] \in Job /\ JobInv(job[p], tokens, given, rows, revoked, key, cache)
    BY DEF IndInv, Jobs
<1>2. job[p].op = "access" /\ job[p].sig \in 0..key /\ key \in Nat
    BY <1>1 DEF JobInv, AccessInv, AccessPhases, IndInv, TypeOK
<1>3. job[p].round \in {"first", "forced", "second"}
    BY <1>1 DEF Job
<1>4. job[p].round = "forced" => Excused(job[p])
    BY <1>1 DEF JobInv, AccessInv
<1>5. j \in Job /\ j.phase # "store"
      /\ JobInv(j, tokens, given, rows, revoked, key, cache)
    <2>1. CASE job[p].sig = k
        <3> DEFINE a == [job[p] EXCEPT !.phase = "accepted"]
        <3>1. j = a /\ a \in Job
            BY <2>1, <1>1 DEF Job
        <3>2. /\ a.op = "access" /\ a.phase = "accepted" /\ a.round = job[p].round
              /\ a.sig = job[p].sig /\ a.failed = job[p].failed
              /\ a.overtaken = job[p].overtaken
            BY <1>1, <1>2 DEF Job
        <3> HIDE DEF a, j, k
        <3>3. JobInv(a, tokens, given, rows, revoked, key, cache)
            BY <1>2, <1>4, <3>2 DEF JobInv, AuthInv, ReuseInv, AccessInv, Excused,
                                    AuthPhases, AccessPhases
        <3> QED
            BY <3>1, <3>2, <3>3
    <2>2. CASE job[p].sig # k
        <3>1. k = cache.doc /\ cache.doc \in 0..key
            BY DEF CachedKey, IndInv, AgeInv
        <3>2. job[p].round = "second" => Excused(job[p]) \/ job[p].sig < key
            BY <1>1, <1>2, <2>2, <3>1 DEF JobInv, AccessInv
        <3>3. j = ParseFailed(job[p])
            BY <2>2
        <3> HIDE DEF j, k
        <3> QED
            BY <1>1, <1>2, <1>3, <1>4, <3>2, <3>3, ParseFailedOK
    <2> QED
        BY <2>1, <2>2
<1>6. job' = [job EXCEPT ![p] = j]
    BY DEF Verify
<1> HIDE DEF j
<1> QED
    BY <1>5, <1>6, PlainStep

LEMMA LookupKeyKeeps == ASSUME IndInv, NEW p \in Procs, LookupKey(p) PROVE IndInv'
<1> DEFINE j == [job[p] EXCEPT !.phase = "check"]
<1>1. job[p] \in Job /\ JobInv(job[p], tokens, given, rows, revoked, key, cache)
    BY DEF IndInv, Jobs
<1>2. CASE CachedKey # 0
    BY <1>2, VerifyKeeps DEF LookupKey
<1>3. CASE CachedKey = 0
    <2>1. job[p].phase = "lookup" /\ job[p].op = "access" /\ job[p].sig \in 0..key
        BY <1>1 DEF LookupKey, JobInv, AccessInv, AccessPhases
    <2>2. cache.age = 0 => cache.doc = 0
        BY <1>3, ConstantsAssumption DEF CachedKey
    <2>3. job[p].round = "second" => Excused(job[p])
        BY <1>1, <2>1, <2>2 DEF JobInv, AccessInv, Excused, IndInv, TypeOK
    <2>4. j \in Job
        BY <1>1 DEF Job
    <2>5. /\ j.op = "access" /\ j.phase = "check" /\ j.round = job[p].round
          /\ j.sig = job[p].sig /\ j.failed = job[p].failed
          /\ j.overtaken = job[p].overtaken
        BY <1>1, <2>1 DEF Job
    <2>6. job' = [job EXCEPT ![p] = j] /\ UNCHANGED <<key, retired, tables, cache>>
        BY <1>3 DEF LookupKey, Goto
    <2> HIDE DEF j
    <2>7. JobInv(j, tokens, given, rows, revoked, key, cache)
        BY <1>1, <2>1, <2>3, <2>5 DEF JobInv, AuthInv, ReuseInv, AccessInv, Excused,
                                      AuthPhases, AccessPhases
    <2> QED
        BY <2>1, <2>4, <2>5, <2>6, <2>7, PlainStep
<1> QED
    BY <1>2, <1>3

LEMMA CheckKeysKeeps == ASSUME IndInv, NEW p \in Procs, CheckKeys(p) PROVE IndInv'
<1> DEFINE ph == IF cache.age <= TTL /\ cache.doc # 0 THEN "again" ELSE "fetch"
           j == [job[p] EXCEPT !.phase = ph]
<1>1. job[p] \in Job /\ JobInv(job[p], tokens, given, rows, revoked, key, cache)
    BY DEF IndInv, Jobs
<1>2. job[p].phase = "check" /\ job[p].op = "access"
    BY <1>1 DEF CheckKeys, JobInv, AccessInv, AccessPhases
<1>3. job' = [job EXCEPT ![p] = j] /\ UNCHANGED <<key, retired, tables, cache>>
    BY DEF CheckKeys, Goto
<1>4. ph \in {"again", "fetch"}
    OBVIOUS
<1> HIDE DEF ph
<1>5. j \in Job
    BY <1>1, <1>4 DEF Job
<1>6. /\ j.op = "access" /\ j.phase = ph /\ j.round = job[p].round
      /\ j.sig = job[p].sig /\ j.failed = job[p].failed
      /\ j.overtaken = job[p].overtaken
    BY <1>1, <1>2 DEF Job
<1> HIDE DEF j
<1>7. JobInv(j, tokens, given, rows, revoked, key, cache)
    BY <1>1, <1>2, <1>4, <1>6 DEF JobInv, AuthInv, ReuseInv, AccessInv, Excused,
                                  AuthPhases, AccessPhases
<1> QED
    BY <1>2, <1>3, <1>4, <1>5, <1>6, <1>7, PlainStep

LEMMA FetchKeysKeeps == ASSUME IndInv, NEW p \in Procs, FetchKeys(p) PROVE IndInv'
<1> DEFINE j == [job[p] EXCEPT !.phase = "store", !.doc = key, !.age = 0]
<1>1. job[p] \in Job /\ JobInv(job[p], tokens, given, rows, revoked, key, cache)
    BY DEF IndInv, Jobs
<1>2. job[p].phase = "fetch" /\ job[p].op = "access" /\ key \in Nat /\ key >= 1
    BY <1>1 DEF FetchKeys, JobInv, AccessInv, AccessPhases, IndInv, TypeOK, TableInv
<1>3. job' = [job EXCEPT ![p] = j] /\ UNCHANGED <<key, retired, tables, cache>>
    BY DEF FetchKeys
<1>4. j \in Job
    <2>1. 0 \in 0..(Timeout + 1)
        BY ConstantsAssumption
    <2> QED
        BY <1>1, <1>2, <2>1 DEF Job
<1>5. /\ j.op = "access" /\ j.phase = "store" /\ j.round = job[p].round
      /\ j.sig = job[p].sig /\ j.failed = job[p].failed
      /\ j.overtaken = job[p].overtaken /\ j.doc = key
    BY <1>1, <1>2 DEF Job
<1> HIDE DEF j
<1>6. JobInv(j, tokens, given, rows, revoked, key, cache)
    BY <1>1, <1>2, <1>5 DEF JobInv, AuthInv, ReuseInv, AccessInv, Excused,
                            AuthPhases, AccessPhases
<1> QED
    BY <1>2, <1>3, <1>4, <1>5, <1>6, PlainStep

LEMMA FetchFailsKeeps == ASSUME IndInv, NEW p \in Procs, FetchFails(p) PROVE IndInv'
<1> DEFINE j == [job[p] EXCEPT !.failed = TRUE, !.doc = 0, !.age = 0]
<1>1. job[p] \in Job /\ JobInv(job[p], tokens, given, rows, revoked, key, cache)
    BY DEF IndInv, Jobs
<1>2. job[p].phase \in {"fetch", "store"} /\ job[p].op = "access" /\ job[p].sig \in 0..key
    BY <1>1 DEF FetchFails, JobInv, AccessInv, AccessPhases
<1>3. job' = [job EXCEPT ![p] = ParseFailed(j)]
      /\ UNCHANGED <<key, retired, tables, cache>>
    BY DEF FetchFails
<1>4. j \in Job
    <2>1. 0 \in 0..(Timeout + 1)
        BY ConstantsAssumption
    <2> QED
        BY <1>1, <2>1 DEF Job
<1>5. j.op = "access" /\ j.sig \in 0..key /\ Excused(j)
    BY <1>1, <1>2 DEF Job, Excused
<1> HIDE DEF j
<1> QED
    BY <1>2, <1>3, <1>4, <1>5, ParseFailedOK, PlainStep

LEMMA LookupAgainKeeps == ASSUME IndInv, NEW p \in Procs, LookupAgain(p) PROVE IndInv'
<1>1. job[p] \in Job /\ JobInv(job[p], tokens, given, rows, revoked, key, cache)
    BY DEF IndInv, Jobs
<1>2. CASE CachedKey # 0
    BY <1>2, VerifyKeeps DEF LookupAgain
<1>3. CASE CachedKey = 0
    <2>1. /\ job[p].phase = "again" /\ job[p].op = "access" /\ job[p].sig \in 0..key
          /\ job[p].round # "first" => Excused(job[p])
        BY <1>1 DEF LookupAgain, JobInv, AccessInv, AccessPhases, Job
    <2>2. job' = [job EXCEPT ![p] = ParseFailed(job[p])]
          /\ UNCHANGED <<key, retired, tables, cache>>
        BY <1>3 DEF LookupAgain
    <2> QED
        BY <1>1, <2>1, <2>2, ParseFailedOK, PlainStep
<1> QED
    BY <1>2, <1>3

(* What another request stores leaves a request what it knows: a document   *)
(* older than its token excuses it.                                         *)
LEMMA OvertakenOK ==
    ASSUME IndInv, NEW d \in 1..key, NEW j \in Job,
           JobInv(j, tokens, given, rows, revoked, key, cache),
           NEW o \in BOOLEAN, o <=> (j.overtaken \/ d < j.sig)
    PROVE  /\ [j EXCEPT !.overtaken = o] \in Job
           /\ JobInv([j EXCEPT !.overtaken = o], tokens, given, rows, revoked, key,
                     [doc |-> d, age |-> 0])
<1> DEFINE i == [j EXCEPT !.overtaken = o]
           c == [doc |-> d, age |-> 0]
<1>1. i \in Job
    BY DEF Job
<1>2. /\ i.op = j.op /\ i.phase = j.phase /\ i.token = j.token /\ i.new = j.new
      /\ i.sig = j.sig /\ i.round = j.round /\ i.doc = j.doc
      /\ i.failed = j.failed /\ i.reused = j.reused /\ i.overtaken = o
    BY DEF Job
<1>3. c.doc = d /\ c.age = 0
    OBVIOUS
<1>4. key \in Nat /\ j.sig \in Nat
    BY DEF IndInv, TypeOK, Job
<1> HIDE DEF i, c
<1>5. AuthInv(i, tokens, given, rows, revoked) /\ ReuseInv(i, revoked)
    BY <1>2 DEF JobInv, AuthInv, ReuseInv
<1>6. Excused(j) => Excused(i)
    BY <1>2 DEF Excused
<1>7. Excused(i) \/ d >= j.sig
    BY <1>2, <1>4 DEF Excused
<1>8. AccessInv(i, key, c)
    BY <1>2, <1>3, <1>6, <1>7 DEF JobInv, AccessInv
<1> QED
    BY <1>1, <1>5, <1>8 DEF JobInv, i, c

(* The stored document was fetched at most a timeout ago. *)
LEMMA StoreKeysKeeps == ASSUME IndInv, NEW p \in Procs, StoreKeys(p) PROVE IndInv'
<1> DEFINE d == job[p].doc
           c == [doc |-> d, age |-> 0]
           j == [job[p] EXCEPT !.doc = 0, !.age = 0,
                   !.phase = IF job[p].round = "forced" THEN "lookup" ELSE "again",
                   !.round = IF @ = "forced" THEN "second" ELSE @]
<1>1. \A q \in Procs :
        job[q] \in Job /\ JobInv(job[q], tokens, given, rows, revoked, key, cache)
    BY DEF IndInv, Jobs
<1>2. /\ job[p].phase = "store" /\ job[p].age <= Timeout /\ cache' = c
      /\ job' = [q \in Procs |-> IF q = p THEN j
                   ELSE [job[q] EXCEPT !.overtaken = @ \/ d < job[q].sig]]
      /\ UNCHANGED <<key, retired, tokens, given, rows, revoked, cut>>
    BY DEF StoreKeys, tables
<1>3. /\ job[p].op = "access" /\ d \in 1..key /\ job[p].sig \in 0..key
      /\ job[p].sig <= d /\ key \in Nat /\ d \in Nat /\ job[p].age \in Nat
    BY <1>1, <1>2, ConstantsAssumption
       DEF JobInv, AccessInv, AccessPhases, IndInv, TypeOK, Job
<1>4. c \in Cache /\ c.doc = d /\ c.age = 0
    BY <1>3, ConstantsAssumption DEF Cache
<1>5. j \in Job
    <2>1. 0 \in 0..(Timeout + 1)
        BY ConstantsAssumption
    <2> DEFINE ph == IF job[p].round = "forced" THEN "lookup" ELSE "again"
               rd == IF job[p].round = "forced" THEN "second" ELSE job[p].round
    <2>2. ph \in {"lookup", "again"} /\ rd \in {"first", "forced", "second"}
        BY <1>1 DEF Job
    <2> DEFINE k == [job[p] EXCEPT !.doc = 0, !.age = 0]
    <2>3. k \in Job
        <3>1. [job[p] EXCEPT !.doc = 0] \in Job
            BY <1>1 DEF Job
        <3>2. [[job[p] EXCEPT !.doc = 0] EXCEPT !.age = 0] \in Job
            BY <2>1, <3>1 DEF Job
        <3>3. k = [[job[p] EXCEPT !.doc = 0] EXCEPT !.age = 0]
            BY <1>1 DEF Job
        <3> QED
            BY <3>2, <3>3
    <2>4. j = [k EXCEPT !.phase = ph, !.round = rd]
        BY <1>1 DEF Job
    <2> HIDE DEF ph, rd, j, k
    <2> QED
        BY <2>2, <2>3, <2>4 DEF Job
<1>6. /\ j.op = "access" /\ j.sig = job[p].sig
      /\ j.failed = job[p].failed /\ j.overtaken = job[p].overtaken
      /\ job[p].round = "forced" => j.phase = "lookup" /\ j.round = "second"
      /\ job[p].round # "forced" => j.phase = "again" /\ j.round = job[p].round
    BY <1>1, <1>3 DEF Job
<1> HIDE DEF c, j
<1>7. JobInv(j, tokens, given, rows, revoked, key, c)
    BY <1>1, <1>2, <1>3, <1>4, <1>6
       DEF JobInv, AuthInv, ReuseInv, AccessInv, Excused, AuthPhases, AccessPhases
<1>8. ASSUME NEW q \in Procs, q # p
      PROVE  /\ job'[q] \in Job
             /\ JobInv(job'[q], tokens, given, rows, revoked, key, c)
             /\ job'[q].phase = job[q].phase /\ job'[q].doc = job[q].doc
             /\ job'[q].age = job[q].age /\ job'[q].op = job[q].op
             /\ job'[q].token = job[q].token
    <2> DEFINE o == job[q].overtaken \/ d < job[q].sig
               i == [job[q] EXCEPT !.overtaken = o]
    <2>1. job'[q] = i
        BY <1>2, <1>8
    <2>2. o \in BOOLEAN /\ (o <=> (job[q].overtaken \/ d < job[q].sig))
        OBVIOUS
    <2> HIDE DEF o
    <2>3. i \in Job /\ JobInv(i, tokens, given, rows, revoked, key, c)
        BY <1>1, <1>3, <2>2, OvertakenOK DEF c
    <2>4. /\ i.phase = job[q].phase /\ i.doc = job[q].doc /\ i.age = job[q].age
          /\ i.op = job[q].op /\ i.token = job[q].token
        BY <1>1 DEF Job
    <2> QED
        BY <2>1, <2>3, <2>4
<1>9. job'[p] = j /\ job' \in [Procs -> Job]
    BY <1>2, <1>5, <1>8
<1>10. TypeOK'
    BY <1>2, <1>4, <1>9 DEF IndInv, TypeOK, Tokens
<1>11. TableInv'
    BY <1>2 DEF IndInv, TableInv, Tokens
<1>12. Jobs'
    BY <1>2, <1>7, <1>8, <1>9 DEF Jobs
<1>13. AgeInv'
    <2>1. cache'.doc # 0 /\ cache'.doc < key' =>
            retired'[cache'.doc] <= cache'.age + Timeout
        <3>1. SUFFICES ASSUME d < key PROVE retired[d] <= Timeout
            BY <1>2, <1>4, ConstantsAssumption
        <3>2. retired[d] <= job[p].age
            BY <1>2, <3>1 DEF IndInv, AgeInv
        <3>3. d \in 1..MaxKeys
            BY <1>3, <3>1, ConstantsAssumption DEF IndInv, TableInv
        <3>4. retired[d] \in 0..Long
            BY <3>3 DEF IndInv, TypeOK
        <3>5. retired[d] \in Nat
            BY <3>4, ConstantsAssumption DEF Long
        <3> QED
            BY <1>2, <1>3, <3>2, <3>5, ConstantsAssumption
    <2>2. cache'.doc \in 0..key'
        BY <1>2, <1>3, <1>4
    <2>3. \A q \in Procs :
            job'[q].phase = "store" /\ job'[q].doc < key' /\ job'[q].age <= Timeout =>
                retired'[job'[q].doc] <= job'[q].age
        BY <1>2, <1>6, <1>8, <1>9 DEF IndInv, AgeInv
    <2>4. \A k \in 1..MaxKeys : k >= key' => retired'[k] = 0
        BY <1>2 DEF IndInv, AgeInv
    <2> QED
        BY <2>1, <2>2, <2>3, <2>4 DEF AgeInv
<1>14. RevokedWasReplaced'
    <2>1. Torn(Procs) \subseteq Torn(Procs)'
        BY <1>2, <1>8 DEF Torn
    <2> QED
        BY <1>2, <2>1 DEF RevokedWasReplaced, IndInv
<1> QED
    BY <1>10, <1>11, <1>12, <1>13, <1>14 DEF IndInv

(* A request that is not to the gateway does not depend on its cache. *)
LEMMA RestartGatewayKeeps == ASSUME IndInv, RestartGateway PROVE IndInv'
<1>1. /\ cache' = NoKeys
      /\ job' = [p \in Procs |-> IF job[p].op = "access" THEN Idle ELSE job[p]]
      /\ UNCHANGED <<key, retired, tokens, given, rows, revoked, cut>>
    BY DEF RestartGateway, tables
<1>2. \A p \in Procs :
        job[p] \in Job /\ JobInv(job[p], tokens, given, rows, revoked, key, cache)
    BY DEF IndInv, Jobs
<1>3. Idle \in Job
    BY IdleOK DEF IndInv
<1>4. NoKeys \in Cache /\ NoKeys.doc = 0
    BY ConstantsAssumption DEF NoKeys, Cache
<1>5. TypeOK'
    <2>1. job' \in [Procs -> Job]
        BY <1>1, <1>2, <1>3
    <2> QED
        BY <1>1, <1>4, <2>1 DEF IndInv, TypeOK, Tokens
<1>6. TableInv'
    BY <1>1 DEF IndInv, TableInv, Tokens
<1>7. ASSUME NEW p \in Procs
      PROVE  JobInv(job'[p], tokens', given', rows', revoked', key', cache')
    <2>1. CASE job[p].op = "access"
        <3>1. job'[p] = Idle
            BY <1>1, <2>1
        <3>2. JobInv(Idle, tokens', given', rows', revoked', key', cache')
            BY <1>5, <1>6 DEF JobInv, AuthInv, ReuseInv, AccessInv, Idle,
               Excused, AuthPhases, AccessPhases, TypeOK, TableInv
        <3> QED
            BY <3>1, <3>2
    <2>2. CASE job[p].op # "access"
        <3>1. job'[p] = job[p]
            BY <1>1, <2>2
        <3>2. AccessInv(job[p], key, NoKeys)
            BY <1>2, <2>2 DEF JobInv, AccessInv, AccessPhases
        <3> QED
            BY <1>1, <1>2, <3>1, <3>2 DEF JobInv
    <2> QED
        BY <2>1, <2>2
<1>8. Jobs'
    BY <1>5, <1>7 DEF Jobs, TypeOK
<1>9. AgeInv'
    <2>1. ASSUME NEW p \in Procs PROVE job'[p].phase # "store"
        <3>1. job'[p] = IF job[p].op = "access" THEN Idle ELSE job[p]
            BY <1>1
        <3>2. job[p].phase = "store" => job[p].op = "access"
            BY <1>2 DEF JobInv, AccessInv, AccessPhases
        <3> QED
            BY <3>1, <3>2 DEF Idle
    <2>2. cache'.doc \in 0..key'
        BY <1>1, <1>4 DEF IndInv, TypeOK
    <2> QED
        BY <1>1, <1>4, <2>1, <2>2 DEF IndInv, AgeInv
<1>10. RevokedWasReplaced'
    <2>1. Torn(Procs) \subseteq Torn(Procs)'
        BY <1>1 DEF Torn
    <2> QED
        BY <1>1, <2>1 DEF RevokedWasReplaced, IndInv
<1> QED
    BY <1>5, <1>6, <1>8, <1>9, <1>10 DEF IndInv

-------------------------------------------------------------------------------
(* Time passes for keys, fetches and the cache alike. *)
LEMMA OlderOK ==
    ASSUME NEW limit \in Nat, NEW age \in 0..limit
    PROVE  /\ Older(age, limit) \in 0..limit /\ Older(age, limit) <= age + 1
           /\ Older(age, limit) = age + 1 \/ (age = limit /\ Older(age, limit) = limit)
    BY DEF Older

LEMMA TickKeeps == ASSUME IndInv, Tick PROVE IndInv'
<1> DEFINE c == [cache EXCEPT !.age = Older(@, TTL + 1)]
<1>1. /\ \A p \in Procs : job[p].phase \notin {"lookup", "check", "again"}
      /\ cache' = c
      /\ retired' = [k \in 1..MaxKeys |->
                       IF k < key THEN Older(retired[k], Long) ELSE 0]
      /\ job' = [p \in Procs |->
                   IF job[p].phase = "store"
                   THEN [job[p] EXCEPT !.age = Older(@, Timeout + 1)] ELSE job[p]]
      /\ UNCHANGED <<key, tokens, given, rows, revoked, cut>>
    BY DEF Tick, tables
<1>2. \A p \in Procs :
        job[p] \in Job /\ JobInv(job[p], tokens, given, rows, revoked, key, cache)
    BY DEF IndInv, Jobs
<1>3. /\ Long \in Nat /\ TTL + 1 \in Nat /\ Timeout + 1 \in Nat /\ key \in Nat
      /\ TTL \in Nat /\ Timeout \in Nat
    BY ConstantsAssumption DEF Long, IndInv, TypeOK
<1>4. cache \in Cache /\ cache.age \in 0..(TTL + 1)
    BY DEF IndInv, TypeOK, Cache
<1>5. c \in Cache /\ c.doc = cache.doc /\ c.age = Older(cache.age, TTL + 1)
    BY <1>3, <1>4, OlderOK DEF Cache
<1> HIDE DEF c
<1>6. ASSUME NEW k \in 1..MaxKeys
      PROVE  /\ retired[k] \in Nat /\ retired'[k] \in 0..Long
             /\ retired'[k] <= retired[k] + 1 /\ (k >= key => retired'[k] = 0)
    <2>1. retired[k] \in 0..Long
        BY DEF IndInv, TypeOK
    <2>2. retired'[k] = IF k < key THEN Older(retired[k], Long) ELSE 0
        BY <1>1
    <2>3. CASE k < key
        <3>1. Older(retired[k], Long) \in 0..Long
              /\ Older(retired[k], Long) <= retired[k] + 1
            BY <1>3, <2>1, OlderOK
        <3> QED
            BY <1>3, <2>1, <2>2, <2>3, <3>1
    <2>4. CASE ~(k < key)
        BY <1>3, <2>1, <2>2, <2>4
    <2> QED
        BY <1>3, <2>3, <2>4
<1>7. ASSUME NEW p \in Procs
      PROVE  /\ job'[p] \in Job
             /\ JobInv(job'[p], tokens, given, rows, revoked, key, c)
             /\ job'[p].phase = job[p].phase /\ job'[p].doc = job[p].doc
             /\ job'[p].op = job[p].op /\ job'[p].token = job[p].token
             /\ job[p].phase = "store" => job'[p].age = Older(job[p].age, Timeout + 1)
    <2> DEFINE a == IF job[p].phase = "store" THEN Older(job[p].age, Timeout + 1)
                    ELSE job[p].age
               j == [job[p] EXCEPT !.age = a]
    <2>1. job[p] \in Job /\ job[p].age \in 0..(Timeout + 1)
        BY <1>2 DEF Job
    <2>2. a \in 0..(Timeout + 1)
        BY <1>3, <2>1, OlderOK
    <2>3. job'[p] = j
        <3>1. CASE job[p].phase = "store"
            BY <1>1, <3>1
        <3>2. CASE job[p].phase # "store"
            BY <1>1, <2>1, <3>2 DEF Job
        <3> QED
            BY <3>1, <3>2
    <2>4. job[p].phase = "store" => a = Older(job[p].age, Timeout + 1)
        OBVIOUS
    <2> HIDE DEF a
    <2>5. j \in Job
        BY <2>1, <2>2 DEF Job
    <2>6. /\ j.op = job[p].op /\ j.phase = job[p].phase /\ j.token = job[p].token
          /\ j.new = job[p].new /\ j.sig = job[p].sig /\ j.round = job[p].round
          /\ j.doc = job[p].doc /\ j.failed = job[p].failed
          /\ j.overtaken = job[p].overtaken /\ j.reused = job[p].reused /\ j.age = a
        BY <2>1 DEF Job
    <2> HIDE DEF j
    <2>7. AuthInv(j, tokens, given, rows, revoked) /\ ReuseInv(j, revoked)
        BY <1>2, <2>6 DEF JobInv, AuthInv, ReuseInv
    <2>8. j.phase # "lookup"
        BY <1>1, <2>6
    <2>9. AccessInv(j, key, c)
        BY <1>2, <2>6, <2>8 DEF JobInv, AccessInv, Excused
    <2> QED
        BY <2>3, <2>4, <2>5, <2>6, <2>7, <2>9 DEF JobInv
<1>8. TypeOK'
    <2>1. job' \in [Procs -> Job]
        BY <1>1, <1>7
    <2>2. retired' \in [1..MaxKeys -> 0..Long]
        BY <1>1, <1>6
    <2> QED
        BY <1>1, <1>5, <2>1, <2>2 DEF IndInv, TypeOK, Tokens
<1>9. TableInv'
    BY <1>1 DEF IndInv, TableInv, Tokens
<1>10. Jobs'
    BY <1>1, <1>7, <1>8 DEF Jobs, TypeOK
<1>11. AgeInv'
    <2>1. cache'.doc \in 0..key' /\ \A k \in 1..MaxKeys : k >= key' => retired'[k] = 0
        BY <1>1, <1>5, <1>6 DEF IndInv, AgeInv
    <2>2. \A k \in 1..key : k < key => k \in 1..MaxKeys
        BY <1>3, ConstantsAssumption DEF IndInv, TableInv
    <2>3. ASSUME cache.doc # 0, cache.doc < key
          PROVE  retired'[cache.doc] <= c.age + Timeout \/ c.age > TTL
        <3>1. cache.doc \in 1..MaxKeys
            BY <1>3, <2>2, <2>3 DEF IndInv, AgeInv
        <3>2. retired[cache.doc] <= cache.age + Timeout \/ cache.age > TTL
            BY <2>3 DEF IndInv, AgeInv
        <3>3. \/ c.age = cache.age + 1
              \/ cache.age = TTL + 1 /\ c.age = TTL + 1
            BY <1>3, <1>4, <1>5, OlderOK
        <3>4. /\ retired[cache.doc] \in Nat /\ retired'[cache.doc] \in Nat
              /\ retired'[cache.doc] <= retired[cache.doc] + 1
            BY <1>3, <1>6, <3>1
        <3> QED
            BY <1>3, <1>4, <3>2, <3>3, <3>4
    <2>4. ASSUME NEW p \in Procs, job[p].phase = "store", job[p].doc < key,
                 job'[p].age <= Timeout
          PROVE  retired'[job[p].doc] <= job'[p].age
        <3>1. job[p].age \in 0..(Timeout + 1) /\ job[p].doc \in 1..key
            BY <1>2, <2>4 DEF Job, JobInv, AccessInv
        <3>2. job[p].doc \in 1..MaxKeys
            BY <2>2, <2>4, <3>1
        <3>3. job'[p].age = job[p].age + 1 /\ job[p].age <= Timeout
            <4>1. job'[p].age = Older(job[p].age, Timeout + 1)
                BY <1>7, <2>4
            <4>2. \/ Older(job[p].age, Timeout + 1) = job[p].age + 1
                  \/ Older(job[p].age, Timeout + 1) = Timeout + 1
                BY <1>3, <3>1, OlderOK
            <4> QED
                BY <1>3, <2>4, <3>1, <4>1, <4>2
        <3>4. retired[job[p].doc] <= job[p].age
            BY <2>4, <3>3 DEF IndInv, AgeInv
        <3>5. /\ retired[job[p].doc] \in Nat /\ retired'[job[p].doc] \in Nat
              /\ retired'[job[p].doc] <= retired[job[p].doc] + 1
            BY <1>3, <1>6, <3>2
        <3> QED
            BY <1>3, <3>1, <3>3, <3>4, <3>5
    <2> QED
        BY <1>1, <1>5, <1>7, <2>1, <2>3, <2>4 DEF AgeInv
<1>12. RevokedWasReplaced'
    <2>1. Torn(Procs) \subseteq Torn(Procs)'
        BY <1>7 DEF Torn
    <2> QED
        BY <1>1, <2>1 DEF RevokedWasReplaced, IndInv
<1> QED
    BY <1>8, <1>9, <1>10, <1>11, <1>12 DEF IndInv

-------------------------------------------------------------------------------
LEMMA AuthHandlerKeeps == ASSUME IndInv, NEW p \in Procs, AuthHandler(p) PROVE IndInv'
    BY LoginKeeps, RefreshKeeps, GetRefreshSessionKeeps, IssueTokensKeeps,
       RevokeKeeps, CreateKeeps, ReplyKeeps DEF AuthHandler

LEMMA GatewayHandlerKeeps ==
    ASSUME IndInv, NEW p \in Procs, GatewayHandler(p) PROVE IndInv'
    BY RequireAuthKeeps, LookupKeyKeeps, CheckKeysKeeps, FetchKeysKeeps,
       FetchFailsKeeps, StoreKeysKeeps, LookupAgainKeeps DEF GatewayHandler

LEMMA TokenStep == IndInv /\ [Next]_vars => IndInv'
<1> SUFFICES ASSUME IndInv, [Next]_vars PROVE IndInv'
    OBVIOUS
<1>1. ASSUME NEW p \in Procs, AuthHandler(p) \/ GatewayHandler(p) \/ End(p)
      PROVE  IndInv'
    BY <1>1, AuthHandlerKeeps, GatewayHandlerKeeps, EndKeeps
<1>2. CASE RestartAuth \/ RestartGateway \/ Tick
    BY <1>2, RestartAuthKeeps, RestartGatewayKeeps, TickKeeps
<1>3. CASE UNCHANGED vars
    <2>1. UNCHANGED <<key, retired, tokens, given, rows, revoked, cut, cache, job>>
        BY <1>3 DEF vars
    <2>2. TypeOK' /\ TableInv'
        BY <2>1 DEF IndInv, TypeOK, TableInv, Tokens
    <2>3. AgeInv' /\ Jobs'
        BY <2>1 DEF IndInv, AgeInv, Jobs
    <2>4. RevokedWasReplaced'
        BY <2>1 DEF IndInv, RevokedWasReplaced, Torn
    <2> QED
        BY <2>2, <2>3, <2>4 DEF IndInv
<1> QED
    BY <1>1, <1>2, <1>3 DEF Next

(* The tables, the ages and what every request knows fit together in every  *)
(* reachable state.                                                         *)
THEOREM TokenInvariance == Spec => []IndInv
<1>1. Init => IndInv
    BY TokenInit
<1>2. IndInv /\ [Next]_vars => IndInv'
    BY TokenStep
<1> QED
    BY <1>1, <1>2, PTL DEF Spec

(* Every variable keeps its shape; in particular a client only has tokens   *)
(* with a row in refresh_sessions.                                          *)
THEOREM TokenTypeCorrect == Spec => []TypeOK
<1>1. IndInv => TypeOK
    BY DEF IndInv
<1> QED
    BY <1>1, TokenInvariance, PTL

(* Refresh(): a refresh token that a client has got a new pair for is not   *)
(* exchanged again by a request that comes later.                           *)
THEOREM RefreshTokensWorkOnce == Spec => []ReuseIsRefused
<1>1. IndInv => ReuseIsRefused
    BY DEF IndInv, Jobs, JobInv, ReuseInv, ReuseIsRefused
<1> QED
    BY <1>1, TokenInvariance, PTL

(* Refresh(): a session is revoked only with a replacement, unless the      *)
(* refresh ended between the two statements.                                *)
THEOREM RevocationReplaces == Spec => []RevokedWasReplaced
<1>1. IndInv => RevokedWasReplaced
    BY DEF IndInv
<1> QED
    BY <1>1, TokenInvariance, PTL

(* The gateway refuses a token of the present key only if a fetch of that   *)
(* request failed or an older document was stored while it ran.             *)
THEOREM CurrentKeyAccepted == Spec => []CurrentTokensPass
<1>1. IndInv => CurrentTokensPass
    <2> SUFFICES ASSUME IndInv, NEW p \in Procs, job[p].op = "access",
                        job[p].phase = "refused", job[p].sig = key
                 PROVE  job[p].failed \/ job[p].overtaken
        BY DEF CurrentTokensPass
    <2>1. Excused(job[p]) \/ job[p].sig < key
        BY DEF IndInv, Jobs, JobInv, AccessInv
    <2>2. key \in Nat /\ key >= 1
        BY DEF IndInv, TypeOK, TableInv
    <2> QED
        BY <2>1, <2>2 DEF Excused
<1> QED
    BY <1>1, TokenInvariance, PTL

-------------------------------------------------------------------------------
(* Only the check of a signature with the cached key accepts a token. *)
LEMMA VerifyAccepts ==
    ASSUME IndInv, NEW q \in Procs, NEW k, Verify(q, k), NEW p \in Procs,
           job[p].phase # "accepted", job'[p].phase = "accepted"
    PROVE  job[p].sig = k
<1>1. job \in [Procs -> Job] /\ job[q] \in Job
    BY DEF IndInv, TypeOK
<1>2. p = q
    BY <1>1 DEF Verify
<1>3. ParseFailed(job[q]).phase # "accepted"
    BY <1>1 DEF ParseFailed, Job
<1> QED
    BY <1>1, <1>2, <1>3 DEF Verify

LEMMA AcceptedByCachedKey ==
    ASSUME IndInv, Next, NEW p \in Procs,
           job[p].phase # "accepted", job'[p].phase = "accepted"
    PROVE  CachedKey # 0 /\ job[p].sig = CachedKey
<1>1. job \in [Procs -> Job] /\ \A q \in Procs : job[q] \in Job
    BY DEF IndInv, TypeOK
<1>2. ASSUME NEW q \in Procs, AuthHandler(q) PROVE FALSE
    <2>1. CASE Login(q)
        BY <1>1, <2>1 DEF Login, Idle
    <2>4. CASE Refresh(q)
        <3>1. PICK ph \in {"session", "refused"}, t \in given, again \in BOOLEAN :
                job' = [job EXCEPT ![q] = [Idle EXCEPT
                          !.op = "refresh", !.token = t, !.phase = ph, !.reused = again]]
            BY <2>4 DEF Refresh
        <3>2. job'[q].phase = ph
            BY <1>1, <3>1 DEF Idle
        <3> QED
            BY <1>1, <3>1, <3>2
    <2>2. CASE GetRefreshSession(q) \/ RevokeRefreshSession(q)
               \/ CreateRefreshSession(q)
        BY <1>1, <2>2 DEF GetRefreshSession, RevokeRefreshSession,
                          CreateRefreshSession, Goto, Job
    <2>3. CASE IssueTokens(q)
        <3>1. PICK j : job' = [job EXCEPT ![q] = j] /\ j.phase # "accepted"
            BY <1>1, <2>3 DEF IssueTokens, Job
        <3> QED
            BY <1>1, <3>1
    <2>5. CASE Reply(q)
        BY <1>1, <2>5 DEF Reply, Idle
    <2> QED
        BY <1>2, <2>1, <2>2, <2>3, <2>4, <2>5 DEF AuthHandler
<1>3. ASSUME NEW q \in Procs, GatewayHandler(q)
      PROVE  CachedKey # 0 /\ job[p].sig = CachedKey
    <2>1. CASE RequireAuth(q)
        BY <1>1, <2>1 DEF RequireAuth, Idle
    <2>2. CASE LookupKey(q)
        <3>1. CASE CachedKey # 0
            BY <2>2, <3>1, VerifyAccepts DEF LookupKey
        <3>2. CASE CachedKey = 0
            BY <1>1, <2>2, <3>2 DEF LookupKey, Goto, Job
        <3> QED
            BY <3>1, <3>2
    <2>3. CASE CheckKeys(q) \/ FetchKeys(q)
        <3>1. CASE CheckKeys(q)
            BY <1>1, <3>1 DEF CheckKeys, Goto, Job
        <3>2. CASE FetchKeys(q)
            BY <1>1, <3>2 DEF FetchKeys, Goto, Job
        <3> QED
            BY <2>3, <3>1, <3>2
    <2>4. CASE FetchFails(q)
        <3> DEFINE j == [job[q] EXCEPT !.failed = TRUE, !.doc = 0, !.age = 0]
        <3>1. job' = [job EXCEPT ![q] = ParseFailed(j)]
            BY <2>4 DEF FetchFails
        <3>2. j.phase \in {"fetch", "store"}
            BY <1>1, <2>4 DEF FetchFails, Job
        <3>3. ParseFailed(j).phase # "accepted"
            BY <1>1 DEF ParseFailed, Job
        <3> HIDE DEF j
        <3> QED
            BY <1>1, <3>1, <3>3
    <2>5. CASE StoreKeys(q)
        <3>1. CASE p = q
            BY <1>1, <2>5, <3>1 DEF StoreKeys, Job
        <3>2. CASE p # q
            BY <1>1, <2>5, <3>2 DEF StoreKeys, Job
        <3> QED
            BY <3>1, <3>2
    <2>6. CASE LookupAgain(q)
        <3>1. CASE CachedKey # 0
            BY <2>6, <3>1, VerifyAccepts DEF LookupAgain
        <3>2. CASE CachedKey = 0
            <4>1. ParseFailed(job[q]).phase # "accepted"
                BY <1>1 DEF ParseFailed, Job
            <4> QED
                BY <1>1, <2>6, <3>2, <4>1 DEF LookupAgain
        <3> QED
            BY <3>1, <3>2
    <2> QED
        BY <1>3, <2>1, <2>2, <2>3, <2>4, <2>5, <2>6 DEF GatewayHandler
<1>4. ASSUME NEW q \in Procs, End(q) PROVE FALSE
    BY <1>1, <1>4 DEF End, Idle
<1>5. CASE RestartAuth \/ RestartGateway \/ Tick
    BY <1>1, <1>5 DEF RestartAuth, RestartGateway, Tick, Idle, Job
<1> QED
    BY <1>2, <1>3, <1>4, <1>5 DEF Next

(* The gateway accepts a token of a key that was replaced no longer than    *)
(* the TTL of its cache and the timeout of a fetch after that.              *)
THEOREM ReplacedKeysGoOut == Spec => RetiredKeysExpire
<1> DEFINE Accepting == \A p \in Procs :
             job[p].phase # "accepted" /\ job'[p].phase = "accepted" =>
                 job[p].sig = key \/ retired[job[p].sig] <= TTL + Timeout
<1>1. IndInv /\ [Next]_vars => [Accepting]_vars
    <2> SUFFICES ASSUME IndInv, Next, NEW p \in Procs,
                        job[p].phase # "accepted", job'[p].phase = "accepted",
                        job[p].sig # key
                 PROVE  retired[job[p].sig] <= TTL + Timeout
        OBVIOUS
    <2>1. CachedKey # 0 /\ job[p].sig = CachedKey
        BY AcceptedByCachedKey
    <2>2. ~(cache.age > TTL) /\ cache.doc # 0 /\ job[p].sig = cache.doc
        BY <2>1 DEF CachedKey
    <2>3. key \in Nat /\ cache.age \in Nat /\ TTL \in Nat /\ Timeout \in Nat
        BY ConstantsAssumption DEF IndInv, TypeOK, Cache
    <2>4. cache.doc \in 0..key /\ cache.doc < key
        BY <2>2, <2>3 DEF IndInv, AgeInv
    <2>5. retired[cache.doc] <= cache.age + Timeout
        BY <2>2, <2>4 DEF IndInv, AgeInv
    <2>6. cache.doc \in 1..MaxKeys
        BY <2>2, <2>3, <2>4, ConstantsAssumption DEF IndInv, TableInv
    <2>7. retired[cache.doc] \in 0..Long
        BY <2>6 DEF IndInv, TypeOK
    <2>8. retired[cache.doc] \in Nat
        BY <2>3, <2>7 DEF Long
    <2> QED
        BY <2>2, <2>3, <2>5, <2>8
<1> HIDE DEF Accepting
<1>2. Spec => [][Accepting]_vars
    BY <1>1, TokenInvariance, PTL DEF Spec
<1> QED
    BY <1>2, PTL DEF RetiredKeysExpire, Accepting

===============================================================================
