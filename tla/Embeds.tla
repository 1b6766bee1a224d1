-------------------------------- MODULE Embeds --------------------------------
(***************************************************************************)
(* Tables of an external system embedded in a page.  The page service asks *)
(* the integration service about every table of a document, one after the  *)
(* other: may the user read it, what is its schema, what are its rows.     *)
(* What was found last is cached.                                          *)
(*                                                                         *)
(* A save is strict: a table that could not be read fails it.  A read or a *)
(* restore is not: the embed is degraded to what the cache holds.  A patch *)
(* of the collaboration service asks nothing.  Meanwhile other requests    *)
(* commit revisions and fill the cache, users gain and lose access, the    *)
(* tables change, and any call may fail.                                   *)
(*                                                                         *)
(* One page is modelled, from the revision it was created with.  Of a      *)
(* table only its version counts.                                          *)
(***************************************************************************)
EXTENDS Document, FiniteSets

CONSTANTS Requests,    \* each is one call, with one user
          Ids, Tables,
          Documents,   \* documents clients save
          Patches,     \* sequences of operations clients send
          MaxChanges   \* bound: changes of access and of tables

ASSUME ConstantsAssumption == NoTable \notin Tables /\ MaxChanges \in Nat

VARIABLES revs,     \* the documents of the revisions
          access,   \* the tables the user of a running request can read
          version,  \* the version of a table
          cache,    \* the last preview of a table: a set of at most one
          changes,  \* changes made so far
          job       \* the requests

vars == <<revs, access, version, cache, changes, job>>
environment == <<access, version, changes>>

TablesOf(blocks) == {blocks[i].table : i \in DOMAIN blocks} \ {NoTable}

Blocks == [id : Ids, table : Tables \cup {NoTable}, content : {0, 1}]

(* Documents are sequences of blocks, and operations bring blocks and *)
(* contents.                                                          *)
ASSUME InputsAssumption ==
    /\ Ids # {}
    /\ Documents \subseteq Seq(Blocks)
    /\ \A ops \in Patches :
         /\ Len(ops) \in Nat /\ DOMAIN ops = 1 .. Len(ops)
         /\ \A k \in 1 .. Len(ops) :
              /\ ops[k].op = "insert_block" => ops[k].block \in Blocks
              /\ ops[k].op = "replace_block" => ops[k].content \in {0, 1}

Versions == 0 .. MaxChanges

Preview == [schema : Versions, rows : Versions]

(* preview is a set of at most one: a degraded embed may have none. *)
Descriptor == [table : Tables, state : {"ready", "degraded"},
               preview : SUBSET Preview]

Ops == {"save", "read", "restore", "patch", "refresh"}

(* todo: references still to be resolved.  fetched: what the calls for the *)
(* first of them have answered.  descriptors: by block id.  The last two   *)
(* are history: the tables the user could read at some time since the      *)
(* start, and the versions the tables had then.                            *)
Job == [op : Ops, base : Nat, ops : Patches \cup {<<>>},
        doc : Seq(Blocks), todo : Seq(Blocks),
        stage : {"idle", "access", "schema", "preview", "put", "reply",
                 "commit", "done"},
        fetched : Preview,
        descriptors : UNION {[S -> Descriptor] : S \in SUBSET Ids},
        outcome : {"none", "ok", "conflict", "rejected", "forbidden",
                   "embed_unavailable"},
        readable : SUBSET Tables, began : [Tables -> Versions]]

NothingFetched == [schema |-> 0, rows |-> 0]

Idle == [op |-> "read", base |-> 0, ops |-> <<>>, doc |-> <<>>, todo |-> <<>>,
         stage |-> "idle", fetched |-> NothingFetched, descriptors |-> <<>>,
         outcome |-> "none", readable |-> {}, began |-> [t \in Tables |-> 0]]

(* CreatePage resolved the tables of the first revision as a save does. *)
Init ==
    /\ revs \in {<<d>> : d \in Documents}
    /\ access = [r \in Requests |-> {}]
    /\ version = [t \in Tables |-> 0]
    /\ cache \in [Tables -> {{}, {NothingFetched}}]
    /\ changes = 0
    /\ job = [r \in Requests |-> Idle]

-------------------------------------------------------------------------------
(* The start of a request *)

Answer(j) == [j EXCEPT !.stage = "done", !.outcome = "ok"]

(* Of a request that answers an error nothing else is left. *)
Refuse(j, outcome) ==
    [Idle EXCEPT !.op = j.op, !.stage = "done", !.outcome = outcome]

(* Mutant of AllowDegraded: also for a save. *)
AllowDegradedAlways(op) == TRUE

AllowDegraded(op) == op # "save"

Commits(op) == op \in {"save", "restore", "patch"}

(* On to the first reference that is left, else to the commit or the answer. *)
Proceed(j) ==
    CASE j.todo # <<>> -> [j EXCEPT !.stage = "access"]
      [] j.todo = <<>> /\ Commits(j.op) -> [j EXCEPT !.stage = "commit"]
      [] OTHER -> Answer(j)

Started(op, doc) ==
    [Idle EXCEPT !.op = op, !.base = Len(revs), !.doc = doc, !.began = version]

(* A user without the permission to embed tables saves no document with one. *)
Authorized(j, mayEmbed) ==
    IF DocumentContainsEmbed(j.doc) /\ ~mayEmbed THEN Refuse(j, "forbidden")
    ELSE Proceed(j)

Resolving(j) == [j EXCEPT !.todo = ExtractReferences(j.doc)]

(* The user can read some of the tables; that matters when any are read. *)
Start(r, j) ==
    /\ job[r].stage = "idle"
    /\ \E readable \in SUBSET TablesOf(j.todo) :
         /\ access' = [access EXCEPT ![r] = readable]
         /\ job' = [job EXCEPT ![r] = [j EXCEPT !.readable = readable]]
    /\ UNCHANGED <<revs, version, cache, changes>>

(* AutosaveDraft: the tables must be permitted, then a document that is not *)
(* based on the head is refused.                                            *)
StartSave(r) ==
    \E doc \in Documents, mayEmbed \in BOOLEAN, base \in 1 .. Len(revs) :
        Start(r, IF base # Len(revs) /\ (DocumentContainsEmbed(doc) => mayEmbed)
                 THEN Refuse(Started("save", doc), "conflict")
                 ELSE Authorized(Resolving(Started("save", doc)), mayEmbed))

(* The rows of a revision have one created_at and come in any order. *)
ListEmbeddedTableRefs(doc) ==
    LET refs == ExtractReferences(doc) IN
    {[i \in DOMAIN refs |-> refs[p[i]]] : p \in Bijection(DOMAIN refs, DOMAIN refs)}

(* GetPage, RecoverDraft, a reload of ResumeEditorSync and a repeated save: *)
(* the head or another revision.                                            *)
StartRead(r) ==
    \E n \in 1 .. Len(revs) : \E refs \in ListEmbeddedTableRefs(revs[n]) :
        Start(r, Proceed([Started("read", revs[n]) EXCEPT !.todo = refs]))

StartRestore(r) ==
    \E n \in 1 .. Len(revs), mayEmbed \in BOOLEAN :
        Start(r, Authorized(Resolving(Started("restore", revs[n])), mayEmbed))

(* The collaboration service applies a patch to the head and has it committed. *)
StartPatch(r) ==
    \E ops \in Patches, mayEmbed \in BOOLEAN :
        LET patched == ApplyPatch(Last(revs), ops)
            j == [Started("patch", patched.blocks) EXCEPT !.ops = ops]
        IN Start(r, IF patched.ok THEN Authorized(j, mayEmbed)
                    ELSE Refuse(j, "rejected"))

AnyId == CHOOSE id \in Ids : TRUE

(* RefreshEmbedPreview, which names a table and no block. *)
StartRefresh(r) ==
    \E t \in Tables :
        Start(r, Proceed(Resolving(Started("refresh",
                     <<[id |-> AnyId, table |-> t, content |-> 0]>>))))

-------------------------------------------------------------------------------
(* The resolution of one reference *)

Ref(r) == Head(job[r].todo)

Embed(table, state, preview) ==
    [table |-> table, state |-> state, preview |-> preview]

(* The descriptors with one more, or with one replaced. *)
WithDescriptor(descriptors, id, embed) ==
    [b \in DOMAIN descriptors \cup {id} |-> IF b = id THEN embed ELSE descriptors[b]]

(* The descriptor of the first reference is known. *)
Resolved(j, state, preview) ==
    LET ref == Head(j.todo) IN
    Proceed([j EXCEPT !.todo = Tail(@), !.fetched = NothingFetched,
                      !.descriptors = WithDescriptor(@, ref.id,
                                          Embed(ref.table, state, preview))])

(* A call to the external system answers only when the user can read the table. *)
Answered(r, stage) == job[r].stage = stage /\ Ref(r).table \in access[r]

ValidateAccess(r) ==
    /\ Answered(r, "access")
    /\ job' = [job EXCEPT ![r].stage = "schema"]
    /\ UNCHANGED <<revs, cache, environment>>

FetchSchema(r) ==
    /\ Answered(r, "schema")
    /\ job' = [job EXCEPT ![r].stage = "preview",
                          ![r].fetched.schema = version[Ref(r).table]]
    /\ UNCHANGED <<revs, cache, environment>>

(* Mutant of FetchPreview: cached rows save the call. *)
FetchPreviewCached(r) ==
    /\ Answered(r, "preview")
    /\ job' = [job EXCEPT ![r].stage = "put",
                          ![r].fetched.rows =
                             IF cache[Ref(r).table] = {} THEN version[Ref(r).table]
                             ELSE (CHOOSE p \in cache[Ref(r).table] : TRUE).rows]
    /\ UNCHANGED <<revs, cache, environment>>

FetchPreview(r) ==
    /\ Answered(r, "preview")
    /\ job' = [job EXCEPT ![r].stage = "put",
                          ![r].fetched.rows = version[Ref(r).table]]
    /\ UNCHANGED <<revs, cache, environment>>

(* The cache keeps the preview stored last, for ever. *)
Put(r) ==
    /\ job[r].stage = "put"
    /\ cache' = [cache EXCEPT ![Ref(r).table] = {job[r].fetched}]
    /\ job' = [job EXCEPT ![r].stage = "reply"]
    /\ UNCHANGED <<revs, environment>>

Reply(r) ==
    /\ job[r].stage = "reply"
    /\ job' = [job EXCEPT ![r] = Resolved(@, "ready", {job[r].fetched})]
    /\ UNCHANGED <<revs, cache, environment>>

(* A failed request is over when it is strict, else the embed is degraded. *)
Failed(j, preview) ==
    IF AllowDegraded(j.op) THEN Resolved(j, "degraded", preview)
    ELSE Refuse(j, "embed_unavailable")

(* A call to the external system is refused or fails: the cache is asked. *)
DegradedOrError(r) ==
    /\ job[r].stage \in {"access", "schema", "preview"}
    /\ job' = [job EXCEPT ![r] = Failed(@, cache[Ref(r).table])]
    /\ UNCHANGED <<revs, cache, environment>>

(* The call to the integration service fails, at whatever it has done. *)
ResolveFails(r) ==
    /\ job[r].stage \in {"access", "schema", "preview", "put", "reply"}
    /\ job' = [job EXCEPT ![r] = Failed(@, {})]
    /\ UNCHANGED <<revs, cache, environment>>

-------------------------------------------------------------------------------
(* The commit of a request *)

(* SaveDraftRevision compares the head with the revision the request read. *)
Commit(r) ==
    /\ job[r].stage = "commit"
    /\ \/ /\ job[r].base = Len(revs)
          /\ revs' = Append(revs, job[r].doc)
          /\ job' = [job EXCEPT ![r] = Answer(@)]
       \/ /\ job[r].base # Len(revs)
          /\ job' = [job EXCEPT ![r] = Refuse(@, "conflict")]
          /\ UNCHANGED revs
    /\ UNCHANGED <<cache, environment>>

-------------------------------------------------------------------------------
(* The external system *)

(* A user gains or loses access to a table that is still to be resolved. *)
ChangeAccess(r) ==
    /\ changes < MaxChanges
    /\ \E t \in TablesOf(job[r].todo) :
         access' = [access EXCEPT ![r] = IF t \in @ THEN @ \ {t} ELSE @ \cup {t}]
    /\ job' = [job EXCEPT ![r].readable = @ \cup access'[r]]
    /\ changes' = changes + 1
    /\ UNCHANGED <<revs, version, cache>>

ChangeTable(t) ==
    /\ changes < MaxChanges
    /\ version' = [version EXCEPT ![t] = @ + 1]
    /\ changes' = changes + 1
    /\ UNCHANGED <<revs, access, cache, job>>

Next ==
    \/ \E r \in Requests :
         \/ StartSave(r) \/ StartRead(r) \/ StartRestore(r)
         \/ StartPatch(r) \/ StartRefresh(r)
         \/ ValidateAccess(r) \/ FetchSchema(r) \/ FetchPreview(r)
         \/ Put(r) \/ Reply(r) \/ DegradedOrError(r) \/ ResolveFails(r)
         \/ Commit(r)
         \/ ChangeAccess(r)
    \/ \E t \in Tables : ChangeTable(t)

Spec == Init /\ [][Next]_vars

-------------------------------------------------------------------------------
(* Properties *)

(* Revisions are documents, and requests hold documents, references and     *)
(* descriptors of blocks.                                                   *)
TypeOK ==
    /\ revs \in Seq(Seq(Blocks))
    /\ access \in [Requests -> SUBSET Tables]
    /\ version \in [Tables -> Versions]
    /\ cache \in [Tables -> SUBSET Preview]
    /\ changes \in 0 .. MaxChanges
    /\ job \in [Requests -> Job]

(* A save that answers ok has committed a document whose every table its    *)
(* user could read at some time while the save ran, whatever calls failed   *)
(* and whatever the cache held.                                             *)
SavedEmbedsWereReadable ==
    \A r \in Requests :
        job[r].op = "save" /\ job[r].outcome = "ok" =>
            /\ TablesOf(job[r].doc) \subseteq job[r].readable
            /\ revs[job[r].base + 1] = job[r].doc

DistinctIds(blocks) ==
    \A i, k \in DOMAIN blocks : blocks[i].id = blocks[k].id => i = k

(* In an answer every block with an embed shows its own table and no other  *)
(* block shows one, provided that the ids of the blocks are distinct.  A    *)
(* ready embed is of a table the user could read, and is no older than the  *)
(* request: neither its schema nor its rows come from the cache.            *)
AnswersShowOwnTables ==
    \A r \in Requests :
        LET j == job[r]
            shown == HydrateEmbeds(j.doc, j.descriptors, Embed(NoTable, "none", {}))
        IN j.outcome = "ok" /\ j.op # "patch" =>
             \A i \in DOMAIN j.doc :
                /\ DistinctIds(j.doc) => shown[i].table = j.doc[i].table
                /\ shown[i].state = "ready" =>
                     /\ shown[i].table \in j.readable
                     /\ \A p \in shown[i].preview :
                          /\ j.began[shown[i].table] <= p.schema
                          /\ p.schema <= p.rows
                          /\ p.rows <= version[shown[i].table]

(* The ids of the blocks the operations are about. *)
NamedBy(ops) ==
    {IF ops[k].op = "insert_block" THEN ops[k].block.id ELSE ops[k].block_id :
        k \in DOMAIN ops}

OpsOf(ops, kind) == {k \in DOMAIN ops : ops[k].op = kind}

(* A committed patch changes the head it is applied to only where its       *)
(* operations say: the blocks it does not name keep their content and their *)
(* order, and the length differs by the blocks inserted and deleted.        *)
PatchKeepsOthers ==
    [][\A r \in Requests :
         LET ops == job[r].ops
             others(blocks) == BlocksIn(blocks, {b \in Blocks : b.id \notin NamedBy(ops)})
         IN job[r].op = "patch" /\ job[r].outcome = "none" /\ job'[r].outcome = "ok" =>
              /\ others(Last(revs')) = others(Last(revs))
              /\ Len(Last(revs')) = Len(Last(revs))
                                    + Cardinality(OpsOf(ops, "insert_block"))
                                    - Cardinality(OpsOf(ops, "delete_block"))]_vars
===============================================================================
