# Verification of the wiki editor backend

This directory holds TLA+ models of the backend (pages and their revisions,
realtime collaboration, editor resynchronisation, the event pipeline to the
search index, queries and permissions, files, embedded tables, tokens), the TLC
configurations that check them on small instances, and TLAPS proofs that hold
for every value of the constants. `PROJECT.json` maps
every definition to the lines it models.

    tlc -config MCPageService.cfg MCPageService     # any run of PROJECT.json
    tlapm PageServiceProofs.tla                     # any of the *Proofs modules

## 1. Inventory

| component | state it keeps | operations | interacts with |
|---|---|---|---|
| page-service, revision lifecycle | `pages`, `page_revisions`, `page_draft_idempotency_keys`, `page_outbox` (Postgres, or a memory store); the replay window (Redis or memory) | create, autosave, collaborative commit, publish, restore, archive | clients (REST), collaboration-service (gRPC), auth, file and MWS services (checks), NATS (through the outbox) |
| page-service, resynchronisation | none (reads) | `ResumeEditorSync` | the replay window and the stores above |
| page-service, reads | none | get page, recover draft, list versions, revision head, editor catalogue | the stores above |
| outbox relay (`pkg/messaging`) | the batch in progress | claim, publish, mark published or failed | `page_outbox`, NATS |
| knowledge-graph-search-service | `search_documents`, `page_link_edges` | project page events; search, backlinks | NATS, auth-service |
| collaboration-service, rooms | the cached head of a page per room (Redis or memory, TTL), a lock per room in the process | submit patch, join, refresh on page events | page-service (gRPC), NATS |
| collaboration-service, hub and presence | clients per room in the process, presence entries with a TTL and an index of them | join, heartbeat, update presence, leave, broadcast | websocket clients |
| file-service | `file_objects`, `upload_sessions`, MinIO objects | start, complete, get, delete | page-service (metadata), auth |
| auth-service | users, memberships, page grants, refresh sessions | login, refresh, authorize | everyone |
| api-gateway | cache of signing keys | verify tokens, check the action of a route, forward, proxy websockets | everyone |
| mws-integration-service | the last preview of each table, in the process | resolve and refresh embeds | an external API |

What is hard here. No handler of the page service takes a lock: it looks up a
key, reads the row, reads a revision and then runs a transaction conditional on
the draft number, so any two handlers interleave between any two calls. The
replay window is written after the commit. Patches go through a cached head that
three kinds of writers save and only one of them locks. Events pass an outbox, a
relay that can die between publishing and marking, core NATS, which drops what
nobody listens to, and a projection without a version check. Broadcasts write to
a copy of the clients of a room while connections come, go and fail. Files are
checked one by one, in another service, before a document that attaches them is
saved. Embedded tables are resolved one by one with three calls each, any of
which may fail, next to a cache that all users share. The presence of a room is
an index that everybody cleans and entries that expire on their own. A query
finds pages first and decides on each of them later, from roles and grants read
one after the other. Refresh sessions are rotated in three statements, and the
gateway stores signing keys in whatever order its fetches end. What makes each
part correct:

* revision lifecycle: numbers in order of acceptance, heads that are the latest
  revisions, no save over a draft its author has not seen, one revision per key,
  truthful answers; in short, an atomic append-only ledger;
* resynchronisation: a patch reported as accepted is in the page, one reported
  as missing is not in the head, an editor that keeps its document has missed
  nothing the replay window tells of;
* rooms: the room is a revision of the page, patches are applied to their base,
  once, and every patch is answered;
* event pipeline: oldest first, at least once, the index never goes back and
  catches up;
* hub: no closed connection stays a client, an update is not lost silently,
  every author is answered;
* files: a deletion is final, a completion is all or nothing, an accepted
  document stays readable until one of its files is deleted;
* presence: whoever is there is listed, and is taken off the list only by an
  expiry, and not for good;
* embeds: a save commits only tables its user may read, an embed shown as ready is
  fresh and of the right table, a patch changes only what it names;
* queries: an answer holds nothing the user could not view, and everything found
  that the user was entitled to throughout;
* tokens: a refresh token works once, a session is revoked for one that replaces
  it, a current access token is accepted, the tokens of a retired key are not
  accepted for long.

## 2. Modules

| module | models | builds on |
|---|---|---|
| `PageLedger` | what the page service promises: an atomic ledger of revisions | |
| `PageService` | the handlers of one page, one step per store call | refines `PageLedger` |
| `EditorSync` | `ResumeEditorSync` against the running handlers | `PageService` |
| `PageServiceProofs` | the theorems about `PageService` and `EditorSync` | `EditorSync` |
| `CollabRoom` | `SubmitPatch`, `Join`, room refresh and expiry around one room | takes the page service at the word of `PageLedger` and `KeyUsedOnce` |
| `CollabRoomProofs` | the theorems about `CollabRoom` | `CollabRoom` |
| `OutboxRelay` | outbox, relay, NATS and the search projection for one page | takes the revision order from `PageService` |
| `OutboxRelayProofs` | the theorems about `OutboxRelay` | `OutboxRelay` |
| `CollabHub` | the websocket hub: clients per room, broadcasts, presence entries | takes an accepted patch from `CollabRoom` |
| `Attachments` | the file service, and the page handlers that check attachments with it | takes the page at the word of `PageLedger` |
| `AttachmentsProofs` | the theorems about `Attachments` | `Attachments` |
| `Presence` | the Redis presence store of a room: entries, index, listings, expiry | details the entries of `CollabHub` |
| `CollabHubProofs` | the theorems about `CollabHub` and `Presence` | `CollabHub` and `Presence` |
| `Document` | blocks, patches on them, table references (operators only) | |
| `Embeds` | embedded tables: saves, restores, reads and patches of a page, the integration service, its cache | `Document` |
| `EmbedsProofs` | the theorems about `Embeds`, and what the operators of `Document` compute | `Embeds` |
| `SearchAccess` | search and backlinks with their permission filter, the decisions of the auth service | takes the projection from `OutboxRelay` |
| `SearchAccessProofs` | the theorems about `SearchAccess` | `SearchAccess` |
| `TokenAuth` | tokens: refresh sessions of the auth service and the key cache of the gateway | |
| `TokenAuthProofs` | the theorems about `TokenAuth` | `TokenAuth` |
| `MC*` | symmetry sets, documents and patches for TLC | |

A definition whose comment begins with "Mutant of" is a deliberately wrong variant
of the definition after it; it is used by no specification and exists to show
that a property notices the mistake.

### PageService

Variables: `page` (the row), `revs` (the rows of `page_revisions`; the id is the
position), `idem`, `outbox`, `replay`, and `req`, the request each handler works
on. A request goes through phases, one per store call:

    lookup -> read -> base -> commit -> append -> reply
                 \-> conflict ----------------------/

`lookup` is `GetDraftIdempotency`, `read` is `GetPage` with the checks after it,
`base` is `GetRevision` or `GetRevisionByID`, `commit` is the transaction with its
conditional UPDATE, the unique constraint and the outbox rows, `append` the
replay window, `conflict` the second read that builds the conflict payload.
Autosave and collaborative commit share the actions and differ where the code
does: a collaborative commit answers a conflict with the head it saw, the others
read again, a restore passes the error on. `Abort` ends a handler anywhere
before its answer: denied, invalid, a failing dependency or store, a cancelled
context, a crash. Creation is one step because nobody else knows the new id.

Pages are independent, so one page is modelled. A document is an opaque value.
The title is left out (no operation changes it). A client names as base a draft
number that exists when its request starts. `Revision.from` is a history field:
the draft number the author named. The memory store, which has no unique
constraint and replaces whole rows, is selected with `Store`; `LookupMayFail`
lets the idempotency lookup fail, which the code treats as a miss.

### EditorSync

Adds `sync`, one resynchronisation: head, replay entries, then one lookup per
pending patch, each a step between which handlers commit. One suffices, since
it only reads. A token is reduced to the revision number it was issued for.

### CollabRoom

Variables: `log` (the draft revisions of the page), `room`, `lock`, `members`
(sessions with a presence entry), `call` (what the goroutine of each session is
doing), `refresh` (the event callbacks). A document is the sequence of edits made
to it, so an edit that is lost or applied twice shows. Clients send any patch id on
any base, as often as they like: `submit_patch.go` checks neither, and a
`rebase_required` even invites them to send an id again on a newer base. The page
then answers with the revision the id has, and the room puts the number of that
revision on the document computed just now. `sound`, a field of the room, of what
goroutines hold and of the revisions, is history and tells such documents apart:
it becomes false in `SaveAccepted` when the number of the answer is not the one that
follows the document the patch was applied to (`SoundAnswer`), stays false in a
revision made from such a room, and is true again when the room is read from the
page. An id stands for its edit: two different patches under one id on one base are
left out.

Publications are left out: they share the numbering but do not move the draft
head the room follows.

### OutboxRelay

Variables: `rows`, `relay` (the batch of the flush), `wire` (the
subscription of the search service), `search` (is it up), `index` (the revisions
text and link edges come from), `stops`. Each revision adds three rows with one
`created_at`, so the order inside a transaction is open. The `Faults` constant
selects what can go wrong. `lost` is history: the rows of which a message was
dropped, because the search service was down or a projection failed.

### CollabHub

Variables: `conn` (the connection), `client` (the room and session it joined
last), `hub` (the map of clients), `entry` (presence entries), `accepted`, and
`act`, what the goroutine of each connection is doing. `missing`, `owed` and `cut`
are history: patches of a room that are neither in the document a client of it
joined with nor sent to it, patches whose author waits, and patches whose broadcast
ended at a failed write. A join reads the room (`Join`), gets its presence entry
(`Enter`) and only then becomes a client (`AddClient`). The room it read need not
show the patches accepted last; `late` (history too) holds those that are not in
the document and whose broadcast had copied the clients already. A patch may reach
the client before its `session_joined`, since broadcasts do not wait for it. Writes
have no deadline: a `stuck` connection is one whose peer stays connected and does
not read (`Stall`), and a write to it waits until the peer is gone (`Break`). A
goroutine handles one envelope at a time, so a broadcast is a copy of the clients followed by one write per
step, in any order, and the first failing write ends it. A client is taken to
name in its patches the page it joined last: the handler submits a patch to the
page the envelope names and broadcasts it to the room of the connection.

### Presence

Variables: `stored` and `index` (the keys of Redis), `call`, what the goroutine of
each session is doing. `Upsert` and `Remove` are transactions; a heartbeat is a
read and a write, a listing is `SMEMBERS`, one `GET` per member and a `SREM` for
each entry that is missing. A patch whose author is not listed is rejected with
`session_not_found`. `revived` and `there` are history: sessions whose entry
expired between the read and the write of a heartbeat, and sessions that had
entry and place since a listing began. `CollabHub` has the entries without the
index.

### Document and Embeds

`Document` has the operations of a patch (`ApplyPatch`, all or nothing; the three
replacing operations are one), the extraction of table references and the lookup
of descriptors by block id. `Embeds` has the variables `revs`, `access` (the tables
the user of a request can read), `version` (of each table), `cache` and `job`. A
request resolves one reference after the other: access, schema, rows, cache,
reply. A save is strict, everything else degrades to what the cache holds, and a
patch resolves nothing. A call to the external system may be refused or fail
(`DegradedOrError`), and so may the call to the integration service at any point
(`ResolveFails`). A read lists its references from rows that tie in `created_at`,
so in any order. `readable` and `began` are history: what the user could read at
some time of the request, and the versions at its start. The resolver is taken
to be configured; creation is the initial state, and resolves as a save does.

### SearchAccess

Variables: `checker` (is there a connection to the auth service), `role` and
`grants` of the user, `docs` and `edges` (the index), `job`, one request. It is asked
for by the gateway, again by the search service, then the index is read (backlinks
in two statements), and every page found is decided on; each decision reads the
membership and then the grants. Without the auth service the roles of the token
decide, and there are none (`TokenRoles`: neither the access token nor the identity
the gateway makes of it carries any), so that everything is refused. One request
suffices since it changes nothing. The last fields of `job` are history: what role
and grants have permitted throughout, and what could be viewed at some time. Left
out are requests without a token, which the gateway does not let pass; the filter
by token roles, which no request reaches; and the branch that shows all results
for an empty batch answer (`filter_results.go:75`), since the auth service answers
every check (`auth-service/api/grpc/server.go:38`).

### Attachments

Variables: `file` (status of the row), `done` (upload sessions with a
`completed_at`), `drafts` and `published` (the page, each revision reduced to the
files it attaches), `job` (the handlers of both services). Completion and deletion
are a read followed by a conditional UPDATE; a save, restore or read of the page
asks for the metadata of one file per step. `FileStore` selects the Postgres or
the memory store.

### TokenAuth

Variables: `key` (the signing key), `tokens`, `given` (those that reached a
client), `rows` and `revoked` (the table of sessions), `cache` (the document the
gateway holds and its age), `retired` (the age of replaced keys), `job`; `cut` is
history, the sessions whose refresh ended between the two writes. A refresh
is parse, read, issue, revoke, create, answer. An access check is the first parse
(with `lookupKey`, which may fetch), the forced fetch, and the second parse. Time
is counted in ticks: the lifetime of the cache is `TTL`, and a fetch that takes
longer than `Timeout` fails; steps that use only memory take no tick.

## 3. Runs

Runs expected to pass:

| run | checks |
|---|---|
| `page_service` | `TypeOK`, `NumbersFollowAcceptance`, `HeadsAreLatest`, `BasedOnLatestDraft`, `KeyUsedOnce`, `RebaseIsProgress`, `AckedIsCommitted`, and the refinement `ImplementsLedger` |
| `editor_sync` | `ReplayedIsCommitted`, `MissingIsNotInHead`, `KeptDocumentIsOwn`, on the memory stores |
| `collab_room` | `TypeOK`, `RoomIsARevision`, `RevisionsAddOneEdit`, `AcceptedOnce`, `EveryPatchIsAnswered` |
| `outbox_relay` | `OldestFirst`, `IndexNeverRegresses`, `CatchesUp` |
| `collab_hub` | `NoClosedClients`, `NothingLostSilently`, `AuthorIsAnswered` |
| `presence` | `UnlistedWasRevived`, `PresentAreListed`, `UnlistedIsTemporary` |
| `attachments` | `TypeOK`, `SavedPagesOpen`, `DeletedIsFinal`, `CompletionIsAtomic` |
| `embeds` | `SavedEmbedsWereReadable`, `AnswersShowOwnTables`, `PatchKeepsOthers` |
| `search_access` | `ShownWasViewable`, `SteadyIsShown` |
| `token_auth` | `TypeOK`, `ReuseIsRefused`, `RevokedWasReplaced`, `CurrentTokensPass`, `RetiredKeysExpire` |

Runs that show where the code does not do what the repository says of it; the
findings in `PROJECT.json` quote the lines:

| run | what TLC shows |
|---|---|
| `page_archived` | a save that read the page before it was archived commits after the archival and writes the old status back |
| `outbox_relay_lost` | a row whose publication fails is marked `failed` and never claimed again |

More is visible in the models without a run of its own:

* an archival with a stale base whose second read fails returns a nil error
  (`archive_page.go:56`): success is reported and nothing is archived
  (`ArchiveConflictReadFails`, the exception in `AckedIsCommitted`);
* a revision of another author without a replay entry (not yet appended, append
  failed, trimmed) is not counted by `canResumeWithoutReload`, and the editor is
  told to keep a document that lacks it (the exception in `KeptDocumentIsOwn`);
* a patch id resent on a newer base is answered with its first revision while the
  room takes the newly computed document, which no revision has, and a next patch
  on that room commits it to the page, over edits of others or with an edit made
  twice (`sound`, the exception in `RoomIsARevision` and `RevisionsAddOneEdit`; both
  are violated without it);
* on the memory store a publication and a save that read the same row get the same
  revision number (`Store = "memory"`, `NumbersFollowAcceptance`), and a completion
  that read a file before it was deleted brings it back (`FileStore = "memory"`,
  `DeletedIsFinal`);
* a refresh callback saves the head it read before an accepted patch saved the
  room, so the room goes back, and a client ahead of it is told to rebase onto an
  older revision (`RefreshSaveRoom`, `AskForRebase`);
* events published while the search service is down never reach it (`lost`);
* a connection that joins a second room stays a client of the first one after it
  closes, and from then on makes broadcasts there fail (`NoClosedClients` is about
  the room joined last); clients that come after a failed write miss the patch
  (`cut`);
* a patch that is accepted and broadcast between the read of the room by a join and
  `addClient` is neither in the document of the joiner nor sent to it (`late`);
* a peer that stays connected and does not read blocks every broadcast of its room:
  the author of the patch is not answered and the clients after it get nothing
  until that connection is gone (`Blocked`);
* a session whose entry expires under a heartbeat can be present and off the list,
  and has its patches rejected until its next heartbeat (`revived`);
* a collaborative commit resolves no table and a restore is not strict, so both put
  tables into a revision that their user may not be able to read, although
  `spec.md:192` (FR-014a) asks for it when embeds are added or modified
  (`SavedEmbedsWereReadable` is about saves);
* a degraded embed shows the rows somebody else fetched, also to a user whose
  access was refused and after `ExpiresAt`, which nothing reads
  (`DegradedOrError`), and an older preview can replace a newer one (`Put`);
* with a block id that occurs twice, the descriptor of one block is shown for the
  other (`DistinctIds`), and operations find the first block only;
* the limit of a search is applied before the filter, so readable pages behind
  unreadable ones are not found; a page grant never permits a search; a grant to
  edit does not permit publishing, although `spec.md:199` says so
  (`EvaluateAuthorization`);
* a user who moves from a grant to a role between the two reads of a decision is
  refused although entitled at every moment (`SteadyIsShown`);
* two refreshes of one token that overlap both succeed, and a failure between
  revoking the old session and creating the new one leaves the client with none
  (`cut`);
* a fetch of keys that is slow can put an older document over a newer one, and a
  request that runs meanwhile is refused (`overtaken`);
* `plan.md:481` has the file service verify the object and its checksum; the code
  never asks the object store, which is why `Attachments` has none.

### Bounds

* Two handlers or sessions: every race here is between two parties (a check and
  the write that invalidates it); a third adds no new kind of conflict because
  the transaction re-checks the draft number. The proofs drop this bound.
* `MaxRevisions` stops new requests once that many revisions exist. Three let a
  save, a publication and a stale third party meet; requests already running may
  still go past the bound.
* One key suffices to repeat it; two documents let a copy be told from the
  wrong one. `ReplayLimit` 1 or 2 makes trimming happen at once.
* `OutboxRelay`: two revisions make six rows, `BatchSize` 4 splits them across
  batches inside a transaction; one stop, of either process.
* `CollabRoom`: two patch ids, each sent any number of times. Nothing is submitted
  once the room, or the room a running call has seen, has `MaxEdits` edits: a
  repeated id can make the room grow past the page, and two edits are enough for a
  revision that lacks one or has one twice.
* `CollabHub`: two connections, two joins (of each of them, or of one twice) and two
  patches in one room. A connection that changes from one
  room to another needs a second room, with which the search for cycles takes too
  long: the two invariants are proved for any number of rooms (section 4), and an
  answer comes from the goroutine of its author alone.
* `Attachments`: two files, so that one check can pass before the other file
  changes; two handlers; three revisions, so that a restore has something to
  restore.
* `Presence`: two sessions, without other bounds: one that lists and one that is
  listed, and either can be both.
* `Embeds`: two requests, each of any kind, so that one fills the cache or commits
  while the other runs; documents of two blocks with embeds of the same and of
  different tables and with an id that occurs twice; patches of one or two
  operations of every kind, also invalid ones; one change of access or of a table.
* `SearchAccess`: two pages, so that decisions on different pages can be mixed up;
  two changes, enough to revoke one ground and to grant another. `SearchLimit` and
  `RelatedLimit` stand for 50 and 10.
* `TokenAuth`: three tokens (a login and two refreshes of it), two keys, `TTL` and
  `Timeout` of one tick each. Ages are capped just above the largest value a
  property compares with.
* Deadlock is not checked: a service without requests is idle, and the bounds
  end every behaviour.

Symmetry is used in safety runs only, over handlers, requests, documents,
files and pages, none of which the modules single out.

### Fairness

* `CollabRoom`: weak fairness of the goroutine that runs `SubmitPatch` (its calls
  return, with an answer or an error) and strong fairness of taking the lock (Go
  mutexes hand over to a waiter in starvation mode). Nothing is assumed of
  clients, joins or callbacks.
* `CollabHub`: weak fairness of a goroutine that has read an envelope, while it has
  no write to a stuck connection before it (`~Blocked`): calls to Redis return, and
  so do writes to peers that read or are gone. Clients may stop reading for ever, and
  nothing makes them leave.
* `Presence`: weak fairness of writing an entry again or its expiry, which is what
  its TTL guarantees.
* `OutboxRelay`: weak fairness of the flush loop, of the consumer loop, and of
  starting a stopped process. The restart is an assumption on
  the deployment: the code ends the process, and the compose file has no restart
  policy.

## 4. Proofs

`PageServiceProofs` proves, for any number of handlers, keys, documents and
revisions, on the Postgres store:

* `Invariance`: `IndInv` is inductive;
* `TypeCorrect`, `RevisionNumbering`, `NoLostHead`, `NoSilentOverwrite`,
  `ConflictsTellNewer`, `AcksAreCommitted`: the invariants of the run
  `page_service`;
* `KeysAreIdempotent`: `KeyUsedOnce`, provided lookups do not fail;
* `LedgerRefinement`: `PageService` implements `PageLedger`, whether lookups fail
  or not.

The argument. None of the properties is inductive alone: that a save extends the
latest draft depends on what its handler read several steps ago. `IndInv` adds
what a handler knows in each phase (`RequestInv`): the row it saw is at most as
new as the row now, the revision it read is at least as new as the row it saw,
and no published number it saw was larger than the present one. When the
transaction finds the draft number unchanged, these two bounds meet: the base is
the head. The unique constraint then settles the race with publications, which
leave the draft number alone: a handler that saw an older published head computes
a number that is taken, and is rolled back; otherwise the number is
`Len(revs) + 1` (`StoreInv`). For `KeyUsedOnce` the missing fact is `MissInv`: a
request that missed its key can be preceded only by revisions of that key that
are newer than its base, so its transaction is stale.

The same module goes on to prove the three invariants of the run
`editor_sync` on the Postgres store, where the run checks the memory store.
`ReplayedIsCommitted` and `KeptDocumentIsOwn` hold whether lookups fail or not,
`MissingIsNotInHead` provided they do not: it needs that no revision is made without
its key being recorded, and that a record is never removed (`PatchInv`), so that a
patch that is in the head was recorded before the head was read, and is still
recorded when its lookup comes (`SyncInv`). `KeptDocumentIsOwn` needs that an entry
of the window names the revision that holds its patch, also when the entry was
listed before later commits (`EntryInv`, `KeptInv`), and the numbering: when the
revision the editor knows is the head, nothing up to the head is newer.

`CollabRoomProofs` proves the four invariants of the run `collab_room` for any
number of sessions, callbacks, patches and revisions, of clients that send any patch
id on any base. The lock does not protect the room from joins, refreshes and
expiry, so the proof does not rest on it. Whoever is about to save the room holds
some revision, perhaps an old one (`CallInv`, `RoomInv`); a save against an old
room is refused by the page service, whose head the base must match. A document that is
sound is that of the revision its number names (`IsRevision`), and a patch on it
gives the document of the next one; an answer to a repeated id is told apart by its
number. A patch id is used once because the page looks it up before it commits
(`PatchesAreUnique`), and whoever was answered holds the number of that one revision.

`TokenAuthProofs` proves the five properties of the run `token_auth`. For the refresh
sessions the invariant says in which order the rows of an exchange appear
(`AuthInv`): whoever was given a token finds the row of the one before it revoked
(`TableInv`). For the gateway it says what a request may rely on in each round
(`AccessInv`): the document it fetched is as new as its token, and after the forced
fetch the cache is too, unless the request failed or was overtaken. `AgeInv`
bounds how long ago a key was replaced by the age of the document that still has
it, in the cache or under way, which is what `RetiredKeysExpire` needs.

`OutboxRelayProofs` proves the two safety properties of the run `outbox_relay`, for any
number of revisions and restarts and any selection of `Faults`. Revisions are added
while a flush works on its batch; what is left of the batch stays the oldest part
of the pending rows (`BatchInv`). For `IndexNeverRegresses`, an action property, the
messages on their way are in the order of revisions, and no pending row is older
than one of them or than what the index shows (`WireInv`): a row published again
after a restart does no harm, because the newer ones are pending as well.

`SearchAccessProofs` proves the two invariants of the run `search_access` for any finite
set of pages. Roles and grants change while one page after another is decided, each
with two reads. The invariant relates the history of the request to the present
(`HistoryInv`) and to what was read (`ReadingInv`): a membership that permits to
view was that of a time when every page could be viewed. Decisions stand at the
positions of their pages (`DecisionsInv`), so that no page gets the answer of another.

`AttachmentsProofs` proves all four properties of the run `attachments` on the
Postgres store. `DeletedIsFinal` and `CompletionIsAtomic` say what a step may do,
and need that a session is completed only for a file that is ready or deleted
(`SessionInv`). `SavedPagesOpen` needs more: a file that passed a check is ready
or, later, deleted, and never anything else again; so every file of an accepted
document, and every file a running save has checked, is settled in this sense, and
only a deletion can make a later check fail.

`CollabHubProofs` proves the two invariants of the run `collab_hub` for any number of
connections, rooms, joins and patches. `NoClosedClients` needs to know in which
order a goroutine gives up what it holds: a connection is closed only after its
room was left, and a goroutine with a step to go has a connection that is not
closed (`ActInv`, `ClosedInv`). For `NothingLostSilently` the property is too weak to be
inductive: it is about the patches accepted so far, and a broadcast is of a patch
with some number. `UpdateInv` says of every number that a patch that is missing is
on its way to that very client: its broadcast has not copied the clients yet, or
has the client in its copy (`OnItsWay`), or it was cut short or is late. A client that was removed and joined again misses nothing from before
(`Settled` in the model), so leaving the copy unlocked costs nobody an update.

The module also proves the two invariants of the run `presence` for any set of
sessions. A listing removes the place of a session several steps after it missed
the entry, so the proof follows what a listing holds: a session that has not joined is in no listing (`NewSessionInv`), the place a listing
is about to remove is that of a missing or revived entry (`StaleInv`), and what was
there throughout a listing is found or still to be asked for (`ListInv`).

`EmbedsProofs` proves the three properties of the run `embeds` for every set of
requests, documents, patches and tables. It has two parts.

The first is about the operators of `Document`, which loop over blocks and
operations. Induction is stated of sets (`SetInduction`, `SequenceInduction`), and
`LoopFunction` shows that the function a recursive definition asks for exists, so that
`BlocksInLoop` and `ApplyPatchLoop` can unfold the definitions round by round. From
there: `BlocksIn` keeps what is chosen and its order through concatenation, hence
through an insertion, a removal or a replacement of a block that is not chosen
(`InsertKeeps`, `RemoveKeeps`, `ReplaceKeeps`); one valid operation touches only blocks
with the id it names (`OpEffect`); and by induction over the operations a patch
keeps the others and its length balances (`PatchEffect`).

The second is the invariant of the requests. Of each one it says what is left to be
resolved and what has a descriptor (`References`, `Descriptors`), what the answers so
far have shown of the table in hand (`StageInv`), and that a save leaves no table
behind that could not be read (`Saves`). A ready descriptor is fresh because its two
versions were read in order after the request began and versions only grow; nothing
from the cache gets into one. `PatchKeepsOthers` is about the present head, while the
patch was applied to the one read at the start: `Patched` says that the document is
the patch of the revision with the number `base`, which is the head when the commit
succeeds, because revisions are only appended.

The assumptions are the `ConstantsAssumption` of each module (in `SearchAccess` also
that a workspace has finitely many pages), in `Embeds` that documents are sequences of
blocks and that operations bring blocks and contents (`InputsAssumption`), `Store = "postgres"` or
`FileStore = "postgres"` (with the memory stores the numbering and `DeletedIsFinal`
are false). Each inductive invariant was checked by TLC on the instance of
its run, or one like it on the Postgres store, before it was proved.

Only model-checked: the four liveness properties (`EveryPatchIsAnswered`, `CatchesUp`,
`AuthorIsAnswered`, `UnlistedIsTemporary`), since the prover has no ENABLED and no
fairness; and everything on the memory stores. Every other property of a passing
run is proved, on the stores named above.

## 5. Not modelled

* Texts, titles, attributes and display settings of documents; ranking and
  highlighting of search results.
* Authorisation outside of `SearchAccess` and `Embeds`: its refusals and failures are
  `Abort` and `End`.
* Expired tokens; the object store, which no code asks; forwarding in the gateway;
  the list of versions and the editor catalogue, which are plain reads; metrics,
  logging, configuration and the message types.

## 6. Plan

All modules of section 2 and the proofs of section 4 are done. What could follow:

1. `CollabHub` with clients that name another page in a patch than the one they
   joined last.
2. The memory stores in `EditorSync`, whose proofs are about Postgres.
