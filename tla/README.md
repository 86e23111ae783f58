# Doki Assistant: a TLA+ verification project

This directory specifies the parts of the Doki Assistant backend
(`src/backend/app`) whose correctness depends on what happens between
transactions, threads and processes. MySQL is the only authority; Chroma
collections, Redis and the memory of the processes can be rebuilt or lost. The
modules state what the code promises under that rule, TLC checks the promises on
small instances, and TLAPS proves the safety promises for every instance.

Every definition follows the code it is mapped to in `PROJECT.json` (`map`).
Paths below are relative to `src/backend/app`.

## 1. The system

| Component | State it keeps | Operations | Talks to | What is hard |
|---|---|---|---|---|
| **Job table** `jobs/repository.py`, `models/job_domain.py` | `jobs`, `job_attempts` rows: status, lease, fencing token, attempts, cancel request, result | enqueue, replay, recover + claim, start, heartbeat, succeed, fail, cancel | called by producers, runners, handlers and routers, each in a transaction of its own | stale holders, lease expiry, cancel racing success, retry budget |
| **Job admission** `enqueue`, `db/business_authority.enqueue_business_job` | the unique key and the backlog counts, as seen by a snapshot | duplicate lookup, backpressure, insert, commit / rollback | inside any caller's transaction | two producers with overlapping snapshots |
| **Job runner** `jobs/runner.py` | the claim it works on, the handler task, counters, the `GET_LOCK` session | poll, start, execute with heartbeats, verify or store the result, fail | job table, handlers | lost replies, orphaned handlers, crashes, lost leases |
| **Job handlers** `jobs/business_handlers.py`, `jobs/e4_runtime.py` | none of their own | project, enrich, rebuild | projection, notes, job table in their own transaction | a result committed by the handler itself |
| **Retrieval projection** `rag/projection`, `e2/rag.py`, `models/rag_runtime.py` | `rag_user_states`, generations, heads, artifacts; Chroma collections; `.retired` files | gate on source writes, rebuild, fail, publish, reconcile, cleanup, query | job table, sources, worker threads | atomic publication, zombie threads, readers without locks |
| **Authentication** `auth/repository.py`, `router/user.py` | users, sessions, refresh families, revocation keys | register, login, refresh with rotation, logout, password change, revocation | every request | a password change among logins and refreshes that have read the account before it; replayed tokens |
| **Authorization grants** `auth/authorization.py`, `router/user.py` | `authorization_grants` | request, approve, revoke, expiry | administrators, Skill service | two administrators at once, one person with both roles, the unique key |
| **Skill authority** `skills/service.py`, `skills/grant_service.py`, `skills/authorization.py`, `skills/registry.py`, `services/agent_run_service.py` | installation and capability rows, a process's catalogue, run bindings | draft, import, publish, settings, activate, roll back, archive; request and decide; bind a run; check a call under locks | grants, runs, tools | a withdrawal while a run is under way, stale catalogue and binding, locks |
| **Pending actions** `services/pending_action_store.py`, `services/confirmation_service.py`, `agent/tool_guard.py` | `pending_actions` | save, take once, expire, revalidate, call | chat requests, tools | stale confirmation, two sessions of one request |
| **Chat** `router/chat.py`, `agent/streaming.py`, `agent/runtime/sse_driver.py`, `agent/context_builder.py`, `services/database_session_manager.py` | `chat_sessions`, `chat_messages`, the summary and its boundary; for each stream an event queue, a driver and an agent task | ask, regenerate, stream, time out, disconnect, store, summarise, delete, clear | model, tools, client, pending actions | two tasks and a client that end in any order; overlapping turns that summarise the same session |
| **Skill catalogues** `skills/registry.py`, `skills/service.py`, `main.py` | the registry's revision and its outbox; in each process the snapshot it serves | bump with every operation; rebuild, publish, reconcile, acknowledge | management, runs, the start and the loop of every process | rebuilds that end out of order or fail, packages that are damaged, events one process acknowledges for all |
| **Skill packages** `skills/package.py`, `skills/*storage.py` | archives by digest, imports | parse, store, verify | Skill service | partial storage writes |
| **MCP** `agent/mcp` | provider connections, tool tables | reload, connect, list | agent | reload racing use |
| **Notes and memory** `services/note_service.py`, `services/memory_service.py`, `jobs/business_handlers.py` | notes, the review memories made for them | create, update, label, delete, in batches; enrich | projection gate, jobs, the model | what the model saw is old when its answer is written; three locks taken in different orders |
| **Other services** `services/`, `router/` | documents, templates, settings | CRUD in one transaction | projection gate, jobs | the gate (modelled with the projection) |
| **Infrastructure** `db/`, `core/`, `cache/` | sessions, pools, counters, caches | unit of work, callbacks, rate limit, cache | everything | pool exhaustion, loseable Redis |
| **E4 import** `e4/importer.py`, `e4/repository.py`, `scripts/e4_import.py` | batches, imported entities, `migration_maps`, media, business rows | validate, import a chunk, close the batch, resume | the application, which serves the target already | commands that overlap, die between chunks and are started again |
| **Legacy retrieval, front end, Django service, benchmarks** | - | - | - | see *Not modelled* |

What makes each component correct, in the order of the plan:

- **Job table.** One open attempt for a job, named by the fencing token; a
  terminal job is never written again; a job that may be claimed has an attempt
  left; a cancel request is never overtaken; one result at most, that of the
  last lease.
- **Admission.** What a committed producer was told is true; the backlog is
  bounded.
- **Runner.** The business effects of a job are committed once, exactly when
  the job is recorded as succeeded; a job is settled if a process that has its
  handler stays up; the loop never wedges.
- **Projection.** A state that says *ready* is complete, consistent and about
  the current sources; a stale attempt changes nothing; a deleted collection
  stays deleted; the gate opens again; garbage is reclaimed; an answer is about
  what was current when it was given.
- **Grants.** Two different people stand behind a decision; one grant of a target
  is in force; a decision is not rewritten.
- **Skill authority.** What is enabled is what was approved; a tool that works
  does so under the very grant its run was bound to, and nobody withdraws it
  meanwhile; a run that has lost its authority never regains it.
- **Catalogues.** A run never mixes the Skills of two revisions; an event is not
  acknowledged before its change is served; every process comes to the database's
  revision.
- **Sessions.** A session that may be used was opened with the password now in
  force; a session somebody was told is over has no token that works.
- **Chat.** What is stored of an answer is what was shown of it; a connected
  stream ends; no turn drops out of the context when old ones are summarised; a
  high risk action is carried out once at most, and only on consent.
- **Import.** A batch called imported is; a mapping and its row come together; an
  interrupted import can be finished if nothing but its earlier runs is in the way
  and its bundle lists no existing targets.
- **Notes.** A note that changed since the model saw it is not overwritten, nor is
  metadata its user gave it unless they asked for that; no review that enrichment
  made outlives its note.

## 2. Plan

Done in the order in which the rest depends on it:

1. `JobLifecycle` (abstract) and `JobQueue` (the table), with the refinement and
   the proofs in `JobTableProofs`.
2. `JobAdmission`: how a row gets into the table.
3. `JobRunner`: processes and handlers on top of `JobQueue` (INSTANCE); in
   `JobServiceProofs`, that they use the table as `JobQueue` says.
4. `RagProjection`: what the rebuild jobs do, on top of `JobLifecycle`, with its
   proofs.
5. `AuthorizationGrants` (the table) with its proofs, and `SkillAuthority` on top
   of it (INSTANCE), with its proofs: management, grants, runs, calls and
   confirmations of a Skill.
6. `ChatTurn` with its proofs: the driver and the agent of a stream, summaries,
   confirmation.
7. `AuthSessions` with its proofs: rotation and revocation of refresh families, and
   the password change that must outlive a concurrent login or refresh.
8. `BusinessImport` with its proofs: the chunked, resumable import.

9. `NoteEnrichment` with its proofs: the optimistic checks of the handler against
   note writes, deletions and rebuilds; and the proofs of `JobAdmission`.
10. `SkillCatalogues` with its proofs: the catalogues of several processes, the outbox,
    degraded snapshots.

Next:

11. `RunnerPool`: the three connections of the E4 runner, held by the process
    lock, the authority session, the handler and its units of work; can a job
    wait for a connection it holds itself?
12. Rate limit, cache, MCP registry.
13. Proofs: the safety parts of `EveryJobSettles` and `StreamsEnd`: what may stand
    between an active job, or an open stream, and its end.

## 3. Modules

| Module | Models | Variables |
|---|---|---|
| `JobLifecycle` | abstract promise of a job: granted to one holder at a time in numbered epochs, ended by one verdict | `phase`, `epoch`, `winner` |
| `JobQueue` | the job table | `job` (rows of `jobs`), `attempt` (rows of `job_attempts`) |
| `JobAdmission` | enqueue in REPEATABLE READ transactions | `table` (committed rows), `tx` (snapshot, own inserts, answers of each producer) |
| `JobTableProofs` | theorems about `JobQueue` | |
| `JobRunner` | poll loops, handlers, heartbeats, crashes; `Table == INSTANCE JobQueue` | the two tables, `proc`, `orphans`, `lock`, `effects`, `counted` |
| `JobServiceProofs` | theorems about `JobRunner` and `JobAdmission`; `T == INSTANCE JobTableProofs` | |
| `RagProjection` | one user's projection; jobs as `JobLifecycle` promises them | `phase`, `epoch`, `lapsed`; `source`, `state`, `head`, `gen`, `manifest`; `worker`, `thread`, `chroma`, `tombs`; `reader` |
| `RagProjectionProofs` | theorems about `RagProjection` | |
| `AuthorizationGrants` | the grants table | `grants` |
| `GrantsAndNotesProofs` | theorems about `AuthorizationGrants` and `NoteEnrichment` | |
| `SkillAuthority` | a Skill from its package to a side effect; `G == INSTANCE AuthorizationGrants` | `versions`, `inst`, `caps`, `grants` (tables); `registry`; `runs`; `lock` |
| `SkillCatalogues` | the registry of Skills in the database and in several processes | `revision`, `committed`, `processed`, `damaged`, `local` (database); `process`, `catalogue`; `task` (loops and requests); `faults` |
| `SkillProofs` | theorems about `SkillAuthority` and `SkillCatalogues` | |
| `ChatTurn` | streamed turns of one session, its summary, one pending action | `session`, `rows`, `lastId`, `memory` (tables); `pc`, `target`, `shown` (drivers); `agent`, `queue`, `text`, `context` (agent tasks); `action`, `expired`, `holder`, `reply`, `decision`, `inTime`, `takes`, `effects` (confirmation) |
| `ChatTurnProofs` | theorems about `ChatTurn` | |
| `AuthSessions` | an account, its sessions and refresh tokens | `user`, `sessions`, `families`, `revocations` (tables); `requests`; `ended`, `lastSet` |
| `AuthSessionsProofs` | theorems about `AuthSessions` | |
| `BusinessImport` | the import of bundles by several commands | `bundles`, `batches`, `entities`, `mappings`, `rows`, `media` (tables); `runs`, `faults` |
| `BusinessImportProofs` | theorems about `BusinessImport` | |
| `NoteEnrichment` | the notes of one user, their reviews, and the handler that tags them | `enabled`, `gate`; `note`, `reviews`, `entered`, `chosen`; `phase`, `epoch`, `lapsed`, `task` (jobs); `handler`; `request`; `owner`, `holder` (row locks) |
| `MC...` | constants, symmetry sets and scenes of the runs | |

Operators whose comment begins with *Fault:* are variants of the definition
that follows them, with a plausible bug. No specification uses them; each shows
that one property can fail.

### JobQueue

One action for each transaction of `JobRepository`; a rejected call changes
neither table and is a stuttering step. Whoever was once handed a claim, that
is, any row of `job_attempts`, may call `start`, `heartbeat`, `succeed` and
`fail` at any time, so nothing relies on there being one runner, on `GET_LOCK`
or on the order in which a runner calls. `claim_one` runs `recover_expired` in
the same transaction and both skip locked rows: `ClaimOne` takes the set of
locked rows as a parameter and does both.

Time is relative: `lease` and `wait` are what is left, `Tick` ages them. A
transaction reads the clock before it waits for a row lock, so the value it
compares may be `lag` ticks old, for any `lag <= MaxLag`. The assumption
`MaxLag < LeaseTime` is MySQL's lock wait timeout (50 s) against the lease (60 s).

Left out: `audit_events` (appended to, never read by job code), timestamps
nobody compares, payload validation, error texts. plan.md:84 of
`project_changes/2026-08-28-e2-ar1-sql-foundation` draws retry_wait -> queued ->
leased; the code claims retry_wait rows directly, and so does the model.

### JobAdmission

`Begin` takes the snapshot; `Ask` is `enqueue` up to its INSERT (duplicate
lookup, digest comparison, backpressure); `Insert` meets the current rows: it
waits for an uncommitted row with the same key, and fails on a committed one,
after which the second lookup reads the old snapshot. The guards refuse any
isolation level but REPEATABLE READ (`db/e2_guard.py`, `db/e3_guard.py`).
`enqueue_business_job` has the same shape with the pending rows of the session
added to the counts; a fresh event id makes its key unique.

### JobRunner

A process is a lease owner; a restart is another owner. `Poll`, `StartClaim`,
`Observe`, `Verify`, `FinishSuccess` and `FinishFailure` are the statements of
`run_once`; each database call may be refused by the fence, fail without effect,
or commit and lose its reply, which the code sees as an exception. `Beat` and
`BeatRaises` are the two ways a heartbeat ends badly: refused (the handler is
cancelled and awaited) or raised (the handler goes on as an orphan).
`HandlerCommits` is a handler that commits its writes and `succeed()` in one
transaction; `HandlerHears` is the moment it learns of it. `Resolves` says which
owners have the handler of a job registered. The modelled runner is that of
`jobs/e4_runtime.py`, which sets `claim_registered_only`: its polls ask for the
registered types and nothing else, so it neither claims nor recovers another job
(`Unasked`). Projection jobs stay queued as long as every process runs without E5,
which is what plan.md:96 and :247 of
`project_changes/2026-09-02-e4-ar3-business-migration` ask for; `EveryJobSettles` is
therefore about a job some process with its handler stays up for (`Served`). The
runner of `jobs/e2_runtime.py`, which asks for every type and has two test handlers,
serves another database and is left out, and with it the failure of a job of unknown
type. `ResultsAgree` is the conjunction of `EffectsOnce` (the effects
are committed once, and then the job has succeeded), `CountedIsStored` (what a
process counts as processed is in the table) and `OneHandlerHoldsTheFence`. `LoseLock` is a
dropped lock connection: the process that held the lock goes on polling.

### RagProjection

One user is enough: every transaction locks the user's row first and users share
no rows. So each transaction is one step, and what runs outside of the lock is a
step of its own: `ReadSources`, `StartBuild`, `ThreadStart`, `ThreadEnd`, the
reader. A worker thread survives the coroutine that awaits it (`Abandon`), and is
only excluded by the per-collection file lock and the `.retired` tombstone.
`Write` is any transaction that changes notes, documents or the embedding config:
it is refused while the gate is closed, else it closes the gate and enqueues one
job for every changed row. `source` is the version of everything a build depends
on. `chroma` is the set of collections that exist; their content is not
modelled, the receipts that `validate` compares are.

Jobs appear as `JobLifecycle` promises them, with `lapsed` added because
`current_job` and `cleanup` also look at the lease time. That the actions of this
module respect the promise is checked (`JobsFollowLifecycle`); that the table
keeps it is proved (`Refinement`).

### AuthorizationGrants

One action for each transaction. `approve_grant` and `revoke_grant` read the row
FOR UPDATE, so the check and the write are one step; the unique key over target
and status is a guard (`KeyFree`), since a refused flush leaves nothing behind.
The revision and digest sent with a decision repeat columns that no transaction
changes and are left out. The two administrator roles may meet in one person: the
bootstrap keeps them apart, account recovery (`ops/e6_e7/recover_account.py`)
gives `skill_admin` to whichever account it recovers.

### SkillAuthority

One Skill and one process. A management request locks the installation row and is
refused unless the revision it was sent with is still current; it is one step, on
the current rows, and waits while a session holds that row. `Installed` is what
imports, publications, activations and roll-backs have in common. The decisions of
`router/user.py` (`DecideDirectly`) change a grant alone: neither the
installation's revision nor the catalogue moves, so that the catalogue offers a
Skill whose grant is gone; the checks of `Bind` and `Valid` must catch it.

`lock` is the session that holds the installation and its grant beyond one step:
that of a tool call (`execution_authority`, for as long as the tool works) or that
of a confirm request (until its response has been streamed). `seen` is the
capability rows in a session's snapshot, older than the rows read under locks.
`LockWaitTimeout` is InnoDB's. The rebuild of a catalogue takes row locks too; the
model leaves them out, which only allows more interleavings.

### SkillCatalogues

A management operation locks the registry's row in `_bump_registry` and keeps it to
its commit, so revisions are committed one after the other; `committed` is what each
left, and a transaction that reads has its first SELECT's revision as its view: the
snapshots of `REPEATABLE READ`. `Activate`, `Configure` and `Retire` are the
operations by what they do to a Skill's entry: its active package, or just the
revision of its last change. Who may do so, and to what else, is `SkillAuthority`'s.

`Rebuilds` is `refresh_registry` up to its return: either every package of the view is
intact and the catalogue is published as built, or one entry fails (`Intact` says
whose fault it is; an error of another kind, such as a lock wait timeout on a grant,
is a fault of its own) and an empty, degraded catalogue is offered instead. `Accepts`
is `publish`. The four callers differ in what follows: a process that starts ends
without a catalogue (`EndStart`); the loop goes on to acknowledge (`Build`,
`Acknowledge`) or tries again; a request runs or is answered with 503; a callback after
a commit (`BeginRefresh`, `EndRefresh`, where E4 is off) tells nobody. `reconcile_registry`
looks at the catalogue when it is called and again when its rebuild has ended: between
the two, other tasks of the process publish. Any task may be lost where it waits
(`Abandon`), and a process anywhere (`Crash`).

The bytes of the packages are read one by one during a rebuild; the model reads them
when it ends. Operations that raise no registry revision (a draft, a direct decision on
a grant) are not part of this module: see *Findings* for what they leave stale.

### ChatTurn

A stream is two tasks that share a queue: the driver, a generator that lives as
long as the connection, and the agent, which outlives it. `Forward` is one event on
its way to the client, in the loop or in the drain after it; `Timeout`, `Join`,
`StoreTurn`, `StoreAnswer` and `StoreFails` are the ends of the driver,
`Disconnect` closes it wherever it stands. An agent whose client is gone works on
with nobody to watch the time, and its answer is not stored: `DetachedEnds`. The
time limit is a step that is possible whenever the driver waits. Only response
events are modelled, and a text is the sequence of its tokens; thinking events,
filtering of tokens, titles and trimming by length are left out.

The summary is made in three transactions, `ReadMemory`, `ReadTurns` and
`Summarise`, between which other turns store, delete, clear and summarise.
`memory.of` is the set of answers a summary covers, which the code does not keep:
it keeps the boundary. Several connections, regenerations, deletions of a message or
of a turn, and the clearing of the session are all of the user's making, at any
time. `add_message` stores both messages of a turn in one step, although two such
transactions may interleave their ids; that a summary stands for the turns as the
client paired them is stated of neighbours in id (`Answers`).

The confirmation is `take_pending_action`: the clock is read, then the row FOR
UPDATE, then the row is deleted and the transaction commits, and the tool is called
after that. Requests know the action's id; that other users are refused is left
out. `Crash` is the end of the process at any of these points.

### AuthSessions

A request is one REPEATABLE READ transaction. What it reads without a lock is as
old as its first read, what it writes meets the current rows; hashing lies in
between, so login, registration, password change, revocation and logout are a
*Begin* and an *End*. `refresh` reads under row locks only and is one step. A client
may present any token it was ever given at any time, which covers lost replies, tabs
and copies. A unique key is a guard: `KeysFree` and `VersionFree`; where it is
violated the whole transaction fails (`Abandon`), and the client sees an internal
error: a change of the password whose snapshot misses a revocation another request
has just committed, and a logout of a session that was revoked meanwhile.

Left out: names, profiles, the columns `last_seen` and the audit events; the
uniqueness of names and addresses (one account is modelled); the statuses
`disabled` and `locked`, which no code of the backend writes; the cookie that
carries the refresh token, whose path keeps it from the logout route.

### BusinessImport

A command validates a bundle and imports it in chunks, each in one transaction:
`Validate` reads the snapshot, `ImportChunk` takes the locks, repeats every lookup
and commits, `Refuse` is a report that is blocked or a chunk that raises and is
rolled back, with the status it has just set. `Fail` is a crash, a deadlock or a
lost connection. `Start` is an operator, with `--resume` or without. `Ordered` is
the order `_ordered_entity_keys` puts the entities in, which decides what falls into
which chunk. Every row of a bundle comes from one state of the source, its
`digest`; two bundles may be of two states, may overlap, and may take an entity for
granted that another imports (`known`). A bundle may also list the targets of its own
entities that are there already; it is then refused whenever the list is not what SQL
shows (`Disagrees`), at every chunk, and so by what its own first chunk has brought in.
A bundle may consist of media alone. `Edit` and `Delete` are the application, which
already serves the target while the import runs; a row it has deleted is inserted
again by an overlapping batch.

Left out: owners, which come from the earlier import of accounts; the quarantine of
encrypted keys, because the command refuses such a bundle before it opens the
database; roll-back and reconciliation of a batch, whose statuses nobody writes;
the export side. A batch that is closed is not closed again: a bundle changed under
an imported batch is not judged by `_assert_batch_complete`, so the model gives a
batch one bundle for good.

### NoteEnrichment

`enrich()` of `jobs/business_handlers.py` is `ReadNote` in a first session, and after
the model's answer `FenceJob`, `CheckNote`, `PassGate` and `Enrich` in a second one,
each of which waits for one lock; `GiveUp` is a return or an exception anywhere. The
requests of `NoteService` are transactions too: `Open`, then `ScanReviews`,
`EnterGate` and `LockRow` in the order of the operation (an ORM write passes the gate
before it locks the row, a query locks the rows first), and `Commit` or `Rollback`.
What a transaction writes shows when it commits. `CreateNote`, `Retag`,
`DeleteReview` and `EnterReview` hold nothing that matters beyond one step.

`reviews` counts the reviews `enrich()` made of a note, `entered` those its user made
through the memory API (`POST /memory/create`), or turned into reviews with an
update. The flush of such a write looks the note up without a lock
(`business_authority.py:302-306`), and its INSERT waits for a deletion that scans the
reviews; when that has committed, the INSERT goes on. `EnterReview` therefore asks
only that the note was there once, and a review that was entered can outlive its note
or come after it. `ReviewHasNote` and `OneReview` are about the others, which the
handler writes under the lock of the note. A review of the handler that its user turns
into a memo, and back, counts as entered from then on.

The second session takes its snapshot with the first plain SELECT: with E5 that is
the user's state, before the note is locked, so that the lookup of reviews may be
older than the lock (`had`). A scan FOR UPDATE over the reviews of a note closes the
gap a new one would be inserted into (`GapFree`), because the guards refuse any
isolation level but REPEATABLE READ. Locks of gaps do not exclude each other, which
`ReviewsFree` allows for. `Rebuild` stands for `RagProjection`, `Claim`, `Lapse` and
`EndTry` for `JobRunner`: any handler that was started may still be at work.

Left out: titles, pins, templates and review intervals; memories of other types that
a user links to a note; the projection jobs a write enqueues (`RagProjection`).

## 4. Runs

| Run | Instance | Shows |
|---|---|---|
| `job_table` | 2 jobs, 2 owners, 2 attempts, lease 2, lag 1; then 2 producers, 4 keys (one with 2 payloads), 2 scopes, limits 2 and 1, 2 requests in a transaction | consistency of the tables, refinement of `JobLifecycle`; answers given to committed producers stand; the overshoot of the backlog is bounded by one limit for each producer |
| `job_runner` | 1 job with 2 attempts, a runner, its successor, a process that lacks the handler; with fairness | effects once, counters, one valid fence; a job settles if a process that has its handler stays up, the loop returns |
| `rag_projection` | 1 job with 2 attempts, both index kinds, 2 versions of the sources | publications are complete; stale attempts and zombie threads change nothing; a closed gate has an owner that may open it |
| `rag_projection_replace` | 2 jobs of 1 attempt, one index kind, 1 reader; with fairness | replacement under a reader; the gate opens, garbage goes |
| `auth_sessions` | 3 sessions, 2 requests, 2 passwords, both hash formats, 2 tokens a session, 2 changes | a password change ends what is older; what is over stays over |
| `business_import` | 2 commands, 2 batches, 4 bundles over 3 entities (one lists a target, one has media alone), chunks of 2, edits and deletions by the application, 1 fault; with fairness | closed batches are complete; mappings have rows; an interrupted import converges unless its bundle lists targets |
| `chat_turn` | three scenes, see below; with fairness | what is stored was shown, nothing drops out of the context, streams end, actions are carried out on consent |
| `grants_and_notes` | 3 grants, 2 targets, 3 users (one with both roles); three scenes of 2 notes, 2 jobs with 2 attempts, 2 requests, 2 texts, 2 metadata, a review the user enters for a note, see below | two people stand behind a decision, decisions are facts; notes are overwritten by nobody who has not seen them, no review of enrichment without its note |
| `authorization_grants_revoke` | the grants of `grants_and_notes` | *violation*: the second grant of a target cannot be revoked |
| `skill_authority` | 2 packages, 2 tool sets, 2 grants, 2 runs, 5 changes | only approved content is enabled; nothing is withdrawn under a tool that works; lost authority is lost; the grants table is used as promised |
| `skill_catalogues` | 2 processes, 2 requests of one of them, 2 Skills of one package, 2 operations, 1 fault; with fairness | no run mixes revisions, no event is acknowledged unserved, every process converges |
| `skill_authority_confirm` | 1 package, 1 run | *violation*: the confirm request holds what its call waits for |

Why the bounds are enough. Rows of different jobs meet only in `claim_one`
(order, recovery of several leases in one poll) and in replay: two jobs in
`job_table` show both, and what a runner adds concerns one job. Two attempts give a
stale holder, its successor, the last attempt and the dead letter; a third repeats
the second. Two owners give a holder and a thief; a lease longer than the lag by one
tick separates *valid*, *valid by an old clock* and *lapsed*. For the projection, a
retry needs two attempts of one job, a replacement needs two jobs; the runs take one
each, since both together exceed what can be enumerated. With two changes of the
sources a build starts from the first, and what it publishes is stale by the second.

For a Skill, five changes of the installation are what it takes to import, request
(the approval may be direct), change the tools, change them back and enable, or to
enable, disable and enable again under a bound run; a roll-back needs two packages,
a call that waits for another's needs two runs. Four keys are more than two
producers can enqueue under a limit of two; there the bound for one scope is what
`OvershootBounded` tests, the one for all scopes is out of reach and rests on its proof.

Two operations give the catalogues a current, a previous and an empty revision: a
rebuild can be late by one operation or by two, and one Skill can be changed, retired
or be followed by the other. One fault is a process that ends, a package that is
damaged for a while or for good, or a rebuild that fails under a healthy package. Of
the two requests one prepares runs and the other manages and refreshes
(`MCSkillCatalogues!Divided`): every pair of overlapping rebuilds of one process (loop
and run, loop and callback, run and callback) occurs, and a second process has its loop
alone.

Three sessions are one that a change sees, one that is opened behind its back and
the one the change issues; two requests overlap in every way two transactions can.
Three entities in chunks of two put a reference and what it refers to on both sides
of a chunk's end, in the wrong order for a plain sort.

The scenes of `chat_turn` are initial states that leave different parts of the
model something to do: `Overlap`, two streams that summarise a session of three
turns under one deletion; `OneTurn`, a stream with two tokens that asks for a
confirmation, one request and a crash; `TwoRequests`, two requests over one pending
action and a crash. Streams and requests share nothing but the action. One recent turn stands for the code's six, so
that three turns already have some to summarise; with two deletions the run passes
as well, in several minutes.

`grants_and_notes` and `job_table` explore two modules that share nothing, each while
the other rests, so that they cost their sum. The scenes of the notes (`MCGrantsAndNotes!Scenes`):
one request among two jobs, or one job that is retried, about one note; two requests
and one job about one note; one request about two notes, with no review entered. They show a handler with
its successor, a forced job with an unforced one, a deletion with an update under a
handler, and a batch whose notes are locked one by one.

Deadlock checking is off where all jobs may come to rest, or all processes be
dead. Symmetry is used in runs without liveness only.

### Fairness

`JobRunner!Fairness`: the clock ticks; a service that is down is started (the
deployment's supervisor; the number of restarts is the number of owners); a poll
that meets no locked rows, and each further statement of `run_once`, eventually
happens; handlers terminate. The last one is an assumption on handlers: the runner
has no timeout of its own. Nothing obliges heartbeats, cancellations, lost
replies or crashes.

`RagProjection!Fairness`: jobs are claimed and, in the end, completed or
recovered (what `EveryJobSettles` shows of a runner that has their handler and stays
up, which E5 provides for); threads end; the
reconciler comes round (`reconcile_until_stopped` catches every exception and
sleeps five seconds), and its cleanup of one collection succeeds if it is
possible again and again (strong fairness: the file lock may be busy, the attempt
live). A worker is not obliged to get anywhere: the liveness properties hold for
rebuilds that always fail.

`ChatTurn!Fairness`: the event loop runs the driver of a connected stream, and the
clock reaches the limit of a turn. Nothing is assumed of the agent, which may hang,
and nothing of clients.

`SkillCatalogues`: the loop of a process comes round (`_reconcile_skill_registry`
catches every exception, waits at least half a second and polls again), and a start
that was begun ends. Nothing obliges a process to start, a run to be prepared, a
callback to be called, a damaged package to be repaired: `Converges` assumes that the
packages in use are intact in the end, and the bound on faults stands for the failures
that end.

`BusinessImport!Fairness`: a command does not stop by itself, and as long as a batch
is not closed somebody starts it again with `--resume`: the documented answer to an
interrupted run.

## 5. Proofs

`JobTableProofs` proves of `JobQueue`, for any sets of jobs and owners, any number of attempts,
any lease, delays and lag that satisfy `ConfigAssumption` and `TableAssumption`
(what `JobRuntimeConfig.__post_init__` enforces, and `MaxLag < LeaseTime`):

- `TypeCorrect`, `BudgetHolds`, `FenceNamesAttempt`, `AttemptExclusion`,
  `ResultIsUnique`, `TerminalStays`, `ClosedStays`, `FenceGrows`, `CancelStands`: the
  safety properties of the `job_table` run, and those that say that one attempt of a
  job is open at most, that a terminal job and a closed attempt are final, that tokens
  grow and that a job that may be claimed has an attempt left, which no run repeats;
- `Refinement`: `Spec => Lifecycle!Spec`.

The inductive invariant is the conjunction of the types, `RetriableHasBudget`,
`LeaseStandsWithAttempt`, `AttemptsFollowFence`, `OneOpenAttempt`,
`OneResultPerJob` and `CancelIsSticky`. None of the parts is inductive alone. That
at most one attempt is open needs that the attempt addressed by token is the one
addressed by number (`AttemptsFollowFence`); that a retry has budget left needs
that a leased row has used at least one and a waiting one fewer than all; that a
cancel is never overtaken needs that the cancel column and the status agree
(`CancelIsSticky`), because a poll looks at the column and a holder at the
status. The proof has one lemma for each transaction on the row it writes and lifts
them to the tables: a transaction other than the poll writes one row, the poll
writes the recovered rows and the claimed one, in that order.

`JobServiceProofs` proves of `JobRunner`, for any sets of jobs and processes, from
`RunnerAssumption`: `RunnerTyped`, `RunnerImplementsTable` and `ResultsAgreeAlways`.
The second says that the pollers, heartbeats, handlers and orphans of all processes
together take no step on the two tables that `JobQueue` does not, so that everything
`JobTableProofs` says of the table, and `JobLifecycle`, is true of the running
service. `JobQueue` lets an owner write under a token that `job_attempts` records as
its own; that a runner's call that gets through, however late, is such a call is the
table's invariant (`HolderIsRecorded`). The inductive invariant of the runner adds to
it and to the types:

- `EffectsOnce` and `CountedIsStored`: business writes are committed by the
  transaction that stores the result, and a result, once stored, stands (the table's
  invariant); what is counted was stored by a reply or found by a look at the table.
- `HoldersKnow`: nobody works under a token later than the job's, hence a claim, which
  takes a fresh one, is never one that was orphaned; an orphan's claim is not the one
  its process works on now. Of all handlers at work on a job the fence therefore admits
  one (`OneHandlerHoldsTheFence`), also of two in one process.

`JobTableProofs` states what this needs of the table as lemmas: `SucceedWins` (a
result is stored under the lease), `CallsAreQuiet`, `PollIsQuiet` and `FailIsQuiet`
(no other call does), `StepsKeepResults` (results stand, and a token grows with each
attempt).

`GrantsAndNotesProofs` proves of `AuthorizationGrants`, for any rows, targets, contents and users that
satisfy `AuthorizationAssumption` (an empty column is no user): `TypeCorrect`,
`FourEyesHolds`, `OneInForceHolds`, `DecisionsAreFactsHolds`. `FourEyes` and
`OneInForce` are inductive over the types; that a decision is never overwritten
also needs that its columns are blank before it is taken (`Undecided`). One lemma
for each transaction describes the row it writes.

`SkillProofs` proves of `SkillAuthority`, for any grants, packages, tool sets, administrators
and runs that satisfy `SkillAssumption` (at least one change may be made; a lock is
not mistaken for its absence) everything the `skill_authority` run checks:
`TypeCorrect`, `ServiceFollowsGrants`, `EnabledWasApproved`, `WorkIsApproved`,
`WithdrawnStays`. The bound `MaxRevision` is any number, so it bounds nothing.

- The types need `CapsFollow`: a capability row is never revised more often than
  its installation, so its next revision is in range whenever the installation's is.
- `ServiceFollowsGrants` is the refinement: a request names the target
  `capability revision + 1` and the content the settings have, an approval, a
  revocation and the passing of time are the table's, every other step leaves the
  grants alone.
- `EnabledIsWhatWasApproved` is inductive over the types, because a row that was
  written never changes its target or content (`GrantKept`, from the refinement).
- `ActingIsApproved` is not inductive: `LockHeld` says that whoever works holds the
  lock, so the steps of administrators, which wait for it, cannot touch what was
  checked (`AdminRevision`: while the lock is held only time passes).
- `WithdrawnForGood` needs `Past` (no binding or catalogue entry names a revision the
  installation has not had, so a revision once different stays different) and
  `BoundGrant` (a run's grant dates from its binding and is a row of the table).

`ChatTurnProofs` proves, from `ChatAssumption` alone, `ChatTyped`,
`CarriedOutOnConsentHolds`, `StoredIsShownHolds` and `NothingForgottenHolds`, for any streams, requests, turns,
tokens and crashes. Three inductive invariants stand side by side:

- `ActionInv`: the row lock has one holder, who has not consumed the action before;
  while the row is stored nobody has taken it, so that there is one taker at most,
  and an effect belongs to one who took it in time and consented.
- `EchoInv`: what was shown, followed by what is queued, is the text so far. The
  driver stores only after the queue is drained.
- `RowInv` (ids grow along the history and stay below the identity column) and
  `SummaryInv` (a summary, stored or being made, covers every answer up to its
  boundary). The second is preserved because a new answer has an id beyond every
  boundary; because a deletion makes no new pair of neighbours in id; and because the
  older turns a summary adds lie below the newest, which it leaves out.

`AuthSessionsProofs` proves `TypeCorrect`, `UsableIsCurrentHolds` and
`EndedIsOverHolds` from `AuthAssumption`. The version of an account is one more than
the number of its changes and the keys of revoked versions are all from two to the
version (`VersionCounts`): the second of two changes that read the same version meets
a key that is taken. A session carries the version of the change it was issued after
(`SessionsCount`), and what a request has read is no later than what is
(`RequestsCount`), hence a session with the current version is of the current
password. `EndedIsOver` is inductive over these: a session is issued under a fresh
identity, and a refresh requires a session that is active.

`OneTokenWorksHolds` and `SpentStaysSpentHolds` are about the history of a family, and
follow from what a step may do to one (`FamiliesMove`): leave it, revoke all of it, begin
it with one token, or exchange an active token for a new one at the end. Because the
active token is the last, the exchange leaves none but the new one.

`BusinessImportProofs` proves `TypeCorrect`, `FinalizedIsCompleteHolds` and
`MappedIsWrittenHolds` from `ImportAssumption`. `FinalizedIsComplete` needs that the
entities of a batch are of its bundle (`OfBundle`), are mapped as the bundle says
(`ImportedIsMapped`) and have their rows (`MappedIsWritten`); that media come with the
first chunk, before any entity of a batch (`MediaComeFirst`); and of a command, that
it works on its bundle, that what its snapshot saw imported is imported, and that
behind its first chunk the media are there (`CommandsWork`). None of it says that one
command runs at a time: completeness is judged by a snapshot that only grows old.

Three more theorems are the safety half of `ResumeConverges`.

- `OrdersAreSoundHolds` is about the algorithm of `_ordered_entity_keys`: if the
  references of no bundle go round (`NoCycles`), its order has every entity once, behind
  everything of the bundle it refers to; and there always is one, because each key can
  go behind those that come before it (`OrderExists`). Rounds only grow (`RoundsGrow`), each places
  something while anything is left (`AllArePlaced`), so a reference is placed in an
  earlier round (`ReferencesFirst`). These are inductions, and the existence of the
  recursive function is another (`PlacedExists`); the library's induction theorems
  cannot be used, so they go by the least counterexample (`LeastNumber`,
  `StepByStep`), which exists because the finite subsets of a set are well-founded.
- `ResumedIsAcceptedHolds`: what a command has left to do is the end of such an order,
  and what comes before is imported (`ProgressMade`). So if nothing else is in the way
  of the batch (`Clean`: no other state of the source, no change or deletion by the
  application, no list of targets), its validation passes (`CleanIsNotBlocked`),
  everything its chunk refers to is there, and its last chunk finds the batch complete. The one further condition, that the snapshot is not overtaken, is needed:
  completeness is judged by the snapshot, so a batch that another command works on at
  the same time may be refused once more.
- `ChunksLockNobodyOutHolds`: a chunk leaves every batch over the same state of the
  source as free of conflicts as it was, and not blocked, its own batch included. A bundle
  that lists targets is not `Clean`: for it the statement is false.

`MCBusinessImport` has TLC evaluate `NoCycles` for the bundles of the run.

Of `JobAdmission`, `JobServiceProofs` proves `AdmissionTyped` and `AnswersHoldAlways` from
`AdmissionAssumption`. A transaction believes what it was told: about each key one
thing, of a row it created or of one in its snapshot (`Consistent`); what its snapshot
holds is still there, with the same payload, and nobody has committed a row it
inserted (`UpToDate`); nobody else holds an uncommitted row with its key
(`Exclusive`). So what it commits contradicts no answer another has committed with.

Of `NoteEnrichment`, `GrantsAndNotesProofs` proves from `NotesAssumption` `NotesTyped` and everything the
run checks of the notes: `CheckedNotesStand`, `ReviewsHaveNotes`, `ReviewsAreOne`,
`UserMetadataIsKept`.

- The types need `ScansStand`: a deletion knows all reviews of the notes it has
  scanned, so it never deletes more than there are.
- `CheckedStands` holds because a handler that has compared its note owns its lock
  (`LocksStand`) and every other writer takes it first.
- `ReviewHasNote` then needs both: an insertion by a handler meets the note live and no scan of its
  reviews, a deletion that commits has counted them all.
- `OneReview` without E5: what a handler has seen of the reviews stands as long as it
  holds the note (`HadStands`).
- `UserMetadataStands`: a job nobody forced reads a note without metadata
  (`UnforcedBlank`), and what is compared stands; a forced one was asked for, because
  a job has no task before it is submitted (`TasksFresh`).

Of `SkillCatalogues`, `SkillProofs` proves `RunsUseOneRevisionHolds` and
`AcknowledgedIsServedHolds` from `CataloguesAssumption`, for any processes, requests,
Skills and bounds. The invariant (`CataloguesHold`) says of every catalogue that it is
no newer than the database and, unless degraded, holds what was committed at its
revision; of a process that serves, that it has published a healthy catalogue, because
a start needs one and `publish` never takes it away; and of every task, that its view is
no newer than the database, that a run uses a catalogue no older than its view, and that
a loop about to acknowledge still has one: its process was at its view when it looked,
and a registry's revision never falls. The last part is what `AcknowledgedIsServed`
needs, and it needs the second: without it a degraded rebuild of another task of the
process could come in between.
`ServedGrowsHolds` turns the last two parts to the outside, and is the safety half of
`Converges`: a process that serves only ever moves to later healthy catalogues.

`RagProjectionProofs` proves of `RagProjection`, from `ProjectionAssumption` (a job or
an attempt is not mistaken for NULL), every safety property of its two runs for any
number of jobs, attempts, source versions, index kinds and readers: `ProjectionTyped`,
`ReadyIsServableHolds`, `RetainedIsActiveHolds`, `DeletedIsGoneHolds`,
`FailureIsOwnHolds`, `AnswersAreCurrentHold`, `JobsFollowLifecycleHolds`,
`GateHasAnOwnerHolds`; and `NoneIsLostEver`, which no run repeats. The inductive
invariant `IInv` is the types, `ReadyIsServable`, and

- `RevisionsCount`: every rebuild that begins raises the revision of the user's state,
  so the revision a worker carries tells it from every other, also from the next
  attempt of its own job. That is why `_check_state` may compare a number.
- `SourcesNoted`: at that revision the state and the locators still say what the worker
  read two transactions ago. The third transaction compares it with the sources as
  they are, under the lock every writer takes: what is published is of now.
- `BuiltStands`: what a claim in force has built is there. It holds although cleanup
  and zombie threads run without that lock, because cleanup spares a live claim, and
  a claim that was once not in force never is again (`LivesOnce`: an epoch is granted
  once), so that what cleanup saw stays true.
- `GenerationsRecorded`: the head, *ready* and *retained* are one fact told three times
  (`RetainedIsActive`); a deleted collection has its tombstone, which outlives
  everything (`DeletedIsGone`).
- `ClaimsCounted`, `ThreadsFit`, `LocatorsFirst`: what a worker that has not come to a
  point has not yet done; among it, that no collection is touched before its locator
  is durable.

`GateHasAnOwner` needs `Enqueued`: a job is named only as it is enqueued or claimed; a
job that nobody holds has an attempt left; the one transaction that makes a job succeed
also opens the gate (`OnlyPublicationSucceeds`), so the reconciler's test for
*succeeded* is never what makes it act. `NoneIsLost` needs the
pairs of status and cleanup status that occur (`Fates`): whatever a worker, a crash or
an interrupted cleanup leaves is in use, being written, or eligible again. These two are
the safety half of `RebuildEnds` and `CollectionsReclaimed`.

Of the running service `JobServiceProofs` proves two refinements in a row:
`RunnerImplementsLifecycle`, from `RunnerImplementsTable` and `Refinement`, and with it
`VerdictsStandInService`: what the table promises of verdicts and cancellations, the
processes, orphans and lost replies together keep.

Of admission it also proves `RowsStandAlways` and `OvershootBoundedAlways`. The bound on
the backlog is a count, and the counts a transaction compares are of its snapshot, which
may miss any number of rows. The invariant (`BacklogInv`) charges each active row to the
producer that committed it. Rows a producer committed earlier that are still active were
active in its snapshot, so they were counted; what it did not see is charged to others.
Hence nobody is charged more than a limit (`WithinLimits` says that a transaction's count
leaves room for what it inserts), and the active rows map one to one into producers times
a limit.

The type invariants of the modules with proofs are theorems which no run repeats.
`OneInForce`, `OneOpenAttempt`, `NoneIsLost`, `RowsStand`, `OneTokenWorks`,
`SpentStaysSpent`, `ServedGrows`, `ResumedIsAccepted` and `ChunksLockNobodyOut` are
properties that are proved and that no run repeats.

Only model-checked: liveness (`EveryJobSettles`, `PollerReturns`, `RebuildEnds`,
`CollectionsReclaimed`, `StreamsEnd`, `ResumeConverges`, `Converges`), because TLAPS does
not do fairness with ENABLED; and the two violations, which are counterexamples.

## 6. Findings

- `ApprovedCanBeRevoked`: plan.md:79 of `project_changes/2026-08-31-e3-ar2-fastapi-auth`
  gives security administrators the revocation of grants. The unique key over
  target and status (`models/identity_domain.py:213`) admits one revoked grant of
  a target, so the next one can be approved and then never revoked.
- `ConfirmedCallCanLock`: `agent/tool_guard.py:283` asks for a confirmation that is
  then executed. The confirm request (`router/chat.py:147`) holds the installation
  and the grant FOR UPDATE until its response has been streamed, and the call it
  streams waits for them in a session of its own, until the lock wait times out.

Further divergences are visible in the models and have no run of their own:

- `runner.py:155` promises a concurrency of one; a heartbeat that raises leaves its
  handler running (`runner.py:467`, `JobRunner!BeatRaises`). `ResultsAgree` shows that
  the database still accepts one result.
- plan.md:152 of `project_changes/2026-08-31-e3-ar2-fastapi-auth` has a password
  change revoke all that was; a login that verified the old password of an imported
  account writes its hash back over that of a change committed meanwhile
  (`auth/repository.py:220`). `MCAuthSessionsRehash.cfg` checks `PasswordStands` of
  `AuthSessions` and finds it violated.
- a producer whose snapshot is older than the winner's commit gets an
  IntegrityError instead of the job that plan.md:87 promises (`JobAdmission!Insert`,
  `jobs/repository.py:256`).
- overlapping transactions pass the backlog threshold of plan.md:90 together
  (`OvershootBounded` is what does hold).
- revisions of capability rows are counted for each version while a grant's target
  names only installation and revision (`SkillAuthority!RequestGrant`,
  `skills/grant_service.py:54`), so that after a change of version an older request
  or approval may stand in the way of a new one, which the comment at line 50 rules
  out.
- the docstring at `services/database_session_manager.py:125` keeps single answers,
  such as the receipt of a confirmation, out of the pairs of question and answer.
  After an answer was deleted alone, the receipt that follows pairs with its
  question; after two such deletions a question may pair with the answer to another
  one, which a summary need not cover (`Answers` leaves such pairs out).
- the comment at `agent/runtime/sse_driver.py:102` says that an answer was streamed
  token by token before it is stored; the apology for an empty answer is stored and
  never shown (`StoredIsShown` excepts it).
- the context of a regenerated answer may hold a summary of turns that came later,
  and a summary in the making when the session is cleared is written into the
  session created after it; neither loses a turn (`NothingForgotten`).

- write-path-inventory.md:32 of `project_changes/2026-09-02-e4-ar3-business-migration`
  has automatic and manual enrichment make one review. With E5 the snapshot precedes
  the lock of the note, and two overlapping handlers make one each; `OneReview` is
  stated for the other mode.
- enrichment is "paused" while a rebuild is under way (`jobs/business_handlers.py:67`);
  to the runner that is a failed attempt, and five of them end the job.
- `docs/archive/2026-08-26/standard_skill_integration_requirements.md:72` (and 530) keeps
  one bad package from the start of the API and from other Skills. One package that fails its check, or a lock wait timeout on the row of one grant, makes the whole
  rebuilt catalogue degraded (`skills/service.py:1481`, `SkillCatalogues!Degraded`):
  once the registry's revision has moved, requests for runs are answered with 503 in
  every process, for all Skills, and no process can start.
- line 176 of the same document has the revocation of a grant raise the registry's
  revision. The direct decisions of `router/user.py` do not, and `save_draft`
  (`skills/service.py:604`) raises the revision of an enabled installation without a
  registry event: until the next one, every catalogue names an installation revision
  that is gone, and new runs with that Skill are refused (`SkillAuthority!Bind`).
- the checks for a degraded catalogue in `reconcile_registry` never find one in a
  process that serves: a start needs a healthy one and `publish` keeps it
  (`Serving` in `SkillProofs`).
- a request whose snapshot is older than what its process serves rebuilds the older
  revision, is refused by `publish` and answered with 503, although the catalogue it
  found was usable (`SkillCatalogues!Build`).
- memories that a user links to a note are not deleted with it unless they are
  reviews, and any later write to them is refused (`record_business_writes`). So is
  a write to a review entered through the memory API while its note is deleted, which
  is left over although "Memory source note must belong to its owner"
  (`db/business_authority.py:306`): the check takes no lock (`NoteEnrichment!EnterReview`).
- `scripts/e4_import.py:135` has `--resume` continue a partial batch. A bundle that lists
  existing targets of its own entities is compared with SQL at every chunk
  (`e4/importer.py:843`), and every entity its chunks record adds a target: unless the
  list happens to be the new state, neither the next chunk nor a resumed run gets
  through (`BusinessImport!Disagrees`).
- a row that the application has deleted after its import is inserted again by another
  batch that has it (`BusinessImport!Written`); `migration_maps` is the same before and
  after.

## 7. Not modelled

- The components the plan lists under *Next*. The hazards of `PROJECT.json` are
  what the modules reach. The three connections of the E4 runner
  (`jobs/e4_runtime.py:57`) are one they do not. Two more are of time alone: a handler
  that never returns keeps its lease by heartbeats (`jobs/runner.py:453`;
  `EveryJobSettles` assumes that handlers end), and an enrichment that meets a rebuild
  burns one of its five attempts (`jobs/business_handlers.py:64`).
- Text: prompts, intent scores, chunking, embeddings, ranking. No property of this
  project depends on them.
- `status`, `save_query` and listing endpoints: reads, and one column that readers
  compare like the revision.
- Intent routing, packages and MCP providers: the model of a Skill starts from a
  stored package and a routed request.
- HTTP routers, the front end, the Django service, Alembic revisions, benchmarks and
  operator scripts: no protocol of the backend depends on their state.
- The roles and the account status of the two administrators behind a grant
  (`skills/authorization.py:73`): `WithdrawnForGood` is about authority lost through the
  installation's revision or the grant. A role that is taken away and given back
  restores it in the code as well.
- The comparisons of the registry's revision and of the whole catalogue before a
  confirmed call (`services/confirmation_service.py:71`, 88-105): the code refuses more
  than `SkillAuthority!ResolveConfirmed` does.
- The instant between the two reads of `cleanup` (job row, clock): a lease renewed
  in that instant would look lapsed. It takes a pause of half a lease between two
  statements; the model reads both at once.
