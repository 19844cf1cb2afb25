# ods-doceditor: models, checks and proofs

ods-doceditor is a Rust service (actix-web, sqlx, PostgreSQL) that stores the
documents of several tenants with their complete version history and announces
every change on an event bus. This directory holds TLA+ modules that model it,
TLC configurations that check them on small instances, and theorems about them
that TLAPS proves for every value of the constants. All paths below are paths
of the repository; `src/` in them is the crate's own `src/`.

1. [The system](#1-the-system)
2. [Modules](#2-modules)
3. [Document store](#3-document-store)
4. [Document list](#4-document-list)
5. [Transports and the bus](#5-transports-and-the-bus)
6. [Boot](#6-boot)
7. [Configuration](#7-configuration)
8. [The way of a request](#8-the-way-of-a-request)
9. [Runs and bounds](#9-runs-and-bounds)
10. [Fairness](#10-fairness)
11. [Proofs](#11-proofs)
12. [Disagreements found](#12-disagreements-found)
13. [Known limits of the program that the models show](#13-known-limits-of-the-program-that-the-models-show)
14. [What is not modelled](#14-what-is-not-modelled)
15. [Plan](#15-plan)

## 1. The system

| Component | Code | State | Operations |
|---|---|---|---|
| Document store | `repository/document_repo.rs`, `repository/version_repo.rs`, `service/document_service.rs`, `domain/document.rs`, `api/documents.rs`, `api/versions.rs` | tables `editor.documents`, `editor.document_versions`; the open transactions and their row locks | create, update (rename, save, change of status), delete, snapshot, get, list versions, get one version |
| Templates | `repository/template_repo.rs` | table `editor.templates`, which the service only reads | the body of a new document |
| Document list | `document_repo::list_documents`, `domain/pagination.rs` | none of its own | a count and a page of rows |
| Event envelope | `events/producer.rs` (`CloudEvent`), `events/pubsub.rs` | none | one event per change, two for some |
| Pub/Sub transport | `events/pubsub.rs` | the cached access token, one spawned task per event | take a token or ask the metadata server, POST |
| Redpanda transport | `events/producer.rs` (`RedpandaProducer`) | librdkafka's bounded queue, one task per delivery report | enqueue, await the report |
| Boot | `main.rs`, `repository/schema.rs`, `repository/tenant_context.rs`, `migrations/` | schema, migration records, cluster-wide roles, grants | create the schema, migrate, provision and adopt the runtime role, open the pool |
| Admission | `api/payload.rs`, `api/extractors.rs`, `domain/text.rs`, `domain/metadata.rs`, `validate_content` | the bytes of a body that are buffered | refuse before a connection is taken |
| Authentication and correlation | `correlation.rs`, `api/middleware.rs`, `api/extractors.rs` | a task-local id | adopt or mint an id, echo it, stamp events with it |
| Configuration | `config.rs`, `producer_from_config` in `main.rs` | read once, at the start | select the bus, the ceiling, the key that verifies tokens |
| Health | `api/health.rs` | none | liveness; readiness, which asks the database |

How they interact. A request passes admission, becomes one or two transactions
on a connection of the serving pool (`begin_tenant_tx`), and after COMMIT the
service hands its events to the configured transport, which answers at once and
delivers in the background. Requests share nothing but the database, the pool,
the transport and the worker threads that poll their tasks; any number of instances runs over one database. Boot
precedes all of this, and several instances boot at the same time.

What is hard about it:

- *Interleaving.* Transactions run READ COMMITTED, so two statements of one
  call see different snapshots. A version number and a status transition are
  computed in the service from a row read earlier in the transaction; only the
  row lock of `FOR UPDATE` makes that safe. A save and a snapshot write the two
  tables in opposite orders.
- *Partial failure.* COMMIT may take effect while its reply is lost; an
  instance may stop between COMMIT and publication; a client may leave, which
  drops the call's future wherever it stands.
- *Ordering.* Events are published after the lock is gone, and each is
  delivered by a task of its own.
- *Shared workers.* The tasks of several requests take turns on one thread, and
  the correlation id is a task-local: it is right only inside the scope, and
  the transport's task runs outside it.
- *Numbers.* A document has a ceiling in bytes of text, its payload one in bytes
  of JSON, a title one in characters and its column another; the first two come
  from a number the operator chooses, which may be as large as it likes.
- *Time.* A token expires while a request carries it; a client gives up a POST
  the server accepts after all; a full queue meets a slow broker.
- *Restarts.* Instances of one database race for the schema, those of one
  cluster for the runtime role, and any of them may die in the middle of the
  migrations.

What makes each part correct is stated with its module below; the hazards, each
at the line where it bites, are listed in `PROJECT.json` with the properties
that watch them.

## 2. Modules

| Module | What it is |
|---|---|
| `Documents` | the domain: rows, version rows, the status machine |
| `DocumentHistory` | abstract specification: what products may rely on about documents, without transactions, locks or events |
| `DocumentStore` | the detailed one: calls, statements, locks, COMMIT, events, faults |
| `DocumentProperties` | what must be true of `DocumentStore`, and the inductive invariant |
| `DocumentStoreProofs` | theorems about it: the inductive invariant and what follows from it at once |
| `DocumentCallProofs` | theorems about calls: their answers, their events, their locks, and the refinement |
| `Pagination`, `DocumentList`, `DocumentListProofs` | the page arithmetic, the list against concurrent writers, theorems |
| `EventDelivery` | abstract specification: what a transport promises |
| `PubSubTransport`, `PubSubTransportProofs` | the Pub/Sub transport, theorems |
| `KafkaTransport`, `KafkaTransportProofs` | the Redpanda transport, theorems |
| `Configuration` | the environment, and what the service makes of it |
| `EventBus`, `EventBusProofs` | a deployment: `Configuration`, both transports and the producer that drops everything; theorems |
| `Admission` | texts, metadata and payloads, and every bound on them |
| `RequestPipeline`, `RequestPipelineProofs` | requests from the middleware to their events, on one worker; theorems |
| `Boot`, `BootProofs` | from the start of an instance to its first request, theorems |
| `MC*` | the instances TLC checks |

`DocumentStore` uses the promise of `EventDelivery` in its one step `Publish`:
the event is on the bus or its loss is logged. The two transports are each
shown to implement that promise, alone and in the composition `EventBus`, so the
store need not know which one runs.
`RequestPipeline` takes the store as one step,
as `DocumentStore` takes admission: the one is about what reaches the database,
the other about what happens there.
`DocumentList` has its own, coarser writers (a start and a COMMIT), because
the list takes no locks and only sees what is committed.

Definitions marked "Broken variant" are not used by any specification. Each is
a bug the code has had or could have; substituted for the definition after it,
it makes a property fail, which shows that the property watches that code.

## 3. Document store

**State.** `docs` and `versions` are the committed rows; `lock` is the call
whose transaction holds each document row. A call has a program point `pc`, its
request `call`, its `target`, its `work` (the row read under FOR UPDATE, the
row and the version row written and not yet committed), its `reply`, and an
`outbox` of events not yet published. `began` is a history variable: the target's version
and deletion when the call arrived. `bus` is the sequence of events the bus
accepted.

**Actions.** One per SQL statement, because that is what interleaves:

| Action | Code |
|---|---|
| `Arrive` | the handler up to the first use of the pool, with every refusal that needs no database |
| `FetchTemplate` | `get_template`, a transaction of its own |
| `Connect` | `begin_tenant_tx` on a free connection |
| `InsertDocument`, `InsertVersion`, `Commit` | `create_document` |
| `SelectForUpdate`, `RefuseTransition`, `UpdateDocument`, `InsertVersion`, `Commit` | `update_document` |
| `SelectForUpdate`, `InsertVersion`, `BumpVersion`, `Commit` | `create_version` |
| `DeleteDocument`, `Commit` | `delete_document` |
| `ReadDocument` | `get_document` |
| `CheckLive`, `FetchHistory` | `list_versions`, `get_version`: two statements, two snapshots |
| `Publish` | `DocumentService::publish`, once per event in the outbox |
| `CommitFails`, `Crash`, `PoolTimeout` | the environment |

PostgreSQL itself is external and modelled by what the code relies on: a row
lock is exclusive and held to the end of the transaction; a statement that
waited for a lock re-evaluates its predicate on the committed row; an insert
under a unique key waits for an uncommitted duplicate and fails on a committed
one; a statement sees what is committed when it starts.

**Abstractions.** A body or a title is represented by the call that wrote it,
which tells apart every write. Metadata is written exactly as the title is and
is folded into it. Every refusal of a body, a title or a comment before a
connection is taken is one refusal at arrival; section 8 has them one by one. `word_count` is a function of
the content. COMMIT of a transaction that only read is not made to fail: it
changes nothing and answers 500 like any other failure. `yjs_state` is a column no code of the
service writes.

**Properties** (`DocumentProperties`):

- `HistoryComplete`: the version numbers of a document are exactly 1 to
  `current_version`. `HeadIsNewest`: the body shown is that of the newest
  version, so no save is undone by a call that had read the row before it.
- `AcknowledgedSavesKept`: what was answered with success is in the history
  under the number that was answered.
- `TransactionsIsolated`: what each open transaction will commit follows from
  the committed row it has locked.
- `NoCallLosesARace`: races cost nobody a 500. `NoWaitCycle`: whoever is waited for
  waits for nobody, so the database never has a deadlock to break, of two calls or more.
- `AnswersAreCurrent`: no answer is older than the document was when its call
  arrived, although the history reads use two snapshots.
- `DeletedIsFinal`, `StatusOnlyAdvances`: what a step may never do.
- `EventsAreTrue`: every event on the bus tells of a change that is committed.
  `AnnouncedOnce`: every version a call wrote is announced exactly once, if
  nothing fails, and a publication at most once, however many calls ask for it.
- `TenantsApart`: no tenant is answered with, or writes into, another's document.
- `ImplementsHistory`: `DocumentStore` implements `DocumentHistory` with
  `docs` and `versions` as they are: each commit is one abstract step, every
  other step a stutter.
- `EveryCallAnswered`: liveness.

## 4. Document list

`Pagination` is the arithmetic of `domain/pagination.rs` over an integer type
of any width, saturating where the code saturates. `DocumentList` composes it
with writers and a client: `Ask` (parsing and refusals), `Count`, `FetchRows`,
`TurnPage`. A write is `Begin`, which fixes `now()` and so `updated_at`, and
`Commit`. `walk` is a history variable of the client's walk: documents served,
documents written meanwhile, rows that left the list or fell back in it, and
whether a write fell between the last count and its rows. Two transactions do
not start in the same microsecond. The free-text search is represented by the
status filter: both narrow the rows, by a predicate both statements share.

- `PagesTile`: the reported numbers, sent again, serve the same page; pages
  abut; no offset is negative, also where `(page - 1) * per_page` exceeds i64.
- `WalkMissesOnlyWhatReceded`: offset pagination does lose rows; it loses no
  more untouched documents than rows left the list or fell back in it. A write that
  moves a document to the front makes nobody skip one.
- `AnswersAddUp`: unless a write falls between the two statements, the number
  of rows is what `total` leaves after the offset. The code assembles two
  WHERE clauses; this is what would fail if they drifted apart.

## 5. Transports and the bus

`EventDelivery` says what the service is promised: what reaches the bus was
handed over, what is reported as delivered is on the bus, and every other event
ends in a log line, unless the process itself stops. A failure may be reported
of an event that arrives all the same.

**`PubSubTransport`** has one task per event (`Publish` spawns it). `UseCached` and
`Ask` are the two outcomes of `access_token`'s look at the cache, whose lock is
released before the request; `ReceiveToken` overwrites the cache; `Receive` and
`GiveUp` end a request with an answer or its timeout. With the emulator there
are no tokens, and `PostUnsigned` is the task's first step. `Issue`, `Decide` and
`AcceptStray` are the two servers, which owe nothing. Time is what remains of each
interval: `left` of a request, `life` of a token, `good` of the cache; `Tick`
takes one unit off all and never passes a deadline.

- `NeverExpiresMidFlight`: a token taken from the cache lives longer than the
  POST that carries it can take, whichever task filled the cache last.
- `DeliversOrLogs`: the transport implements `EventDelivery`.
- `EveryTaskEnds`: servers that never answer leave no task behind.

**`KafkaTransport`** has librdkafka's queue: `Publish` enqueues or is refused on
the spot, `Transmit`, `AppendMessage` and `Retry` are librdkafka and the
broker, `Report` the delivery report with the message timeout. Its `DeliversOrLogs`
and `EveryMessageEnds` are checked in the composition, as
`KafkaDeliversOrLogs` and `KafkaEveryMessageEnds`. The order in which
librdkafka pipelines requests is not modelled, nor how often a retried message
is in the log: `log` is the set of messages appended.

**`EventBus`** is a deployment. It starts with one environment out of many
(`environment`, empty once it has been read) and `bus = "unwired"`. `Wire` is
the boot: it refuses the environment (`Refuse`), or builds the producer it selects
(`Build`), which is replaced by the no-op producer when its client cannot be
built (`"unbuilt"`). `Restart` is the platform starting the same revision again.
From then on every event goes to that one producer: `OverPubSub` and `OverKafka`
are the steps of the two transports under the wiring, `Drop` is `NoopProducer`.

- `DropsOnlyWhatNobodyAskedFor`: no event is dropped in silence by a service
  whose deployment asked for a bus (ADR-002 tells of four months of that).
- `WhatIsSetApplies`: what the environment sets is in force once the service
  runs, or the service does not run: the bus, the ceiling, the key. It includes
  `TopicSurvivesTheMove`: a deployment that changes the transport keeps the topic.

## 6. Boot

Each instance goes through `ensure_schema_exists` (a look and an insert, which
is what `CREATE SCHEMA IF NOT EXISTS` is; the lost race is confirmed on the catalog),
sqlx's migrations under an advisory lock of the database, migration 008
statement by statement in one transaction, the probe of the runtime role and
the serving pool. An `expect` that fails ends the process (`Dies`), which closes the
connection: the transaction is rolled back and the lock released. `roles` is
the catalog of the cluster; `granted` is per database; `work` is what the open
transaction of 008 has written. Only 001 and 008 meet another instance's work;
the other migrations are one atomic step each, since the lock excludes
everybody else. Migration 008 may run in databases of one cluster at the same
time: the name of the role is contested, and a grant of membership waits for a
concurrent one (PostgreSQL locks the role). `Empower` is an operator who gives the
connecting role more power (`MorePower`), between any two steps.

- `TrackedInEditor`: sqlx's tracking table never lands in `public`.
- `ServesWhatItMayUse`: an instance serves only with every migration recorded
  and, if it adopts the role, with the role granted in its database.
- `PrivilegesDropped`: where the connecting role has the power, every serving
  instance runs without privileges.
- `SchemaRaceKillsNobody`, `OneMigrator`, and the liveness `EveryInstanceServes`.

## 7. Configuration

`Configuration` has no state: it is `config.rs` as operators over an
environment, whose variables are absent, blank or a word. `SelectEventBus` is
the choice of a bus and its topic, `SizeMb` and `MaxDocumentBytes` the
ceiling (with a `usize` that saturates), `Verifier` the key, `Boots` whether the
process comes up at all. `EventBus` checks it over every combination of the
variables that choose a bus, and `RequestPipeline` takes its ceiling from it.

## 8. The way of a request

**`Admission`** is data. A text is how many characters of each kind it has:
blanks around it, characters JSON leaves alone, characters it escapes with a
backslash, characters of two bytes, control characters, and NUL. From those
follow its `Chars` and its `Bytes`, which is all the code looks at, and its `Wire`
size, which depends on how the client writes JSON (`Encodings`): with the escapes
that JSON demands, as `serde_json` and `JSON.stringify` do; all that is not ASCII as
`\uXXXX`; or every character so. Characters of two bytes stand for everything past ASCII:
escaped, they grow as much as any (threefold). Metadata is its shape, sizes and depths, and
arrives as `serde_json` would write it. `Malformed` is what serde refuses, a
document without a title among it; `Verdict` applies the checks of the handlers and the
service in their order.

**`RequestPipeline`** is the process. One action is one poll of one task, from
the moment the worker takes it up to its next await; `running` and `slot` are the
worker and the task-local as the running code sees it. `Resume` swaps a task's
id in, `Suspend` ends every poll and swaps it out. Between two polls of one
request the worker may poll any other.

| Action | Code |
|---|---|
| `Correlate` | `correlate()`: adopt the id of the header, or mint one |
| `Dispatch` | routing and the extractors that need no body, in the order of the parameters: `AuthUser`, the path, the media type, a declared length |
| `ReadPiece` | the body arrives in pieces, each buffered unless it would pass the ceiling |
| `Admit` | the body parsed (`Malformed`: 400), then `Verdict` |
| `Fetch`, `Ping`, `Store`, `Fail` | a template, readiness, the store, and a query that fails |
| `Deliver` | the task a transport spawned, which runs outside every scope |

Whether a document exists is not the request's to say: a 404 of the store is
always possible. What a statement refuses is what the columns refuse: a NUL, and a title or a
comment that is too long (`Storable`, of `TitleColumn` and `CommentColumn`).

- `EventsCarryTheirRequest`: a response and every event carry the id of the
  request that caused them, whatever the worker did in between.
- `TextIsCarryable`: no document of text without control characters that fits
  `MAX_DOCUMENT_SIZE_MB` is refused for its size when it is written with the escapes that JSON
  demands, all of it quotes and in the largest envelope, and however large that number is.
  This is what `payload_ceiling` reckons with. The contract says more, of every
  encoding: that is `DocumentsAreCarryable`, which does not hold (disagreement 5).
- `OnlyTheDatabaseFails`: the checks leave nothing for the database to refuse but a NUL.
- `RowsKeepTheirBounds`: whatever way a value came in, what is stored is within
  the bounds; a template's body too.
- `StrangersAreNotRead`: nothing is buffered for a caller without a valid token,
  and never more than the ceiling.

## 9. Runs and bounds

| Run | Instance | Distinct states | Shows |
|---|---|---|---|
| `StoreRequests` | 2 calls, every request of the owner and the foreign tenant's, 3 documents, pool of 2, faults commit, crash, bus | 145,966 | `TypeOK`, `HistoryComplete`, `AnswersAreCurrent`, `AcknowledgedSavesKept`, `EventsAreTrue`, `TenantsApart` |
| `StoreRaces` | 3 calls on 1 document, writers and history reads, no faults | 150,303 | the races: isolation, refinement, no lost race, no wait cycle, each change announced once, action properties |
| `StoreLiveness` | 3 calls, pool of 2, saves, publications, snapshots, creations from a template, pool timeouts | 243,699 | `EveryCallAnswered` |
| `StoreEventOrder` | 2 calls, no faults | until violated | disagreement 1 |
| `EventBus` | 486 environments that choose a bus, 504 that set the rest, the emulator; 2 events over Pub/Sub (timeout 2, margin 4, lifetimes 0, 3, 5, 7), 3 over Redpanda (queue of 2, timeout 2, 1 retry), all faults | 110,617 | both transports' safety, refinement and liveness in a deployment; what is set applies |
| `PubSubOrder` | 2 events, no faults | until violated | disagreement 2 |
| `Requests` | 2 requests, one of every shape, sizes unset, 1, 3 and 9, a database that fails | 233,495 | bounds, ceilings, correlation |
| `EscapedBodies` | 1 request, bodies of at most the default maximum in every encoding | until violated | disagreement 5 |
| `BootRaces` | 3 instances, 2 of one database, 4 migrations, createrole, crashes, an operator who may make it superuser | 171,120 | the safety of boot, `EveryInstanceServes` |
| `BootRoleRace` | 2 databases, no faults | until violated | disagreement 3 |
| `BootLatePower` | 2 databases, crash and operator | until violated | disagreement 4 |
| `Lists` | 4 documents, 2 writers, every page of a 4-bit integer, page sizes around both clamps | 1,170,348 | pages, walks, totals |

Why these bounds suffice:

- *Two or three calls.* A race on a document is between a holder of the row
  lock and one waiter; a third call adds a waiter that is granted the lock after both, and
  with a pool of 2 a call that waits for a connection while another waits for
  the lock. The proofs cover any number.
- *One document for the races.* Calls on different documents share no lock and
  no unique key. `StoreRequests` has three, so that creations get identifiers
  of their own.
- *`StoreRequests` has both tenants* but one document at the start: a request
  is checked against the tenant of one row, and a foreign one is the only case.
- *`StoreRequests` has no pool fault* because two calls never fill its pool;
  `StoreLiveness` has it.
- *`EventBus`:* two tasks are enough for a fill to overwrite a fill and
  for one task to use what another cached. Lifetimes lie below the timeout (0),
  between timeout and margin (3), and one and three units past the margin (5, 7).
  The ratio of margin to timeout is the least the assumption allows; the code has 60 s to 10 s.
  The third record meets the full queue. `Retries` bounds how
  often a message is sent again, which the code bounds by the message timeout.
  A `usize` ends at 63 and a megabyte has 8 bytes, so that the sizes 7, 8 and 9 lie around its end.
- *`Requests`:* one request has every shape, the other writes: what a request
  may see of another is the worker and its slot. A `usize` ends at 63, a megabyte
  has 8 bytes, a title 2 characters, metadata 3 bytes, and the allowance is 18, the
  least for the largest envelope. Bodies lie at and one past each document ceiling and past the
  payload's, and are escaped as badly as text can be, some of them by a client that escapes
  more than it must; the size 9 saturates both. Pieces of 20 bytes, or
  all the rest, let a body pass the ceiling in its first or in a later piece.
- *Boot:* two instances of one database race for the schema and the lock, one
  of another database for the role. The operator may raise the power of the connecting
  role at any moment of the boots, from CREATEROLE to superuser; a role that starts with no power
  is `BootLatePower`'s subject.
- *`Lists`:* four bits reach the overflow of `(page - 1) * per_page` and both
  ends of the clamps; the walk needs a page to be full and rows behind it, which
  three rows and page sizes of 1 to 3 give.

`Lists` does not check for deadlock: the client's walk ends and the writers
write once. Everywhere else deadlock is checked; `Quiet`, `Up`, `Silent` and `Idle` are the
steps of a system with nothing left to do. Symmetry is used where
no temporal property is a liveness property and the permuted values are interchangeable.

## 10. Fairness

- *Store:* weak fairness of `Step(p)` for each call. tokio polls a future that
  can move and PostgreSQL executes a statement that waits for nothing. It is weak
  per call, although a lock may be granted to another again and again,
  because each other call passes once. Arrivals and faults are owed to nobody;
  a pool timeout is an answer, not a cause of progress.
- *Pub/Sub:* weak fairness of `Tick` and of each task's own steps (its start,
  and an answer or a timeout that is there). Nothing of the servers.
- *Kafka:* weak fairness of `Tick` and of the delivery report, which librdkafka
  owes for every message it accepted. Nothing of the broker.
- *`EventBus`:* `BusFairSpec` is the two transports' fairness of their steps under the
  wiring, and nothing else: a deployment that is refused may be refused for ever.
- *Requests:* none. The properties are safety; that no request is stuck is the
  absence of deadlock.
- *Boot:* weak fairness of an instance's own steps, its start included, since
  the platform starts a container again when it exits; and crashes end at some time.
  The migration lock need not be fair: whoever gets it finishes or dies, and a
  serving instance never asks again.

## 11. Proofs

Everything below holds for every value of the constants that satisfies the
named assumptions, which TLC evaluates in every run.

**`DocumentStoreProofs`.** `IndInv` is `TypeOK`, `HistoryComplete` and
`TransactionsIsolated`. Neither of the first two is inductive: that a version number is
free, and that a commit leaves no gap, depends on what the open transactions
hold. `TransactionsIsolated` says it: `RequestAgrees` (program point, request
and target fit), `OwnsTarget` (a writer that has started holds the lock on a
live row, or an identifier nobody else has), `PendingWrites` (what it has
written is a function of the committed row and the request), and
`FreshIdentifiers`. With exclusive locks a step of one call leaves the rows
another one's writes depend on alone, and COMMIT replaces a row by what
`PendingWrites` says. From `IndInv` follow `TypeCorrect`,
`HistoryIsAlwaysComplete`, `TransactionsAlwaysIsolated`, `HeadIsAlwaysNewest`,
`RacesCostNothing`, and the action properties `DeletedStaysDeleted` and
`StatusAlwaysAdvances`, under every combination of faults
(`RacesCostNothing` speaks of runs without faults).

**`DocumentCallProofs`** goes on from `IndInv`.
`ServiceImplementsHistory`: each COMMIT is one step of `DocumentHistory`, by
`PendingWrites`, and every other step a stutter. `AnswersAlwaysCurrent` and
`SavesAreAlwaysKept` rest on `Grows`: the two tables only gain, that is,
a version row stays as it is, a document's version never falls, and a deletion
is final. `Informed` says what a reader that is between its two snapshots already
knows, `Told` what an answer says. `EventsAreAlwaysTrue` proves the same of
each outbox before it reaches the bus (`TrueEvents`), which `Grows` keeps true.
`TenantsAlwaysApart` needs that a target is either a row of the caller's tenant or nothing yet
(`EntriesOwned`; it uses `CallsAssumption`, that the mark of a seeded document's
author is not itself a call). `NobodyWaitsInACircle`: whoever is waited for has
its document to itself (`LocksOwned`, `PendingWrites`) and the waiting call is about the same
document; two calls are never engaged with one document (`EngagedApart`), so
who is waited for waits for nobody.
`NewsIsAnnouncedOnce` follows each event from its COMMIT: `NewsOnce` says that
a call speaks only while it publishes, in its own name and each thing once
(`OwnNews`), that only calls which committed have been heard (`HeardAfterCommit`),
that without faults every version a call wrote is on the bus or in its outbox
(`NothingMissing`), and that of all publications of a document, heard or
still to come, there is one author (`OnePublisher`): whoever publishes found the
row a draft under its lock, and `EventsAreAlwaysTrue` makes any earlier news
of a publication a row that is none.
Two more theorems hold what `EveryCallAnswered` rests on, for any number of
calls: `SomeoneCanAlwaysMove` (a call that waits, for a connection or a row,
waits for an open transaction that waits for nothing) and `CallsOnlyMoveOn`
(each step of a call lowers its measure `Left`, at most eleven at first, which no
other call raises). What is left to TLC is that fairness then
brings every call to its end.

**`PubSubTransportProofs`.** The invariant relates the clocks: a granted token
has lost no more than its request has used up, so `said + left <= life +
Timeout`; the cache therefore calls a token good only while at least `Margin -
Timeout` of its life remains; with `Margin >= 2 * Timeout` a POST that takes it
ends first, which is `TokensAlwaysOutlastRequests`. `TransportTypeCorrect`,
`TokensNeverExpireMidFlight`, and `PubSubKeepsThePromise`: each step maps to a
step of `EventDelivery` or a stutter.

**`KafkaTransportProofs`.** `KafkaTypeCorrect` and `KafkaKeepsThePromise`, from
the invariant that a message the broker has accepted is in its log (`AcceptedInLog`).

**`EventBusProofs`.** Each step of the service is a step of each transport or a
stutter of it, so the invariants and the promises of both carry over without
being proved again (`TokensLastInTheService`, `PubSubPromiseHolds`,
`RedpandaKeepsThePromise`, `BusTypesHold`). `NothingAskedForIsDropped` and
`WhatIsSetAlwaysApplies` hold for every set of environments and every width of `usize`.
The former says three things: no event is dropped where a bus was asked for, unless its
client could not be built; nothing but `NoopProducer` drops (`OnlyNoopDrops`); and a
transport, or its stand-in, is in use only where a bus was asked for, `NoopProducer` by
choice only where none was (`BuiltAsAsked`).

**`RequestPipelineProofs`.** Four lemmas about data carry it: the largest
envelope fits the allowance (`EnvelopeBounds`, from `AdmissionAssumption`, which
is the test in `payload.rs`); a text within the document ceiling
takes at most twice its bytes if it has no control characters and is written with the escapes that
JSON demands, and six bytes a character in any encoding (`WireSizes`); what is sound is admitted (`SoundIsAdmitted`); what is admitted is
within its bounds (`AdmittedIsWithinBounds`). The invariant `Journey` says of each
program point what has been checked by then. All six properties of the run `Requests`
follow, for any number of requests; `MinimalTextIsCarryable` is the theorem of
`TextIsCarryable`.

**`BootProofs`.** `RaceInv` is about the schema and the lock: who may migrate has
found the schema, and holds the lock. It gives `TrackingStaysInEditor`,
`MigrationsAreExclusive` and `TheSchemaRaceIsHarmless` under every combination of
faults. `Advancing` goes on from the lock: a transaction of 008 is open only
while a migration is due, who is past the migrations has all of them behind it, and a role
once found adoptable stays so. It gives `BootTypeCorrect` and
`ServingIsComplete`, again under every fault. `RowsApart` says that one open
transaction at most has created the role, none once it is committed, and
that who granted the membership is about to commit; so a boot that waits, for
its database's lock or for a row of the shared catalog, waits for one that waits for
nothing (`SomeBootCanAlwaysMove`). `BootInv` adds what the open transaction of
008 has made sure of (`Provisioned`), what an instance has found (`Verified`),
and that a database which recorded 008 has all it was to bring (`RoleInForce`).
The last is why `ServingIsAlwaysPossible` assumes `PowerIsFixed`: no operator, or
a connecting role that has its power from the start. A role that gains it after 008 was
recorded breaks it (disagreement 4), and of that property only what
`ServingIsComplete` says is left. `PrivilegesAlwaysDropped` needs no
assumption: it speaks of roles that had the power at first.

**`DocumentListProofs`.** `PagesAlwaysTile`, for every width of the integers;
`ListTypeCorrect`; `AnswersAlwaysAddUp`: the rows of a list are ranked without
gaps (the ranks are a bijection to `1..n`, by the dates that no two rows share),
so a page takes exactly what `total` leaves after its offset.
`WalksMissOnlyWhatReceded`: the walk owes the rows it has not seen and that nobody
wrote (`Unseen`), and `Missed(k)` of them rank before row `k`, where the next page
will start. A commit moves at most one of them before that row, and
only if the row it wrote left the list or fell back, which the walk counts; a page
serves those that rank within it, and the next offset is never
beyond the end of the page, also where the arithmetic saturates. An empty page leaves nothing
after its offset, so what is still unseen ranked before it.

**Only model-checked.** Every liveness property (fairness and ENABLED are
beyond the prover): `EveryCallAnswered`, `EveryTaskEnds`, `KafkaEveryMessageEnds`,
`EveryInstanceServes`. Every safety property and every refinement of a passing run is
proved. No module computes anything by recursion, so
nothing is left out for want of induction over data.

## 12. Disagreements found

1. `StoreEventOrder`: events are published after COMMIT, when the row lock is
   gone, so of two saves of one document the later version may be announced
   first. `docs/openapi.yaml` promises that a document's history keeps its order.
2. `PubSubOrder`: each event is POSTed by a task of its own, so even events
   published in order may arrive in the other one; the ordering key orders only what
   Pub/Sub has accepted. `events/pubsub.rs` says a document's events keep their order.
3. `BootRoleRace`: `CREATE ROLE` looks and then inserts. Two databases of one
   cluster that migrate at once may both look first, and the loser's insert is
   `unique_violation`, which migration 008 does not catch (it catches
   `duplicate_object`); the boot ends. The migration's comments say the race is
   tolerated, and `repository/schema.rs` catches the same error for the schema.
   The next start succeeds, which `EveryInstanceServes` shows.
4. `BootLatePower`: a database that recorded 008 without CREATEROLE has no
   grants. When another database later provisions the role for the same
   connecting role, `runtime_role_is_adoptable` is true here as well and the
   instance serves as a role that may not use this schema.
5. `EscapedBodies`: the payload ceiling is twice the document's plus an allowance.
   That carries text written with the escapes that JSON demands
   (`TextIsCarryable`). A client that writes what is not ASCII as `\uXXXX`, as many
   JSON writers do unless told otherwise, sends three bytes for one, and a control
   character costs six: a body of exactly the maximum is then answered 413.
   `docs/openapi.yaml` (511-512, 572-574) promises that it is accepted "whatever JSON escaping
   does to its size", and so does a test's comment in `api/payload.rs` (223-224);
   that of `payload_ceiling` excepts control characters only.

## 13. Known limits of the program that the models show

No run is about one of these. Most contradict no promise; where a comment or the
contract says otherwise, the property concerned names the exception:

- A COMMIT that takes effect and whose reply is lost is a 500 for a change that
  happened; no event follows (`CommitFails`). An instance that stops after
  COMMIT takes the outbox with it (`Crash`). `EventsAreTrue` holds all the
  same: silence, never a lie.
- `updated_at` is the start of a transaction. An update that began first and
  committed last sorts behind the other (`Effects`), and a row can fall back in the list.
- A count and its rows may disagree when a write falls between them; the
  guard `~walk.torn` of `AnswersAddUp` is there for that.
- A retried produce request may append a message twice (`Retry`).
- A NUL passes every check and is refused by PostgreSQL: a 500 for a request
  within every documented bound. `OnlyTheDatabaseFails` names it as the one exception.
- A bus whose client cannot be built is replaced by the no-op producer, with an
  ERROR in the log (`Build`, `"unbuilt"`), although `events/producer.rs` and
  `main.rs` say that only an explicit choice leads there. `DropsOnlyWhatNobodyAskedFor`
  names the exception.
- A client that repeats a request after a 500 whose COMMIT took effect makes a
  second document or version: there is no idempotency key.

## 14. What is not modelled

- Row-level security: it repeats the tenant predicate that every statement has,
  for a role without privileges; `PrivilegesDropped` says when it is in force.
  Changes of `rolsuper` or `rolbypassrls` of the runtime role by hand.
- The search index and the text of the search.
- The envelope's attribute names, timestamps and base64: an event is what it
  announces, its document and its id.
- Documents written before migration 006, which have no version row (ADR-001).
- The in-memory producer, which only tests use.
- The signature and the expiry of a bearer token: `decode` accepts it or
  does not. The log filter, the host and the spans.
- `current_version + 1` of an `i32` after 2^31 saves: versions are numbers without an end.

## 15. Plan

Done: the store and its history, the list, both transports and their
composition, boot, configuration, admission and correlation; the theorems of section 11.

Left, in this order:

1. *Legacy documents:* a seed without a version row, and what of
   `HistoryComplete` is left for it.
2. *Row-level security* as a second predicate of every statement, with a
   connection that lost its tenant setting.
