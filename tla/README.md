# LogosCore backend: TLA+ specifications and proofs

LogosCore is an Express/Socket.IO backend (TypeScript, one Node process) with
Postgres or a `Map`, MongoDB ("Living Memory"), Redis and an AI provider behind
it. This directory models the parts of it whose correctness depends on the order
of things: handlers that interleave at every `await`, stores that come and go,
tasks nobody waits for.

Paths below are relative to `src/src/` of the repository.

## 1. The system

The event loop runs one piece of synchronous code at a time; a handler can be
overtaken at each `await`. Everything lives in one process; what survives a
restart is in Postgres or Mongo.

| Component | State | Operations | Hard behaviour | Correct when |
|---|---|---|---|---|
| Quest (`modules/quest`) | rows or objects of quests | start, branch, complete, fail, reward, purge | guard and write are separate queries; memory shares objects, Postgres copies rows | one outcome per quest, table of transitions respected, events true |
| Living Memory (`modules/memory`, intent map) | graph per session, audit, snapshots, latched repository | read, append, snapshot, purge | read-modify-write over several queries; unawaited snapshots; outages | no intent lost, version grows, every mutation audited, erasure complete |
| Mongo connection (`infrastructure/database/mongo.ts`) | cached `Connection`, flag `available` | getMongo, ping, close, `disconnected` listener | flag and connection disagree after an outage | flag follows the server |
| Resolver (`modules/resolver`) | goals in Mongo or a `Map`, tasks | create, embed, re-embed, delete, purge, correlate | repository chosen per call; embedding after the answer | a goal keeps its vector, is in one place, stays deleted; correlations are the user's |
| Correlation (`correlate-action.usecase.ts`) | local | score, propagate, merge, rank | loops over a tree, insertion order | answer is the ranking of the worths |
| Bridge and EventBus (`quest-bridge.ts`, `event-bus.ts`) | listeners | publish, subscribe | synchronous delivery, fire-and-forget task | every outcome correlated, with its sign |
| Economizer (`infrastructure/ai/economizer`) | LRU, Redis, Mongo caches, counters | embed, embedBatch, synthesize | concurrent misses, layers that fail, eviction, batch alignment | an answer is the provider's answer for that input; eviction is exact |
| Embedding memory (`embedding.repository.ts`) | fragments in a `Map` or pgvector | ingest, ingestMany, search | search and insert are separate queries; a document fails half way | a session holds no near-duplicates; answers name its own fragments |
| Erasure (`gdpr.service.ts`) | none | export, purge | four purges at once, one refused, writers beside them | an answered erasure left nothing it found but goals out of reach; the profile goes last |
| Inventory | items | add, remove, purge | check, then DELETE | an item is reported as gone once |
| User | profile rows | ensure, delete | query order | one row per user |
| State machine engine (`core/state-machine`) | current state | send | overlapping sends; nothing instantiates it | a transition leaves the state it starts from |
| Socket gateway (`infrastructure/websocket/socket.gateway.ts`) | connections, rooms | handshake, subscribe, stream, forward, disconnect | several streams in a room, clients that go in the middle, events of requests and of tasks nobody waits for | a client hears of its own sessions only, and misses nothing of what it asked |
| Logos (`modules/logos`) | none | run, runStream | an answer in pieces, a provider that fails or stops half way | what is told and remembered is the whole answer, or nothing |
| Providers (`infrastructure/ai/providers`) | the buffer of one answer | embed, analyze, analyzeStream | a body cut anywhere by the reads | lines are put together again |
| Authentication and ownership (`shared/middleware`) | none | verify, resolveRole, canJoinRoom, requireOwnership | three configurations, two entrances (HTTP, sockets) | the two entrances agree on whose session it is |
| Rate limit (`rate-limit.middleware.ts`) | counters per key and window, in memory or Redis | hit | keys of users and of addresses in one store, restarts, a Redis that fails | a client is refused for its own requests only |
| Boot and shutdown (`server.ts`, `app.ts`) | the process | production guard, SIGTERM, timer | requests and streams under way | the process ends |
| Security audit | a collection | record | Mongo may be away | refused handshakes are recorded |
| Validation, configuration, telemetry, parsers | little or none | functions of one request | | |

Interactions: controllers call use-cases, which call repositories and publish on
the EventBus. The bridge subscribes to `quest.completed` and `quest.failed` and
starts a correlation. The chat starts one too. GDPR erasure calls `purge…` of each
repository. Every repository over Mongo asks `getMongo` and `isMongoReady`. The gateway
subscribes to every event and forwards it to the room of the event's session; `run`
and `runStream` publish, hand the answer to the embedding memory and start a
correlation, and wait for neither.

## 2. Modules

| Module | Models |
|---|---|
| `QuestRules` | `quest.rules.ts`: states, table, guards |
| `Quest` | handlers, use-cases and both repositories of quests, one action per access to the store |
| `QuestContract` | what the quest module promises: a state per quest that moves along the table, each move announced by the request that made it |
| `Quest_proofs` | theorems about `Quest` |
| `Folding` | lemmas: induction over the naturals, and over the folds of a sequence |
| `MongoLink` | the server, the `Connection`, the flag |
| `IntentMap` | proxy, repositories, audit and snapshot tasks of the map of intents |
| `IntentMap_proofs` | theorems about `IntentMap` |
| `Resolver` | goals, repositories behind the proxy, embedding and correlation tasks, bridge |
| `Correlation` | the loops of a correlation, one iteration per step, against a recursive definition |
| `Correlation_proofs` | theorems about `Correlation` |
| `QuestLoop` | `QuestContract` and `Resolver` joined by the EventBus |
| `QuestLoop_proofs` | theorems about `Resolver` and `QuestLoop` |
| `Economizer` | two LRUs, Redis and Mongo layers, counters; single calls, speech, batches in slices and past the caches |
| `Economizer_proofs` | theorems about `Economizer` |
| `Embeddings` | ingestion with deduplication, over the `Map` and pgvector |
| `Inventory` | items, the check and the DELETE of a removal |
| `Erasure` | composes `Embeddings` and `Inventory` with the profile, the two repositories of goals behind their proxy (`MongoLink`), the cascade of an erasure, the reads of an export and the audit of both |
| `Erasure_proofs` | theorems about `Erasure`, `Embeddings` and `Inventory` |
| `Access` | tokens, roles, rooms and ownership |
| `RateLimit` | the two limiters and their counters |
| `LineReader` | the reading of a streamed answer |
| `Realtime` | composes `Access`, `RateLimit` and `LineReader` with the gateway, the use-case of LOGOS, EventBus, audit of refused handshakes, shutdown and crash |
| `Realtime_proofs` | theorems about `LineReader` and `Realtime` |
| `MC...` | instances for TLC |

**State.** `Quest.row` is the object or row of each quest (`live`: the keys of the
`Map` or the rows present), `req` what each handler holds, `events` what was
published. `IntentMap.doc` is the stored graph per repository and session, `audit`
the collection `intent_audit`, `impl` the choice the proxy has latched, `snap` the
snapshot tasks. `Resolver.goals` is the content of each of the two repositories,
`proc` what each handler or bridge task holds. `MongoLink` has `up` (the server),
`conn` and `available` (the two module variables of `mongo.ts`). `Economizer.lru` is
the `Map` of `LRUCache` in its order, `store` the two slow layers, `writes` the puts
nobody awaits. `count` the counters of `metrics.ts`.
`Embeddings.fragments` is the table or the `Map`; `Erasure.written`
has the rows of quests and of each repository of goals, `audited` the entries of
`security_audit`. `IntentMap.beside` and `Embeddings.beside` are histories: which requests
had something of one session in hand at once. `Realtime.socket` is what a connection holds (its
user as `socket.data.user`, its rooms), `job` what an analysis holds between two
awaits, `hits` the counters of the limiters, `audited` the collection of the audit;
`told` (what was published of an analysis), `heard` (what of it reached a socket) and
`spent` are histories.

**Actions.** A handler is cut at each query. `Quest`: Start, FindParent,
InsertChild, CheckOwnership, Load, Save, Refuse, Publish, Purge. `IntentMap`:
BeginAppend, FindVersion, StoreMongo/StorePostgres, AuditUpsert, AuditAppend,
BeginSnapshot, SnapLoad, SnapWrite, BeginPurge, Erase, with failures of each.
`Resolver`: CreateGoal, Embedded, SetEmbedding, Reembed, DeleteGoal, PurgeUser,
Lists (Correlate, List), Publish, Signal. `Economizer`: Single, EmbedBatch,
NextSlice, FromRedis, FromMongo, Gather, ProviderAnswers, RawAnswers, ProviderFails, Put,
PutFails, Reset. `Embeddings`: Ingest, Embedded,
FindNearDuplicate, Keep. `Inventory`: AddItem, LoadItem, RemoveItem, PurgeItems.
`Erasure`: BeginErase, one action per purge of the cascade, EraseRefused,
EraseGathered, EraseProfile, ErasureRecorded (the audit, then the answer), and the
like for an export. `Realtime`: Connect, Verified,
Audited, Leave, Subscribe for a connection; Stream (a question on a socket), or
Request, Authenticate, Admit (over HTTP, one action per middleware that awaits); then
ReadsBack, Accepted or Answered or Fails, Read, Piece, LastPiece, Finish, Correlated;
Expire for a window; Restart, Shutdown, Exit0, Exit1 for the process.

**The environment as a variable.** `IntentMap.conf`, `Resolver.faults`,
`Economizer.faults`, `Embeddings.setting` and `Realtime.setting` are chosen in the initial state and never
change: the backend, and which faults may happen. One run so covers several
environments, and a property that needs a kind environment says so in its premise
(`"noPostgres" \notin setting => ...`); the run includes
environments in which the premise holds and in which it does not.

**Slips.** A definition introduced by "A slip" is not used by the specification. It is
the definition below it with one plausible mistake; put in its place, the property
named with it in `PROJECT.json` ("mutants") is violated.

**Abstractions.**
- In memory mode the promise returned by a `Map` access resolves in the order of
  the microtask queue; the models let any handler go next, which includes that order.
  In memory mode an `update` after an erasure puts the object back
  (`memory.set`), which is why PurgeIsFinal is a property of Postgres.
- The Postgres and pgvector backends are modelled with their tables and the foreign
  key present, as `ensureSchema` in `postgres.ts` creates them. Nothing in the
  sources calls it, and `pgvectorReady` is set nowhere else: as it stands, fragments
  are in the `Map`.
- A graph of intents is the sequence of its nodes; each edge links a node to the one
  before. TTL of audit entries and the `Map` variant of the Postgres
  repository are left out. `written` and `acked` are history variables.
- The vector of a goal is present or absent; which goals pass the threshold is left
  open in `Resolver` and computed in `Correlation`.
- The goals listed are the active ones; nothing in the code changes the status of a
  goal. Choosing the repository and querying it is one step; a
  flag that changes between the two is not.
- `Correlation` takes the cosines as inputs. A score is its place, 0 to `Top`, among the
  numbers from 0 to 1, and the discount is any function on them that keeps their order: so is
  a multiplication by a factor from 0 to 1, rounded or not, whatever `RESOLVER_PARENT_DISCOUNT`
  says (nothing in the code keeps it to that range). The run takes multiples of 1/125 and 4/5,
  the default, which are exact for its trees. The effective score is an exact product; the
  rounding of score × weight, negative cosines and thresholds, and the text of `reason`
  are left out.
- In `Quest` a write to Postgres may be stored and its query fail all the same (the
  connection goes before the answer comes): the request is answered 500 and ends
  `failed`, without an event. A query that fails with nothing written is `Refuse`. A counter
  in Redis likewise may stand although its query failed (`StoreFails`). Elsewhere a query that
  fails leaves the store as it was.
- The bridge starts a task for every outcome it hears of, as often as it hears of it; `Tasks`
  bounds how often that may be, and is no guard of the code. That a quest is correlated
  once is `OncePerQuest`, of the composition: it rests on `QuestContract`, which the
  quests keep in memory. With Postgres an outcome may be announced twice
  (`quest_pg_outcome`), and would be correlated twice.
- In `Economizer` and `Embeddings` a vector is named by the text it was computed from.
  The key of the cache normalises case and blanks (`Key`); model and provider are
  fixed by the configuration, and the dimensions are no part of the key.
  `lru[kind].used` is the history of the keys touched.
  A text to be spoken stands for its voice too. `batchEnabled` is off in the
  circumstance `unbatched`; `enabled` and `dedupEnabled` are on (the default). A reset of the
  counters leaves single calls under way half counted: `count.owed` notes how many it meets,
  and `CountsAdd` says that the counters are off by those, until the next reset, and by no more.
  Histograms, savings and the hit counts of Mongo are output only.
- In `Realtime` a token is what Firebase says of it (`Identity`), a body of an answer a
  sequence of lines of symbols; a complete line either carries a piece, or says done,
  or means nothing. The text of prompts, and what the map of intents and the context
  add to them, are left out: reading them (`ReadsBack`) can only fail to nothing. That an
  answer is handed to the embedding memory is `job.full` at `Finish`; what becomes
  of it is in `Embeddings`. Events without a session go to every socket and are left out.
  `Within[s]` are the uids whose sessions `s` is: `s` itself, and what comes before a colon in it.
  Soft mode takes the first 64 characters of any token for the uid
  (`socket-auth.middleware.ts:61`), so a uid may hold a colon; then user `u` hears the
  sessions of user `u:1` (`Kin`). That two uids with one session are one a prefix
  of the other is all that `WithinAssumption` says.
- The counter of a limiter is held one past its limit; all beyond are refused alike.
- In `Embeddings`, `Near` stands for "cosine at least dedupThreshold": any symmetric
  and reflexive relation, not only those that come from vectors.
- In `Erasure`, a quest or a goal is a row that one step creates, a goal in the repository
  the proxy picks at that moment; so does each purge and each list, and knows nothing of the
  other repository. What their own handlers do between two queries is in `Quest` and `Resolver`. Of the intents only
  their place in the cascade is kept: an append that straddles an erasure
  writes back what it has read, which `IntentMap` is about (`PurgeErases`). Branches
  of quests are not in an export (`listRootsByUser`). Postgres and Mongo
  survive a restart, the `Map` of goals does not; the fragments do when they are in pgvector.
  An outage (`outages`) takes the server away, and the flag with it for good.

## 3. Runs

`PROJECT.json` lists twelve; the other `.cfg` files are replays (below). The longest,
`erasure`, takes three minutes with two workers.

| Run | Bounds | Environments | Shows |
|---|---|---|---|
| `quest_memory` | 2 users, 2 quests, 4 requests | the `Map` | one outcome per quest, true events, no branch under a sealed quest, the contract is implemented |
| `quest_postgres` | 2 users, 2 quests, 3 fair requests | the tables | with queries that fail before or after they write: one owner per tree, no orphan, erased quests stay erased, an outcome is announced |
| `quest_pg_outcome` | 1 user, 2 quests, 4 requests | the tables | violated: see findings |
| `intent` | 2 sessions, 3 requests | Mongo with everything failing, snapshot every 2; Mongo and one client with restarts; `auto` with outages; Postgres with errors and restarts | audit true, acknowledged appends audited; an intent is lost, a version used twice and an erased intent left only by requests that were at work beside; a session is in one store |
| `intent_live` | 1 session, 3 requests | no faults, snapshot every 2 | a milestone has its snapshot |
| `intent_wipe` | 1 session, 3 requests | one client, an outage | violated: see findings |
| `resolver` | 2 users, 2 goals, 3 requests, 1 quest, 2 tasks of the bridge | failing provider and restarts, with and without outages of Mongo | no resurrection, correlations are the user's own, a vector is stored where its goal is if both calls went to one repository |
| `quest_loop` | 2 quests, 1 caller, 1 goal, 2 requests, 2 tasks | failing provider | a correlation has the sign of the quest's end, comes after it and once; the bridge answers |
| `correlation` | every forest of 3 goals, 3 cosines, 2 weights, 3 thresholds, top 2 | | loops compute the worths, the answer is the top, the walk ends |
| `economizer` | 2 calls, 5 texts (1 spoken), 4 keys, LRUs of 2 and 1, slices of 2 | Redis failing and a restart; Mongo failing; failing provider; expiry; another instance; a reset; no batches and a failing provider | answers are of their own text, no layer mixes keys, eviction is exact, write-back reaches Redis also from a batch that failed at a later slice, requests are hits and misses, up to what a reset met under way |
| `erasure` | 2 users, 3 requests of any kind, 3 texts, 2 documents | outages of Mongo; pgvector with provider and Postgres refusing; pgvector with a restart | an erasure that was answered or audited left nothing it found, and an export lacks nothing, but goals of the repository not picked after an outage; profile last, items gone once, twins only from overlapping ingestions |
| `realtime` | 2 sockets, 3 analyses, 6 tokens (1 false), 5 sessions, 2 bodies, AI limit 1, global limit 2 | eight, below | a client hears of its own only and misses nothing it asked, told and remembered is what the body says, budgets are exact, every question ends |

The environments of `realtime`: (1) Firebase and Mongo, two sockets and a stream of
either, clients that leave, a provider that refuses; (2) Firebase and Ollama, two
sockets of one user with a stream each in one room; (3) a shutdown with anonymous
clients and tokens taken for uids; (4) Firebase in production, an admin by `ADMIN_UIDS`, a
false token and none; (5) production without Firebase, its guard overridden, and a crash; (6) three
requests over HTTP, limits in a Redis that may fail, a crash, windows that end; (7) two sockets, of
users `u` and `u:1`, and a stream; (8) a socket of `u` and a request of `u:1` over HTTP, and
the other way round.

*Why the bounds are enough.* The races of `Quest` need two requests on one quest
plus the one that started it, and in memory a fourth for the reward; two quests make
a parent and a branch. A lost version needs three appends, a lost intent two. The
resolver's races need a creation, a deletion or purge and a correlation. Depth 2 is
the shortest tree in which discounts accumulate and a middle goal is reached both
ways; `TopK = 2` of three goals leaves one out. Two calls make every race of the
caches, and a batch of two puts a hit beside a miss, one of three has a second
slice; three keys overflow an LRU of
two. A race of an erasure needs what it erases, the erasure, and one more
request beside it; a document of two chunks that are near each other
fails after its first. One outage between two calls puts two goals in two repositories. `Elsewhere` bounds what the slow layers held before. Two streams in
one room are the least that interleave, one more client the least that must not
hear; one body has a meaningless line between two pieces, the other a line after the end
and one that is never ended, and the reads cut both anywhere. With an AI limit of one,
the second request of a user is refused beside the first of another, and the third of
an address by the global limit of two. Jobs are taken in the order of their numbers.

**Symmetry** is used for model values without an order or an owner, never in a run
with a liveness property.

**Deadlock.** `correlation`, `economizer`, `erasure` and `realtime` end when every call
has been made and answered, or the process has ended, so they do not check for it.
In the others a restart, an outage or an erasure
stays possible, or the run would report the state.

**Fairness.** Weak fairness of each handler's and task's next step: the event loop
runs every continuation whose promise has settled, and drivers and providers
answer or raise an error. In `Realtime` this includes that a body ends; the timer of
the shutdown is fair too (`Exit1`), `Exit0` is not, for clients may stay. Arrival of
requests, faults and restarts are never fair.
(`MongoReturns`, a replay, also assumes that `/health` pings Mongo now and then.)

### Findings

1. Postgres quests: the guard looks at a copy, the UPDATE has no state condition. Two
   overlapping requests settle one quest twice (`quest_pg_outcome`), by a move that the table
   of `quest.rules.ts` does not have.
2. After one `disconnected` event `available` never becomes true again while the
   connection is cached, and the next append of a lone client replaces the graph
   (`intent_wipe`).

### Replays

More of what the documentation says and the code does not keep. Run
`tlc -config <cfg> <module>`; each ends with a counterexample, but for two that pass:
`MCQuest_live.cfg` (`OutcomeAnnounced` with the `Map`) and `MCRealtime_ends.cfg`
(`ShutsDown`: after SIGTERM the process ends, whoever stays connected).

| Config | Property | The code |
|---|---|---|
| `MCQuest_pg_NoBranchOnSealed.cfg` | `NoBranchOnSealed` | the parent is sealed between its check and the INSERT |
| `MCQuest_pg_EventsHonest.cfg` | `EventsHonest` | an event announces what the row does not hold any more |
| `MCQuest_parent.cfg` | `ParentResolved` | `isParentResolvable` is never called |
| `MCIntentMap_erase.cfg` | `Erased` | an automatic snapshot is written after the erasure, for ever |
| `MCIntentMap_version.cfg` | `VersionMonotone` | two appends read one version; the later write goes back |
| `MCIntentMap_audited.cfg` | `MutationsAudited` | a failure between the graph and its audit entry |
| `MCIntentMap_milestone.cfg` | `AutoIsMilestone` | the automatic snapshot reads a later graph |
| `MCIntentMap_forced.cfg` | `ReadsTrue` | reads answer null in forced Mongo mode |
| `MCErasure_goals.cfg` | `AllErased` | the goals are purged of the repository the flag names: an answered erasure leaves those in Mongo |
| `MCResolver_vector.cfg` | `VectorKept` | the vector goes to the other repository |
| `MCResolver_returns.cfg` | `MongoReturns` | the flag never comes back |
| `MCCorrelation_direct.cfg` | `DirectWins` | a propagated score replaces a lower direct one |

Noticed while reading, without a run:
- `DELETE /api/me` is described as the removal of all data of the user
  (`security.controller.ts:30`); fragments of the embedding memory, correlations and
  the previews in `ai_cache` are no part of the cascade.
- `raport-10.md:150` says two identical chunks of one `ingestMany` are inserted twice.
  Each chunk is searched for after the one before was stored, so they are not
  (`NoTwins`: twins come from two ingestions under way at once only).
- The fallback of `embedBatch` calls the embedder itself, past the cache of single
  texts (`execute.service.ts:125`).
- `raport-8.md:70` has the limiters keyed by uid. The global limiter is mounted before
  authentication, so it only ever sees the address; streams on a socket pass no
  limiter at all.
- Without Firebase, in production, HTTP answers 500 to a token while the handshake of a
  socket takes it for the uid.
- A session named `uid:x` has a room its user may join, but POST `/logos/analyze` asks
  that the session be the uid, and an erasure takes the session of that name only.
- A last line without its newline is dropped by both readers; Gemini's stream then
  ends one piece short.
- The event of a piece does not say which stream it belongs to: two streams of one
  session arrive mixed in its room (each is in order, `ToldInOrder`).
- `process.exit(0)` after `server.close` waits for connections, but not for what is no
  longer tied to one: ingestion, correlation, streams whose client has gone.

## 4. Proofs

Every theorem holds for all values of the constants that the named assumptions of the
modules allow. The proofs have the same three parts: an invariant holds in `Init`, every
step keeps it, and it implies the property. Where the property is not inductive, the tables
say what the invariant adds.

### Quest

`Quest_proofs`, for any users, quests and requests:

| Theorem | For | Argument |
|---|---|---|
| `TypeCorrect` | both backends | inductive as stated |
| `WellFormedHolds` | both | ids in flight exist, the owner read is the owner, a branch has its parent's owner; inductive with the types, because owner and parent never change once written |
| `ClaimsHold` | memory | the inductive invariant behind the rest |
| `SingleOutcomeInMemory`, `EventsHonestInMemory` | memory | from `ClaimsTrue` |
| `LegalInMemory`, `NoBranchOnSealedInMemory` | memory | a step of `row` is a creation or a `Save` whose guard held for the object itself |
| `TreesHaveOneOwner` | both | from `WellFormed` |
| `ErasedStaysErased` | Postgres | a step adds a live row only as a creation, whose id is unused; a save leaves out a row that is gone |
| `NoOrphansInPostgres` | Postgres | a child is inserted only under a live parent, and erasure takes whole trees since they have one owner |
| `ContractInMemory` | memory | refinement: `Save` is `Move`, `Publish` is `Announce`, other steps stutter |

`SingleOutcome` is not inductive: a handler that has written but not yet
published has a claim no event shows. `ClaimsTrue` adds what such a handler holds: the
state of its quest bears out the event it is about to publish, and nobody else
claims the same. It is preserved because, in memory, guard and write of `Save`
look at one object in one step. That argument fails for Postgres, where the
guard looks at a copy: the violations above.

### Erasure

`Erasure_proofs`, for any users, requests, texts, near pairs, documents and settings
(every property of the run `erasure`, and its types):

| Theorem | Argument |
|---|---|
| `ErasureTakesAll` | with `AuditTrue` (the audit names answered erasures only): of what an erasure found when it began, what is still there is in a store whose purge is not back, or a goal in the repository it did not ask; while Mongo stays reachable that is the `Map`, which then is empty (`ErasedSoFar`, `Steady`) |
| `ExportTakesAll` | of what an export found when it began, what is still there has been read, is in a store not read yet, or is a goal of the repository not asked (`ReadSoFar`) |
| `ProfileGoesLast` | a profile goes in a step of an erasure with no purge left, to which `ErasedSoFar` applies |
| `ItemsGoOnce` | an item reported as gone is not there, and only an item that is there is reported (`ReportsTrue`) |
| `NoTwinsEver` | ingestions of a session that go on at once are noted (`BesideNoted`), and what one is about to insert is near fragments of ingestions beside it only (`NearBeside`), since it has searched all others |
| `TypeCorrect` | inductive with: an ingestion under way has a chunk left, a removal under way has its item |

`ErasedWhenAnswered` and `ExportComplete` say nothing before the answer, so neither is
inductive. `ErasedSoFar` and `ReadSoFar` are, given `NothingReturns`: a row that an erasure or
an export has noted and that is gone does not come back, since its id is that of the request that
made it and no request is made twice (`Free`). So a purge that is back stays true
of its store whatever is written beside it, and the answer needs them all.

### Resolver and QuestLoop

`QuestLoop_proofs`, for any users, goals, requests and quests, and whatever fails:

| Theorem | Argument |
|---|---|
| `TypeCorrect` | with: a task that has not begun holds nothing, only a correlation lists and scores (`ProcShape`) |
| `CorrelationsAreOwn` | what is stored or listed was created for its user (`GoalsOwn`, `SeenOwn`) |
| `GoalsStayGone` | action property: a repository gets a goal only from `CreateGoal`, whose goal is new, and `SetEmbedding` changes one that is there |
| `VectorsAreStored` | a creation that has its goal in one repository and whose embedding is through there has left the vector, or the goal is gone, for whatever changes a goal keeps its vector; without outages each call picks Mongo (`NoOutage`) |
| `PurgesReach` | without outages a Connection has its flag and every goal is in Mongo (`NoOutage`): a purge works on the repository that has everything |
| `LoopRunsResolver` | `LoopSpec => Spec`: each step of the composition is a step of the resolver or leaves it alone, so the five above hold in the composition too |
| `PolarityIsTrue` | a quest with a task has ended and announced it, its task has its sign, and from there it can only be rewarded, so that no second end can start a second task (`Ends`) |

`CorrelationOwn` speaks of correlations published only, so it says nothing of a goal that a
task has listed and its user has deleted since; that is what `SeenOwn` adds.

### Living Memory

`IntentMap_proofs`, for any sessions, requests, thresholds and configurations:

| Theorem | Argument |
|---|---|
| `TypeCorrect` | with: a request that has not come holds nothing, and is an append, a snapshot or a purge according to where it is (`Held`) |
| `SessionsHaveOneHome` | while the process lives, what a session has is where the latched proxy looks (`Home`) |
| `TimelineIsTrue` | what Mongo keeps, a snapshot task holds or an append has yet to note was stored (`Truthful`) |
| `AnsweredIsAudited` | an append between its two entries has the first, until a purge of its session begins; who is last in a stored graph has stored it (`Noted`) |
| `NodesAreKept`, `VersionsNameGraphs` | action properties: what the store holds an append has read, or another at work beside it has stored (`Kept`); requests that have something of a session in hand at once know of each other (`Company`) |
| `PurgesErase` | what a purge has deleted is neither in the store nor in the timeline, nor in hand of an append or a snapshot task, but from a request that was at work beside it (`Gone`) |

These three hold in every configuration: with overlapping clients, automatic snapshots, outages,
failing queries and restarts. They say of a loss who must have caused it. That overlapping
requests do cause it the replays `MCIntentMap_version.cfg` and `MCIntentMap_erase.cfg` show.
`NodesAreKept` leaves out appends that read while the flag was down: those lose
everything, see `intent_wipe`. `PurgeErases` leaves out an erasure that did not go through,
whose failure the code answers with 200 (`gdpr.service.ts:68`).

### Folds and the reading of a stream

The line readers, the lookups of a batch and the LRUs are loops over data, here folds of
`SequencesExt`. The induction theorems of the library take an operator as a parameter,
which the provers cannot instantiate. `Folding` states induction for sets in their place
(`Least`: a set of naturals has a least element, from the well-foundedness of the
inclusion of finite sets; `Induct` and, up to a bound, `InductTo`), shows that the
function by which a fold is defined exists (`FoldExists`), and that a fold is the last of the
values the loop goes through (`FoldTrace`). A fact about a loop then is an
induction over those values.

`Realtime_proofs` begins with `FeedInParts` (a body read in two parts, cut anywhere, leaves the
reader as one read of both does) and `BodyMeans` (what the reader yields of a body is the
meaning of its complete lines up to the one that ends it), for bodies of any length.

### Realtime

`Realtime_proofs`, for any sockets, analyses, users, sessions, bodies and configurations:

| Theorem | Argument |
|---|---|
| `HearsOnlyOwn` | below |
| `StoriesAreTold`, `AnswersAreRemembered` | the course of an analysis (`Course`): what was told is a function of where it is; while it streams, what was passed on and what the reader holds are what `LineReader` makes of the body so far. `FeedInParts` carries this over a read, `BodyMeans` to the end |
| `AskersHearAll` | the socket that asked is in the room of its stream and has heard what was told (`Asking`); a client leaves only by going, and `Connect` takes a socket once |
| `BudgetsAreExact` | `spent` of a user is its counter, or the limit when the counter is past it (`Counted`): they move together, also over restarts, the ends of windows and counts that stand though their query failed |

The invariant of `HearsOnlyOwn`, on which the others build, has four parts.
`RoomsOwn`: the rooms of a connection are those `canJoinRoom` allows its user, who is
fixed at the handshake. `AskedOwn`: an analysis that publishes was asked by a user
who may use its session, on a socket by `canJoinRoom`, over HTTP by `requireOwnership`,
which is the narrower rule (`OwnsJoins`). `HeardOwn`: what a socket has heard was
such an analysis, in a room it might join; it is kept because a user and a
session never change once there. `Shapes` are the types that this needs. `HearsOwn`
follows since the uids that may join a session are, one of any two, a prefix of the other
(`WithinAssumption`, `Kin`): without colons in uids, one and the same.

`ToldInOrder` is not inductive: a stream that has told a beginning of its story need not go on
with it. `Course` says where in the body its reader is.

### Economizer

`Economizer_proofs`, for any texts, calls, batches, slices and capacities, whatever fails,
expires or is written by other instances:

| Theorem | Argument |
|---|---|
| `TypeCorrect` | from the invariant; the capacity of an LRU is part of it |
| `AnswersAreTrue` | each call is sound (`Sound`): its results so far are of its own texts (`Told`), and how many it has follows from where it is (`Stage`). The answers of the provider are placed by counting the misses before each place, which gives each the one that was asked for it (`Lists`) |
| `CachesAreTrue` | every entry is good (`Good`), in the LRUs, the slow layers and the puts; an LRU takes an entry only from another layer or from an answer |
| `LruIsExact` | an LRU is the end of the list of keys touched, and that list has no key twice (`Exact`): so the key moved to the end of one is moved in the other, and what falls out is the one before the end |
| `FindsAreWrittenBack` | while only providers fail, a key whose result a call or an LRU has is in Redis or on its way there (`Backed`); nothing takes it out again |
| `CountsAddUp` | requests, and those a reset has wiped out under way (`owed`), are hits and misses and the single calls whose lookups are under way, which are finitely many though the calls need not be (`Balance`) |

One invariant `Inv == StoresSound /\ LrusSound /\ CallsSound /\ CountsSound` serves all six, as
each part needs another: the results of calls fill the LRUs, and the LRUs answer calls.
`LruExact` compares two sequences; without `NoTwice` a second touch could leave the
first behind. `WrittenBack` speaks of a moment without puts, so `Backed` says what is true before.

### Correlation

`Correlation_proofs`, for any goals listed in any order, forest, cosines, weights, threshold, `topK`
and discount that keeps the order of the scores:

| Theorem | Argument |
|---|---|
| `TypeCorrect` | from the invariant |
| `WorthIsTrue` | what the loops have put in the `Map` is the worth of each goal, below |
| `RankingIsTrue` | `Insert` keeps a list falling (`Falling`), adds one match and loses none; so `Ranked` has the matches of the `Map`, each goal once (`Distinct`), and a slice leaves out the least |
| `WalkHasEnd` | each level climbed takes one from the rank left above: `rank[cur] + depth` is at most the number of goals and one more (`Room`), for any threshold, also one that stops nothing |

The loops over a list (direct matches, merge, ranking) are folds; `DirectLoop`, `MergeLoop` and
`RankLoop` give the values they go through, by `FoldTrace` of `Folding`. `Worth` is recursive over
the forest, not over the naturals: that a function with its equation exists
(`WorthExists`) and that there is one only (`SettledOnce`) are inductions on the rank.

The invariant of the walk, `Walk`, has two halves. No entry of the `Map`, nor the score in hand,
promises more than its goal is worth (`Best`), because a parent is worth the
discount of a child at least and the discount keeps the order (`BestRises`). And what the walk is past
(`Passed`) has reached the parent: a direct match already taken, an entry of the `Map`, unless the walk
is on it (`Here`), have left there an entry no less than their discounted score. A list
closed in this way is complete: from the leaves up, each goal worth anything has an entry
of its worth (`Complete`). `WorthTrue` says nothing before the answer and so is not
inductive; that a lower direct score never hides a propagated one, nor the other way round, whatever
the order of the list, is what `Walk` carries to the answer.

### What is assumed, what is only model-checked

The assumptions are those named in the modules. `Quest`: `BackendAssumption`,
`NoneAssumption`, and `Backend` as stated. `Access`: `UidAssumption`, `WithinAssumption` (of two uids with one session one is a prefix of the other),
`IdentityAssumption`, `AbsenceAssumption`. `RateLimit`: `LimitAssumption`. `LineReader`:
`NewlineAssumption` (a character). `Realtime`: `SettingsAssumption`, `WiresAssumption` (a body is
lines without newlines), `DeltasAssumption` (a piece of an answer is none of the other events),
`SocketsAssumption`, `JobsAssumption`, `ClientsAssumption`. `Resolver`: `OwnerAssumption`,
`DisjointAssumption` (a request is not a task of the bridge), `NoneAssumption`, `CircumstanceAssumption`. `IntentMap`:
`ConfigurationAssumption`, `NoneAssumption`. `Embeddings`: `NearAssumption`, `NoneAssumption`,
`DocumentsAssumption`. `Economizer`: `KeyAssumption` (texts with one key are of one
kind), `ElsewhereAssumption`, `BatchAssumption`, `CapacityAssumption` (at least one entry).
`Correlation`: `ListedAssumption` (a goal is listed once, as `goalId` is unique; without goals nothing
is computed), `ScoreAssumption`, `DiscountAssumption` (the order is kept), `TopKAssumption`. TLC
evaluates each of them in the run of its module.

Only model-checked: liveness (`OutcomeAnnounced`, `MilestoneReached`, `BridgeAnswers`, `AnswerComes`),
as fairness and ENABLED are out of the prover's reach. Every invariant and action property
of the passing runs is stated by a theorem.

## 5. Plan

Done: Quest, QuestContract, MongoLink, IntentMap, Resolver, QuestLoop, Correlation,
Economizer with its slices and counters, Embeddings, Inventory, Erasure, Access, RateLimit,
LineReader, Realtime; proofs for all of them but MongoLink on its own.

What could follow:
1. Abstract specifications: a cache as a function of its key, implemented by
   `Economizer`; "an account is there or gone", implemented by `Erasure` without faults.
2. What `Inventory` and `MongoLink` promise by themselves.

Not modelled and not planned: the state machine engine (nothing instantiates it),
configuration, validation schemas, document parsing, prompts, histograms and spans
(functions of one request, or output no decision reads); the order of the pings at boot,
of whose results only the Mongo flag is kept (`MongoLink`). Five hazards are
listed without a property, as the code does what the hazard says: a parent completed before
its branches (`MCQuest_parent.cfg`), an outcome stored by a process that dies
before it announces it, an erasure of intents whose failure is answered with 200, a
restart that chooses another repository of intents, and clients cut at the end of the process.
A goal that an erasure misses after an outage (`MCErasure_goals.cfg`) and the flag of Mongo
that stays down (`MCResolver_returns.cfg`) are shown by replays; that the first needs an outage,
and how little it may miss, are the theorems `ErasureTakesAll` and `PurgesReach`.
