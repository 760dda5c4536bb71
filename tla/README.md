# Verification of the taksitlio backend

Formal models of the stateful parts of the chat and search backend under
`src/src/taksitlio`: what TLC checks of them on small instances, and what TLAPS
proves of them for every instance. The models are translated from the code;
where the code and a document of the repository disagree, the model follows the
code and a run shows the disagreement.

    cd tla
    tlasany ConversationStore.tla
    tlc -workers 2 -config MCStore.cfg MCStore.tla
    tlapm ConversationStoreProofs.tla

`PROJECT.json` is the index: the components with their status, the runs, the
source lines behind every definition (`map`), the mutations that each property
detects, the hazards of the code with the properties that cover them, the
findings and the theorems.

---

## 1. The system

A Turkish shopping assistant: a user chats, the backend keeps a structured need,
searches a product catalog with instalment offers, asks at most a few short
questions, and consults a language model only when its fast parser is unsure.
One asyncio process serves the API; Redis keeps conversations; Postgres keeps
searches, catalog and background jobs; a daemon drains the jobs.

| component | state | operations | how others reach it |
|---|---|---|---|
| conversation state (`conversation_state/`) | a Redis hash per session with a JSON payload, revision, status, sequence, two expiries; one record per idempotency key | create, get, patch, initialise need, set and clear clarification, mark ready, touch, complete | awaited calls from the chat orchestrator and the guest pipeline; writes go through one Lua script |
| ingestion scheduler (`ingestion_scheduler/`, `V020` migration) | table of jobs: status, attempts, lease, availability | enqueue, lease, mark running, complete, fail | admin requests enqueue, daemon processes lease by SQL statements of their own |
| search sessions (`search_sessions/`) | status, active query version, question count, stored questions, jobs, in process memory | start, supersede, answer, update constraint, show current results, cancel, complete job | HTTP handlers; understanding jobs call back into it |
| understanding jobs (`llm_routing/`) | job status, asyncio tasks, calls at the provider | schedule, process, drain | created by a search, answer by callback into the search |
| circuit breaker (`runtime_verification/circuit.py`, `model_gateway/health.py`) | circuit, health, counters, cooldown instant | is_routable, maybe_transition, record_success, record_failure | asked by each job before, told after its call |
| chat orchestrator (`application/`) | none of its own between awaits | one turn: understand, write the need, match, write the category, each write with one retry | composes conversation state with a model and the category matcher; only tests construct it |
| signed-in chat (`pipeline/`, `understanding/`, `conversation/session.py`) | a Redis document per session without a revision | handle a message, reset | HTTP; the model router under it |
| search persistence (`persist.py`, `postgres.py`, `hydrate.py`) | rows mirroring the in-memory session | mirror, hydrate | after requests, and on a cache miss |
| category catalog (`category_catalog/`) | draft categories, revision records, snapshots, the published pointer | edit, prepare, mark ready, publish | admin requests; the matcher reads the snapshot at the pointer |
| category embedding (`category_embedding/`) | jobs and embeddings per category and revision | enqueue a snapshot, list, embed, retry | the gate of `mark_ready_to_publish` reads the embeddings |
| catalog events (`product/catalog.py`, `catalog_events/`, `V029`) | products, outbox of domain events | upsert a product and announce it, list and process events | ingestion runs write, consumers drain |
| parsing, ranking, finance, response text | none | functions of one request | called by the above |

`PROJECT.json` lists these and the remaining parts (catalog projection, query
planning, ingestion runners, learning lifecycle, evaluation, web) with what is
left out and why.

### What is hard here

* **Snapshots that age across awaits.** A conversation write derives the next
  state from a payload read several awaits earlier; meanwhile another request
  may write, the clock may pass an expiry, the key may vanish and come back.
* **Two copies of the truth.** The Lua script decides on hash fields, the
  manager derives from the payload; `touch` and `complete` rewrite only some.
* **Retries.** The same idempotency key comes again with the same or with
  another revision and payload; scheduler jobs are leased again while their
  first worker lives.
* **Updates by id.** `mark_running`, `complete` and `fail` of the scheduler look
  at neither status nor owner.
* **Late answers.** The user corrects, cancels or completes a search while calls
  are at the provider; the circuit opens, cools down and half-opens while calls
  that began before are still to be answered.
* **Half-done operations.** A handler changes version and jobs before a status
  change that may be refused.
* **Exceptions swallowed inside a transaction.** The announcement of a product
  write may fail; Postgres has then aborted the transaction the caller commits.
* **Numbers given out twice.** Publishing an older revision sets the draft number
  back; workers still hold jobs of the number's first use.
* **Documents without a revision.** Overlapping turns of the signed-in chat each
  write back the whole session they read.
* **Things that must happen.** A job must be settled; a search shown as running
  must end; an open circuit must be tried again.

### What would make each part correct

* Conversation state: no lost update, one application per key, no write after
  the absolute lifetime, copies that agree; as a whole, an append-only log.
* Scheduler: one active job per item, attempts within budget, one worker per
  job, settled jobs stay settled, every job is settled.
* Search: patches fit the query they were asked for, final statuses are final,
  "in progress" means something will answer, questions can be answered and
  answering them comes to an end, searches settle.
* Circuit: circuit, health and counters agree, a spent probe decides, an open
  circuit is tried again.
* Chat turn: what a turn reports as accepted is stored, a category follows the
  need it was matched for, a request is stored once although it makes two writes
  under four keys.
* Catalog: one revision is published, and what the matcher reads at it is complete,
  fits its texts and stays.
* Events: announced is what was committed, new content is stored, an event taken
  is in somebody's hands.
* Signed-in chat: a turn that met no other turn is not undone, and what was reset
  does not come back.

---

## 2. Modules

| module | role |
|---|---|
| `SessionLog` | abstract: a conversation is opened once, is a log that grows by one fresh, in-order write based on the whole log, and is completed for good along that one history |
| `ConversationStore`, `MCStore` | the Redis repository, the manager and its Lua script, with clock, expiry and dying callers; instance |
| `ConversationStoreProofs` | its theorems, among them that it implements `SessionLog` |
| `ChatTurn`, `MCChatTurn`, `ChatTurnProofs` | the turns of the chat orchestrator; EXTENDS `ConversationStore`, every step of a turn is a step of the store or leaves it alone; theorems |
| `JobQueue` | abstract: a queue without workers, leases or crashes; one report for each time a job was taken |
| `IngestionScheduler`, `MCScheduler`, `SchedulerProofs` | job table, ticks of the workers, enqueuers; instance; theorems, among them that it implements `JobQueue` |
| `CircuitBreaker`, `MCCircuit`, `CircuitProofs` | the breaker and all jobs that ask it; instance; theorems |
| `SearchSession`, `SearchProofs` | one search session with its jobs, tasks and calls; theorems |
| `ServedCatalog` | abstract: what the matcher reads changes by publications alone, each complete |
| `CatalogPublication`, `MCCatalogPublication`, `CatalogPublicationProofs` | two-stage publication of a category catalog with the outbox and workers that compute its embeddings; instance; theorems, among them that it implements `ServedCatalog` |
| `CatalogEvents`, `MCCatalogEvents`, `CatalogEventsProofs` | product writes, the events of their transaction, and the consumers |
| `ChatPipeline`, `MCChatPipeline`, `ChatPipelineProofs` | the chat of a signed-in user over a session without a revision |

Definitions called `X_slip` state `X` with one plausible mistake (a missing
guard, a missing reset, an off-by-one). They are used by no specification; they
are put in the place of `X` to see that a property notices.

### ConversationStore

*State.* `store` is the Redis hash: the payload, the hash's own copies of
revision, status, sequence and expiries, and the deadline of the key. `idem` are
the idempotency records. Each caller has the place in its manager call (`pc`),
the call, and the state it works on (`snap`). `life` and `born` are history
variables: how often the key came into being, and in which life a snapshot was
read. What a payload says about the need is abstracted to `log`, the sequence of
writes it was derived from; everything lost or doubled is visible there.

*Actions.* One per round trip to Redis, since that is where other callers run:
`GetSession` (under `BeginWrite`, `BeginTouch`, `BeginComplete`), the script
(`CasApply`, `CasRefuse`, with the early returns in the order of the Lua file in
`Verdict`), EXISTS / HSET / PEXPIRE of create and of touch, and the unconditional
HSET of complete. `GiveUp` is a caller that dies, is cancelled, or has its patch
rejected. `Tick` is a second passing, with Redis dropping what it has to.

*Abstractions.* One session; one clock for the API process and Redis, which does
not tick between `datetime.now` and the script it is passed to; anonymous and
authenticated sessions differ only in `IdleTTL`. The event sink, the message
texts, and `delete`, which nothing calls, are left out. `client_message_id` is
taken to be a function of the key, as its callers derive both from one message.

*What the refinement says.* `Promised` is a `SessionLog`: `log` is the log of the
payload, and `phase` is read off the hash, its status and `life`. In the first
life of the key (phases `open` and `done`) the session is opened once, every write
is appended to the whole log, and completing is final: since `complete` is not
compare-and-set it may drop the latest writes, and callers that read the session
earlier may complete it again, but only along the one history of writes that were
applied. A key may expire between the EXISTS and the HSET of a touch; then a hash
without a payload appears, and a caller in flight with expected revision 0 turns
it into a session again (`Reopen`). Revisions have restarted, so a second caller
with a snapshot of the earlier life may find its expected revision and put its own
history in the place of what is there (`Rebase`, phase `reopened`). The promise of
ADR-003 against lost updates therefore ends with the life of the key;
`NoLostUpdate` says so by leaving out snapshots of an earlier life (`born`). It
takes three callers and three keys to get to `Rebase`. The instance has two of
each; the theorem covers every number.

### ChatTurn

*State.* The variables of `ConversationStore` and `turn`: for each caller the
place in `handle_turn`, the request, the part it writes (the need or the
category), whether this is the retry, what the model or the matcher made of it,
and the revision it saw.

*Actions.* `BeginTurn` is `get_session` and the model, `Send` the read and the
start of a write, `WriteAccepted`, `WriteConflicts` and `WriteFails` its three
outcomes (together with `CasApply` or `CasRefuse` of the store), `Reread` the
snapshot after a conflict, `Match` the refresh and the matcher, `EndTurn` the last
refresh, `AbandonTurn` a model that fails, a session that is gone, or a cancelled
request. `OtherStep` is everything else the store offers.

*What the code does that the docs do not say.* The category of a sequenced turn is
always refused as OUT_OF_ORDER after the need of the same turn, because it carries
the same sequence (`chat_orchestrator.py:290`, against step 6 of the docstring).
A repeated unsequenced request can be applied under both `:need` and
`:need:retry` (ADR-003 decision 5); the retry sends the same patch again (ADR-003
decision 12, "no blind retry"). A repeat with a newer revision is answered
DUPLICATE_PAYLOAD_MISMATCH, since the fingerprint holds the expected revision. A
write without a sequence opens the gate for older sequenced ones. Therefore
`SequencedOnce` speaks of logs in which everything carried a sequence, and
`CategoryFollowsNeed` lets needs of other messages stand between. All three
properties of turns except ids that clients name and keys that vanished and came
back. In this repository only tests construct the orchestrator.

### IngestionScheduler

*State.* `jobs` is the table; `ready` and `lapsed` say whether `available_at` has
come and `lease_until` is past. `asked` is what an enqueuer found missing between
its SELECT and its INSERT. `pc` and `held` are the local state of a tick;
`contested` records jobs leased away from a living holder.

*Actions.* Every SQL statement is one: `EnqueueLook`, `EnqueueInsert` (with the
partial unique index, which takes NULL sources to be distinct), `Lease`,
`MarkRunning`, `Complete`, `Fail`. `CompleteUnanswered` is a commit whose answer
is lost, which the `try` of the tick turns into a failure. `Crash` is a worker
that dies or is cancelled anywhere in a tick.

*Abstractions.* `lease_owner` is written and never read. The queue filter is part
of the item. A handler succeeds or raises.

*What the refinement says.* Through `Promised` the rows are a `JobQueue`: LEASED
and RUNNING are one state, `taken`, and leases, crashes, lapses and the races of
enqueuers disappear. What remains visible is `loose`: a job leased away from a
worker that still holds it (`contested`), or one that succeeded without its worker
hearing of it (`Unheard`). Late reports on those may set it to any state, a settled
one included, and still respect the unique index and the attempts. On every other
job there is one report for each time it was taken.

### CircuitBreaker

*State.* `breaker` is the controller with the snapshot of its deployment (circuit,
health, failures and successes in a row, probes out), `cooled` whether the
cooldown is over. For each job: `job`, `task` (created and not yet run) and
`calls` at the provider. `diverted` is `SearchOrchestrator.circuit_open`.

*Actions.* `process_job` has one await, so a job is two steps: `Ask` (under
`Process`, the scheduled task, and `Drain`, the endpoint) and `Answer`, which is
`AnswerArrives`, `CallFails`, or `AnswerIsNotApplied` when a success is recorded
and the handler then raises. `Route` is a search that creates a job, `Withdraw`
a search that takes it back, `CoolDown` time.

*Abstractions.* Counters stop at their thresholds, against which alone they are
read. `begin_request` has no caller for this deployment, so `active_requests`
stays zero. Latencies are left out.

### SearchSession

*State.* `status`, `version`, `answered` (clarification_count), `asked` (versions
with a question that has an id), and per version its `job`, `task` and `calls`.
`replies` is a history variable: the versions that answers opened.
A version has at most one job, so jobs are named by versions.

*Actions.* Every handler of the orchestrator is synchronous, so a request is one
step: `Start`, `Supersede`, `AnswerClarification`, `UpdateConstraint`,
`CompleteWithCurrentResults`, `Cancel`, and `CompleteJob` (the endpoint that hands
in a patch). `RunPipeline` is `_run_pipeline`, with the route a message takes as a
choice. `Allowed` is the whole transition table. Where the code calls
`set_status`, which raises, the model asks for `Legal` or leaves the half of the
operation that came before; where it asks `can_transition` first, the model uses
`Try`. The provider call splits a job: `RunTask` and `Drain` before it,
`ProviderAnswers` and `ProviderFails` after it.

*Abstractions.* One session; tasks of others are `DivertedElsewhere`. Whether the
circuit lets a call through is a choice here and the subject of `CircuitBreaker`.
`conversation_state_version` moves only together with the query version. A
retrieval that raises, the hydration of a session after a restart, and
`timeout_if_needed`, which nothing in `src` calls, are not modelled.

### CatalogPublication

*State.* `published` and `draft` are the pointers of the catalog, `category` the
mutable categories, `revision` and `snapshot` the records by number, `job` and
`embedding` those of the embedding repository, `todo` what each worker listed and
has not reported. `reused` is a history variable: numbers that were given out
twice.

*Actions.* The in-memory repositories never suspend (an `asyncio.Lock` nobody
holds is taken at once), so a service method is one step: `Write`, `SetStatus`,
`PrepareRevision`, `MarkReadyToPublish` with the embedding gate,
`PublishRevision`, `EnqueueForSnapshot`. `publish_revision` without a revision, or
of one that is PREPARING, calls several of them. The worker is `ListPendingJobs`
and, after the await at the embedding server, `StoreEmbedding` or
`EmbeddingFails`; it may be cancelled at any await.

*Abstractions.* One locale and one profile. The gate is the checker of the
repository; the default, which always agrees, would leave nothing of ADR-004
decision 3. The projection and its hash are functions of the text. No daemon runs
`run_once`, so nothing is claimed to happen. The list limit of 32 is beyond the
instance. `postgres_repository.py` is a stub whose methods all raise; the cache of
the matcher is not modelled.

*Numbers given out twice.* Publishing an older READY revision sets `draft_revision`
back (`service.py:458`), and the next `prepare_revision` stores over a snapshot
that exists, although `domain.py:167` calls it immutable. Workers late with jobs of
the first use then store embeddings of the old text under the new one.
`EmbeddingsFitSnapshot` excepts exactly those numbers. That the published one is
never stored over is part of the refinement.

*What the refinement says.* The matcher sees the number at the pointer, the texts
of its snapshot and the embeddings of its number. `Served` maps these to
`ServedCatalog`: they change in one step, `Publish`, to a complete catalog whose
vectors are of its texts if its number was given out once; beside that only a
vector may be replaced, and only under a number given out twice (`LateVector`).
Drafts, preparations, the gate, the outbox and workers do not show.

### CatalogEvents

*State.* `product` is the committed content of each product, `event` the rows of
`catalog_domain_events` by item and hash, `writer` the upsert an ingestion run is
in, `consumer` the fetched rows and the one between PROCESSING and DONE. `stored`,
`acked` and `stranded` are history.

*Actions.* `ReadExisting` is the SELECT before the lock; `Upsert` is everything
from INSERT ... ON CONFLICT to COMMIT, which the row lock makes one step,
including the transaction that the unique index aborts; `WriteFails` a connection
lost before the COMMIT (a lost answer to one that succeeded is not a case). Consumers run without a transaction, so each of their statements is a step:
`Fetch`, `Start`, `Finish`, `Fail`, and `LoseConsumer`.

*What the code does.* Existence is read before the lock, so two ingestions may both
discover a product. A change back to a content already announced as a change
emits nothing. FOR UPDATE SKIP LOCKED locks only until the SELECT ends: two
consumers may handle one event and write its ledger job twice, and attempts may go
back. An event left PROCESSING by a lost consumer is never selected again. A
ledger INSERT that fails is swallowed and the event is DONE. Only a script calls
`process_pending_events`, so no liveness is claimed.

*Abstractions.* Content is its hash. The readiness request that goes with every
product event is inserted, skipped and rejected with it. Offers (whose upsert
announces the same events as a change), ledger rows and the projection, which is
rebuilt from the tables, are left out.

### ChatPipeline

*State.* `session` is the document in Redis, `turn` each message's turn with the
copy it read and the profile it made. A need profile is the set of messages it
takes into account: the model is given the stored profile with each message, and
its answer, which replaces that profile, is taken to rest on both
(`Understood`). `SoloTurnsStay` is thus about which messages reached the profile
and not about the values the language model keeps of them. `mixed`, `kept` and `cleared` are history.

*Actions.* Every GET and SET is one: opening and adopting a session, the first
`apply_need_profile` of the understanding service, the second of the pipeline,
each with the SET of an empty session when there is none; between them
`AskPrimary`, `AskFallback` and `Match`. `Reset` is the DELETE endpoint or the
expiry of the key, `Abandon` a lost request.

*What the code does.* The last write wins: overlapping turns lose updates, an
adopted user or a created session saves a stale copy, the second
`apply_need_profile` (`pipeline/orchestrator.py:227`) writes the profile of its own
turn over newer ones, and a reset during a turn is undone (`api/routes/chat.py`).
A fallback answer that is too uncertain is a SAFE_FAILURE with a profile, which the
understanding service does not store and the pipeline does. A CONTINUE turn counts
twice; `last_clarification_intent` is never cleared. The timeouts of the router are
per phase of a request, so the absolute deadline of ADR-001 may be exceeded. An
answer of the model that is not JSON raises past the except clauses: no fallback,
and `active_requests` is not given back. These last ones are not in the model.

---

## 3. What TLC checks

| run | instance | shows |
|---|---|---|
| `store` | 2 callers, 8 calls with stale, right and over-eager revisions, 2 keys, sequences and questions; idle 2, absolute and records 3, clock to 4 | `TypeOK`, `HashMirrorsPayload`, `NoLostUpdate`, `NoWriteAfterAbsolute`, `KeyAppliedOnce`, `ReplayIsStored`, `AwaitingMeansAsked`, refinement of `SessionLog` |
| `chat_turn` | 2 callers, a sequenced and an unsequenced message, any number of turns of each, one older write; one lifetime for session and records, clock to 2, writes from revisions 0 to 3 | `TurnTypeOK`, `AcceptedIsStored`, `CategoryFollowsNeed`, `SequencedOnce` |
| `scheduler` | 2 enqueuers, 2 workers, 2 jobs, one item with and one without a source, 2 attempts, 1 crash, 1 lapse under a living worker | `TypeOK`, `OneActiveJobPerItem`, `RetryBudget`, `HolderExclusive`, `SettledStays`, refinement of `JobQueue`, `JobsSettle` |
| `circuit` | 3 jobs, 2 calls each, the thresholds of the code (3, 1, 1) | `TypeOK`, `ControllerAgrees`, `SpentProbeIsOut`, `ProbeDecides` |
| `search` | 3 versions with a job each, 2 calls per job, 2 questions | `TypeOK`, `InProgressHasJob`, `WaitingMeansAsked`, `PatchFitsQuery`, `FinalStays`, `SearchSettles` |
| `publication` | 1 category, 2 texts and an invalid one, 2 revision numbers, 2 workers, 2 attempts | `TypeOK`, `PublishedIsPointer`, `PublishedIsServed`, `EmbeddingsFitSnapshot`, refinement of `ServedCatalog` |
| `events` | 1 product with 2 contents, 2 ingestions, 2 consumers, 2 attempts | `TypeOK`, `OutboxIsExact`, `LostOnlyOnReturn`, `ProcessingIsHeld` |
| `pipeline` | 3 messages, a route with a fallback | `TypeOK`, `SoloTurnsStay` |

### The bounds, and why they are enough

* Two callers: a lost update, a doubled key and a race of creators need two.
  What needs three (`Rebase`, above) is covered by the proof. Expected revisions 0
  to 2 against revisions that grow further are right, stale and over-eager ones.
* The clock of `store` passes idle expiry, absolute expiry and the deadline of
  every record while calls are in flight. The defaults of the policy (idle 1800 or
  86400 s, absolute and records 604800 s) keep the order
  idle < absolute = records of the instance.
* In `chat_turn` the session and its records expire together, with turns in
  flight; `store` varies the lifetimes. Four writes (from revisions 0 to 3) are the
  two parts of both messages, or of one with its repeat; one reading suffices, as
  a second differs from it only in what a fingerprint finds different. The older
  write has sequence 0 and expects revision 0: it is stale or overtaken.
* The scheduler needs a second job to collide with and a second worker to lease
  away; a second attempt is the last one. Rows are not reused, so runs end there.
* Three jobs reach the failure threshold of the code; two calls on one job are
  what a drain beside a task can cause.
* A third version is the first that can be stale twice. `MaxClarifications` is 2
  as in `SearchTimeoutPolicy`: 3 versions are a question, one more after its
  answer, and the answer after which no question may follow.
* Of two revision numbers each may be published, superseded, published again and
  given out again while a worker still holds jobs of its first use; categories are
  independent of each other but for the gate, which the proof covers.
* Two contents give the change and the return; two ingestions race for the
  discovery; two consumers fetch the same row, and a second attempt is the last.
* Two overlapping turns and one after them are the shortest history in which a
  late writer could undo what a turn that ran alone has stored.

`CHECK_DEADLOCK FALSE` stands in every configuration, since each bounded system
may really stop: the clock at its bound with the session gone; every row used and
settled; traffic diverted and all jobs settled; no version left and nothing in
flight; every message answered.

`SYMMETRY` is over callers, workers, consumers, messages, texts and contents, in
runs without liveness only; the action properties among them name none of these.

### Disagreements between code and documents

Each has a run that must find its property violated.

| run | property | what the code does |
|---|---|---|
| `store_opening` | `WritesSurvive` | create is EXISTS then HSET: with ids named by clients, a second creator erases a write already applied |
| `circuit_open` | `OpenEnds` | `circuit_open` is set by the first refused task and never reset: nothing asks the circuit again |
| `search_stale` | `StaleCallsAreHarmless` | the failure of a call for an older query completes the new one; only answers are checked for staleness |
| `events_lost` | `AcknowledgedIsStored` | a product that returns to a content it was discovered with: its event is rejected, the transaction is aborted, the row is returned and not stored |

The passing properties say exactly what holds beside these: `NoLostUpdate` and
`NoWriteAfterAbsolute` hold with fresh ids, and `LostOnlyOnReturn` that content the
product never had is always stored. Three more are visible in the models without a
run of their own:

* A late success while the circuit is OPEN clears the failures (`circuit.py:46`).
  After the cooldown the failed probe is then failure one of three; the circuit
  stays HALF_OPEN with its probe spent (`circuit.py:25` says "HALF_OPEN -> success
  CLOSED"). `SpentProbeIsOut` and `ProbeDecides` therefore speak of circuits whose
  failures are remembered; neither covers this case.
* ADR-011 decision 2 (and ADR-013, L2) allows at most 2 questions in a row in a
  session ("oturumda arka arkaya ≤2"). `clarification_count` moves on answers only
  (`orchestrator.py:799`), so a question the user does not answer is not counted:
  `Start`, `Supersede`, `Supersede` may ask each time, three questions in a row
  with a count of 0. `WaitingMeansAsked` states what the code does keep: of the
  questions of a session fewer than the limit followed an answer, whichever
  question was answered and however often. That a dialogue in which each question
  follows the answer to the one before has at most 2 questions is a theorem
  (`DialogueEnds`).
* The unique index of active jobs takes NULL sources to be distinct (`V020:57`), so
  racing enqueues of an item without a source pass it twice (`repository.py:221`)
  and two workers lease the item. `OneActiveJobPerItem` speaks of items with one.

`JobsSettle` speaks of jobs not left RUNNING by a dead worker (`Stranded`), which
no statement leases again; that this is for good is a theorem (`StrandedForGood`,
section 4). The fingerprint of a named operation leaves out its
arguments: the same key with another need is a replay, where ADR-003 wants a
mismatch; `ReplayIsStored` compares the operation and not its arguments there, so it does
not cover such a key.

### Fairness

Safety is checked and proved without fairness. Liveness assumes:

* scheduler: the daemon polls for ever and compose restarts it (WF of each
  worker's tick); time passes (WF of lapses and delays). Handlers end, since
  downloads have timeouts. Crashes, lost answers and enqueuers are owed nothing.
* circuit: the event loop runs its tasks and clients time out (WF of settled
  tasks and answers); time passes (WF of the cooldown); users go on searching (WF
  of `Route`) and do not withdraw each search before its task has run (SF of
  `Process`: a withdrawal disables it).
* search: a scheduled task runs and a call ends (WF). The user owes nothing;
  `SearchSettles` needs no request, drain or patch to come.

No fairness is stated for the embedding worker and the event consumers, since
nothing in `src` runs them in a loop, nor for turns of a chat, which a user may
leave at any point.

---

## 4. What TLAPS proves

All constants are arbitrary under the named assumptions of each module
(thresholds and lifetimes positive, calls well-formed, row ids natural numbers,
finitely many workers, which bounding the holders of a job by a cardinality needs).
In particular the number of callers, keys, jobs, workers, versions, products,
messages and calls is any, and no clock bound is used. The theorems are listed in
`PROJECT.json` with the properties they state. Every safety property of the
passing runs is proved.

**ConversationStoreProofs.** `TypeCorrect`. `HashMirrors`: `HashMirrorsPayload` is
inductive together with `SnapshotsCount` (the revision of every snapshot in flight
counts its own log), which is what makes a stale completion harmless to it.
`OptimisticLocking`: `~ClientNamedIds => (Spec => []NoLostUpdate)`. The script
compares revisions only; that equal revisions mean equal states in one life of
the key is the invariant `LockInv`: each snapshot is the present payload
(`FreshOrOlder`) or has a smaller revision, or the session is completed and takes
no write. It needs `SoleCreator` (no second HSET of create), which is where the
assumption on ids enters; `store_opening` shows that it is needed.
`AwaitingIsAsked` holds for any naming of ids: it is inductive over the payloads
of the hash and of all snapshots. `ReplaysAreStored` rests on `ReplayInv` (in the
first life, a record in force belongs to a write in the log of the session) and on
`RecordKeys`.

`LifetimeIsBounded`: every snapshot of a life shares the
absolute expiry of the hash (`SharedLifetime`), expiry fields of the hash never
exceed it, and a hash made by `touch` on a missing key, which has no absolute
expiry, carries an idle expiry that does not exceed it either (`AbsInv`).
`KeysApplyOnce`: in the hash and in every snapshot, a key in the log has a record
that lives at least to the absolute expiry of that log (`KeyInv`), so a write that
would repeat it meets the record or comes too late.

`HistoriesAgree`: in the first life all states derived from the session, stored,
in flight or under a touch, are prefixes of one another (`OneHistory`). It follows
a write by `OptimisticLocking`: who may write has the whole log, so the new log is
beyond everybody's. `FirstLifeKept` is the action property behind it: an open
session was open before, with a prefix of its log. Both need fresh ids, as
`OptimisticLocking` does: under ids that clients name `store_opening` shows a write
of the first life erased.
`StoreImplementsSessionLog`: the refinement, under fresh ids and
`IdemTTL >= AbsTTL`, as it is in the defaults of the policy. `StepIsPromised` maps
every action to a step of `SessionLog` or a stutter; the script's write
(`AppliedIsPromised`) is a `Write` in the first life by `OptimisticLocking`, and a
`Reopen`, `Rebase` or `Recomplete` in a later one; a completion
(`CompleteIsPromised`) is along the one history by `HistoriesAgree`.

**ChatTurnProofs.** `TurnTypes`. `TurnsUseTheStore`, that is `TurnSpec => Spec`:
every write a turn sends is one of the calls (`TurnWriteIsCall`), so all theorems
of the store hold under turns. The others rest on the store invariants (`StoreInv`)
and on `LogGrows`: while the session is open in its first life, a step leaves the
log alone or adds one accepted write, so what is stored stays stored.
`AcceptedPartsAreStored` from `TurnInv`; that a replay is stored is
`ReplaysAreStored`, used for the turn that waits. `TurnInv` adds that a turn which
looks for a category has its need stored, and with that `CategoriesFollowNeeds` and
`SequencedPartsOnce` follow from `OrderInv`, which says it of the logs of the store
and of every snapshot, since a completion may put a snapshot back. The sequences of
a log rise because the hash carries the sequence of the last write (`HistoryInv`).
All three need fresh ids, and speak of the first life of the key.
`TurnsKeepThePromise`: the refinement of `SessionLog` and the action property of
the first life hold of the store under turns.

**SchedulerProofs.** `SchedulerTypes`. `RetriesWithinBudget`: that attempts beyond
the maximum are owed to crashes and lapses is not inductive; `BudgetInv` counts a
lease that may be taken over (`Overdue`) against them before it is. `ActiveJobsAreUnique` rests on
the lemma `IndexKept` (setting one row active keeps the index if the statement was
not refused). `HoldersAreExclusive` has two halves: `HolderAlone`, inductive with
the types, and the bound on the holders of a job, where in `HoldersInv` a row that
may be leased (`Leasable`) counts like a holder. From them the action
property `SettledJobsStay`. `SchedulerImplementsJobQueue`: one lemma for each kind
of step: `InsertAdds`, `LeaseTakes`, `HolderReports` for a worker that holds its
job alone, where the row is as the worker left it, and `ContestedReports` for the
others, whose job is loose. `StrandedForGood`: a job left RUNNING by a dead worker
stays so, and by `ActiveJobsAreUnique` no other job of its item ever becomes active.

**CircuitProofs.** `CircuitTypes`, `HealthAndCircuitAgree`, `SpentProbesAreOut`. The
inductive `CircuitInv` adds that an open circuit has its probes back, which is what
lets `SpentProbeIsOut` survive the step to HALF_OPEN; `MethodsAreSound` shows it of
each method of the controller and the steps follow. `OpenForGood` is the reason
for the finding of `circuit_open`, for every number of jobs and every threshold:
once a task has met the open circuit and the jobs that asked are answered or
withdrawn (`NobodyAsks`), that is so for ever. `OnlyDrainTries`: with refused jobs
still RUNNING it takes an operator's drain.

**SearchProofs.** `SearchTypes`, `ProgressIsReal`, `QuestionsAreOpen` from the
inductive `SearchInv`, which adds `Unborn`: a version not reached yet has no job,
no task and no call; and `QuestionInv`: the count is the number of versions that
answers opened, and fewer questions than the limit are among them, in every state
and not only in a waiting one. `DialogueEnds` follows from it. `RetrievalDelivers` and `RefusalDelivers` evaluate the
transition table for every status; `Pipeline` says where `_run_pipeline` may leave
a session, `JobMarked` what the end of a call may do. `FinalStatusStays` and
`PatchesFit` are action properties from the same invariant. `OnlyFailuresIntrude`
draws the border of the finding of `search_stale`: the end of a call for a corrected
query or a withdrawn job changes the status only if the call failed.

**CatalogPublicationProofs.** `PointerIsPublished`; `PublishedIsComplete` from
`ReadyIsComplete` (what passed the gate or is published has its embeddings;
`EmbeddingsGrow`: workers replace embeddings and never leave none);
`PublishedEmbeddingsFit` from `FitInv` (jobs, lists and embeddings of a number
given out once are of the texts of its snapshot). `PublicationImplementsServed`:
`PublishServes` maps a publication to `Publish` from these invariants, and
`OthersServe` every other step to `LateVector` or a stutter, since a number that is
prepared is beyond the pointer (`PendingBeyond`) and workers store texts of their
jobs. `GivenUpForGood`: a revision with an embedding job that FAILED for good is
never published, and enqueueing it again does not help, for the outbox leaves jobs
alone that exist under their key; it takes a new snapshot under its number.

**CatalogEventsProofs.** `OutboxExact` is inductive with `WritersSaw` (a writer
that saw the product is right about it, for products are not deleted) and
`NoneStored`; `NewContentIsStored` follows, since a rejected event means that the
content was announced and hence stored. `ProcessingHeld` is inductive with the types
and those. `LeftForGood`: an event left PROCESSING by a lost consumer, and listed by
no other, is never processed; no write brings it back, as it counts as announced.

**ChatPipelineProofs.** `SoloTurnsStayStored` from `PipelineInv`: turns that overlap
know it (`OverlapsSeen`), a decided turn accounts for its own message, and every
profile anybody holds has what was kept before it and nothing that was cleared
(`ProfileInv`).

The theorems `StrandedForGood`, `OpenForGood`, `LeftForGood` and `GivenUpForGood`
say where the system does not recover by itself; the states they speak of are
reachable in the instances of the runs, six to thirteen steps from the start.

Only model-checked: everything under fairness
(`JobsSettle`, `ProbeDecides`, `SearchSettles`), since liveness and ENABLED are out
of this prover's reach. No module uses a RECURSIVE operator.

---

## 5. Not modelled, and what is left

* **Search persistence.** The mirror (`persist.py`) reads the live session between
  awaits without a lock or a version, and swallows its errors; background answers
  are not mirrored until the next request. So the rows may mix two moments: a
  session row of one version beside jobs of the next. After a restart `hydrate.py`
  installs what it finds: a session in LLM_RUNNING with a job nobody schedules, or
  a job of a version that will be given out again. No document says what the
  mirror owes, and of what one would wish little holds; a module would consist of
  exceptions. The two hazards are in `PROJECT.json` without a property.
* **In-memory repositories** of conversation and scheduler: each method is one
  critical section, so their behaviours are those of the modelled ones with fewer
  interleavings.
* **Postgres repository of the category catalog**: a stub; each method raises "not
  implemented in MVP". There is nothing to model.
* **Patch engine, query planning, state reducer**: functions of one document inside
  one request.
* **Ingestion runner, projection, learning lifecycle**: sequential jobs started by
  one operator.
* **Parsing, ranking, price arithmetic, wording**: data without concurrent state.
* **HTTP wiring, crawlers, evaluation, training, scripts**: I/O and programs of
  their own. They are most of the lines of the repository, which is why the map
  covers a small part of them.

Next in order: the restart of a search session as a further action of
`SearchSession`, and the offers of a product as further writers of `CatalogEvents`.
