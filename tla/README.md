# A TLA+ model of dext

dext collects university professor data with a human-supervised browser, builds
a graph and vector release from it, and serves recommendations, conversations
and competition plans over the release. This directory holds TLA+ specifications
of its parts, TLC configurations that check them on small instances, and TLAPS
proofs of their main safety properties for every instance.

`PROJECT.json` lists the components, the runs with their properties, a mutant for
every property, the source lines each definition stands for, what is hard to test
in the code (`hazards`) and the theorems.

## The system

| Part | State | Operations | Hard because | Correct when | Module |
|---|---|---|---|---|---|
| Fetch bridge (`dext/bridge`) | job queue, one in-flight slot, futures, heartbeat age, lifetime counters | `fetch`, `take_next`, `complete`, `fail`, `skip`, `override`, heartbeat, timeout | the browser answers late, twice or never; the clock stops while it is away | every fetch gets one verdict, no job is orphaned | `FetchBridge` |
| Browser extension (`browserext`) | persisted controller state, pending RPC, navigation signals | tick, claim, navigate, six navigation events, RPC answers, the user's commands | the service worker is killed at any await, events come in any order, messages are lost | a page is posted for the job it was accepted for, no work outlives its job | `BrowserController` |
| Crawl engine (`dext/engine`, `dext/storage`, `dext/cli.py`) | graph nodes, page cache, attempts, professors, org units, runs; queues, workers, driver | claim, fetch or replay, decide, create children, extract, save, mark; open, resume, reset, finish | three kinds of tasks interleave, any of them is killed anywhere, runs follow each other on one database | nothing discovered is lost, nothing is done twice at once, completed means complete | `CrawlEngine` |
| Catalog ingest and curation (`dext_graph/catalog/{workflow,source,curation,overrides}.py`) | tasks, snapshots, checkpoints and counters per build; observations, entities, identity claims and overrides of the whole catalog; assignments, field claims and canonical rows per build | create, snapshot, ingest, finalize, resume; three curation passes; merge, override | builds that share rows are interrupted and resumed in any order, and people merge entities in between | every row is counted once, only a whole crawl retires rows, a completed curation is complete and of today | `CatalogIngest`, `CatalogCuration` |
| Catalog builds and releases (`dext_graph/catalog`) | builds, stage runs, links, profiles, exports, checkpoints, validation and promotion runs; the Neo4j subgraph and pointer, the Qdrant collection and alias | build, resume, the stage commands, repair, compact, validate, promote | three stores without a common transaction, kills between any two writes, commands in any order | what is released was made from the links of today, a killed build resumes | `CatalogRelease` |
| Release readiness (`dext_recommend/readiness.py`, `runtime.py`, `adapters/active_snapshot.py`) | the cached snapshot and its age, a check in progress, startup flags | start, refresh, close, read back three stores, `get_snapshot` | the stores are read at different instants of a promotion | what is served was ACTIVE recently | `SnapshotReadiness` |
| Recommendation (`dext_recommend/core`) | a request's pinned build, recall windows, survivors; whom the session has shown | validate, classify, understand, recall, filter, relax, rank, record | builds change, payloads are stale, ports fail, windows grow | cards satisfy the filters by the pinned build, "more" repeats nobody | `Recommendation` |
| Grounded generation (`dext_grounded`, `dext_recommend/generation`, `dext_competition/qa`) | a job's pinned build, fact bundle, claims, warning codes | read details, trim, generate, support map, citation, safety | facts and model disagree, the build changes between two reads | an answer cites what its build says | `GroundedAnswers` |
| Conversations (`dext_recommend/app_state`, `application`, `api/routes`) | sessions, turns, attempts, answers, idempotency records; requests in flight | admit, stream, complete, retry, cancel, fork, delete, erase | concurrent READ COMMITTED transactions, client retries, crashes | a request is admitted and answered once | `Conversations`, `RequestLedger` |
| Competition plans (`dext_competition/repositories`, `assistant`) | the plan with its revision, idempotency answers, assistant history | create, save, delete, ask the assistant, accept change cards | repeated and delayed saves, cards against a plan that moved on | a write takes effect once, a plan keeps its mandatory tasks | `PreparationPlans` |
| Plan scheduling (`dext_competition/planning`) | phase ranges, tasks, hours left | validate, allocate, place, personalize | rounding, blocked days, short windows | a plan tiles the calendar and fits the hours | `PlanScheduler` |
| Decision centre, writer queue | | | | | not modelled yet |
| Page analysis, gold evaluation, monitor, web UI, legacy graph export | none shared | — | strings, external services, presentation | — | not modelled |

How they interact. The crawl engine calls the bridge's `fetch()`; the browser
extension is the bridge's client, and its view of the bridge (`/status`,
`/jobs/next`, the verdict posts, a job that times out) is the environment of
`BrowserController`. The databases the engine leaves (`Crawls`) are the
input of `CatalogIngest`; `CatalogCuration` extends it with the stage that
`CatalogRelease` takes as one step before the graph, topic and vector stages. A promotion switches the three stores that `SnapshotReadiness` reads back;
the build it hands out is the `served` of `Recommendation` and `GroundedAnswers`,
which take the rows of a build as constant because of `CatalogRelease!ActiveUntouched`.
A turn admitted by `Conversations` is dispatched to a request of `Recommendation`,
whose recorded cards are read by the next turn.

## The runs

Ten runs that pass and two that TLC refutes (see Findings). Deadlock is checked except
in the two `engine` and the two `conversations` runs, where the bounds end the behaviour
(the generation operations in `conversations` cannot stop: the served build may always
change).

| Run | What it shows |
|---|---|
| `bridge` | Two fetches, two jobs, a URL with an explicit port, timeout and staleness of two ticks, under `FairSpec`. A job is queued or in flight exactly while somebody awaits it, is counted once, its verdict agrees with what was recorded, a timeout had its share of live time, late or repeated answers change nothing; and if heartbeats keep coming, every fetch returns. |
| `browser` | A form job and a plain one in one tab, two requests per page load, one disturbance. No work outlives its job, a posted page was accepted for the URL the job has, and no page is asked twice to submit its form. |
| `engine_workers` | One decider, which may die of a decision that raises, and two extractors on an org unit, its list and one page under two schemes. No node in two hands, the exit test is not fooled by a task in hand, done means saved although two workers hold the same page, and a run that starts ends unless its decider died. |
| `engine_resume` | Two runs on one database, killed, cancelled or stopped by a raising decision anywhere, with targets and resets, over two org units that share a page. Every claimed node is attended to, or was left by a decision that raised, and a resume gives those back; children exist before their parent is done, only resets reopen a settled node, completed means complete. |
| `curation` | Three builds of one university with four possible crawl databases, three observations and entities, one fault, one merge or override, resumes in any order. Every row up to a checkpoint was counted once; an incomplete crawl deactivates nothing; a curation that completes has assigned every active observation and materialized only today's entities, but for observations that another build activated or deactivated while it was interrupted. |
| `curation_resumed` | The same builds. Refuted: a resumed build deactivates an observation that its own snapshot holds. |
| `release` | Two builds, one of them left by an older release, one upload batch, one fault, every command. What is READY or ACTIVE was made from the links the catalog holds, in profiles, points and professor nodes, and in the topic relations unless a `repair-links` of the build was killed half-way; checkpoints never claim more than was written; a store that serves another build than the ACTIVE one has an unfinished promotion on record; nothing writes to what an ACTIVE build serves, stale `resume`s included. |
| `readiness` | Two builds, snapshots valid for three ticks, checks of at most two. What is served was ACTIVE at most `Horizon` ticks ago; a promotion that stops half way makes the service stop serving. |
| `recommendation` | Three requests of a session over two builds that differ. Cards satisfy the filters by the pinned build; people outside the preferred place only fill up; "more mentors" repeats nobody while the session's results fit in what is looked up. |
| `conversations` | Conversations and the answers generated for them, which share no state (a behaviour is of one of them). Two request ids, two sessions, two handlers: records follow attempts, turns are numbered without gap or repeat, and the tables implement `RequestLedger`. Nine generation operations over two builds, every combination of up to two claims: a mentor answer states a fact with a source and cites only what its build says of those asked for. |
| `conversations_cancel` | One request and its cancellation. Refuted: an attempt that was interrupted becomes completed. |
| `competition` | The scheduler and the plan repository, which share no state (a behaviour is of one of them). 181 requests of both time models, windows of 0 to 22 days: every plan returned tiles the calendar, places every mandatory task on an open day of its phase, and its optional tasks fit in the weekly hours. One owner and plan, three idempotency keys, two assistant turns at once: every write takes effect at most once, the history stays whole exchanges at its limit, accepted cards never cost the plan a mandatory task. |

## Findings

Where the program does what its design forbids; each is a run that TLC refutes.

* **An attempt that has ended does not stay as it ended** (`conversations_cancel`,
  `TerminalStays`). The HTTP design (07b, 6.2 and 7.2) has terminal states that
  cannot be reverted, and a completion that finds a committed cancellation discards its
  result. `complete_attempt` (`repositories.py:506`) and `cancel_attempt` (666) decide
  from rows they read before and write without comparing: a completion that read
  before the cancellation committed turns interrupted into completed.
  `RequestLedger!LateAnswer` is this step; what the tables keep in spite of it (one
  answer, never lost) is what `ImplementsLedger` shows.
* **A build deactivates what its own snapshot holds** (`curation_resumed`,
  `DeactivatesOnlyMissing`). The release design (07, section 4) has only those
  observations become inactive that no longer appear, and the catalog design (02) has
  `active` say whether the last successful snapshot still has the row.
  `_finalize_source` (`workflow.py:801`) goes by `last_seen_build`: a build interrupted
  after its batches and resumed after a newer one has ingested the same rows finds
  them "not seen" and deactivates them. `DeactivationJustified` is what is left: the
  snapshot is complete and entirely imported, and the other build has the row.

## FetchBridge

Models `dext/bridge/queue.py`, `fetcher.py`, `health.py` and the routes of
`server.py`. Everything runs in one asyncio loop, so each HTTP handler and each
turn of fetch's polling loop is one step.

* **State.** `pending` and `assigned` are the queue's deque (job ids are in
  queueing order, so a set is enough) and its in-flight slot; `fut` the futures,
  `outcome` what `fetch()` returned, `stats` the counters, `hbAge` the age of the
  last heartbeat. A `waiter` is one polling loop: `elapsed` is `active_elapsed`,
  `since` the time since `last_tick`, `counting` is `timeout_counting`. `healthy`
  is a history variable, the ticks a job waited that began with a live browser.
* **Actions.** `Fetch`, `PollDone`/`PollTimeout`/`PollWait` (the branches of one
  turn of the loop), `TakeNext`, `Complete`, `Fail`, `Skip`, `Override`,
  `Heartbeat`, and `Tick` for time. The client may call with any id it was ever
  handed, at any time and as often as it likes.
* **Abstractions.** Time is counted in ticks; `PollGap` bounds the ticks between
  two turns (0.05 s in the code, against 15 s of staleness: `PollGap <= Stale`).
  Page contents are not represented. A fetch cancelled with its process is not
  represented here, because the queue dies with the process.
* **Bounds.** Two fetches are enough for one job to wait behind another and to be
  given up in either place; two ticks are enough for a heartbeat to go stale in
  the middle of an interval.
* **Fairness.** Time passes and each polling loop is run; nothing is assumed of
  the browser. `FetchReturns` is under the condition that heartbeats keep coming,
  which is the code's own: the timeout is paused without them.

## BrowserController

Models `browserext/src/controller`, the router, the navigation monitor and the
bridge client around it, and what the content script answers.

* **State.** `mem` is the controller's state in memory, `disk` what `chrome.storage`
  has, `todo` the awaits the running handler has still to perform. Every handler
  holds one mutex from its first to its last await, so a handler is one action
  that updates `mem` and fills `todo`, and the next handler starts when `todo` is
  empty; the browser, the page, the bridge and the user act in between. `slot` and
  `served` are the bridge, `requests`, `loading`, `live`, `tabOpen` the tab, `net`
  the events and answers on their way, `inbox` the RPCs in the page. `accepted`
  and `submitted` are history variables.
* **Actions.** One per handler: the six navigation events, the three RPC answers,
  the tick (offline, online, claim lost), eleven commands of the user; one per
  await (`persist`, `updateTabUrl`, `sendMessage`, `postVerdict`, `resume`), each
  of which may fail or be lost; `Crash`, after which the state is what `disk`
  has; the browser (`StartRequest`, `Load`, `LoadOffsite`, `LoadFails`, `CloseTab`,
  ...) and the page (`handleCapture`, `handlePrepare`, `handlePerform`).
* **Abstractions.** Documents are numbered by the request that loads them; the
  only timestamps compared are the moments navigations were issued; a deadline may
  have passed at any tick. An event that no later state can heed is dropped at the
  next save (`Moot`). The build modelled is the one with `EXCLUSIVE_CONTROL_ENABLED`.
* **Bounds.** Two jobs, one with a form; retry budget 2, one resend, two requests,
  two pages, one command of the user or kill, without document ids. Two jobs are
  what a stale event or RPC of an earlier job needs; the second request is the one
  a retry, a redirect or the form starts.
* **Not in it.** `manualComplete`, the binding of a tab, human decisions,
  `lastError`, the length of backoffs, the rpcId ledger's re-emission, the panel.

## CrawlEngine

Models `dext/engine/{driver,workers,handlers,retry,seeds}.py`,
`dext/storage/{writer,lifecycle}.py` and `run_university` of `dext/cli.py`. All
writes go through one writer coroutine with a transaction each, so a database
operation is one atomic and durable step; between two of them the other tasks run
and the process may be killed.

* **State.** The database: per node `status`, `attempts`, `owner`, `cache` (the
  page-cache row under the node's identity URL), `row` (its latest extraction
  attempt) and membership in `profs`; per org unit `orgStatus`; `runStatus` and
  `univStatus`. The process: `proc` is where `run_university` and `engine.run`
  are, `driver` the driver loop, `dq` and `eq` the two queues, `dw` and `ew` the
  workers with the node in hand. `decided` and `scope` are history variables: the
  children the last decision asked for (without those a reset deleted), and the
  target of the run recorded last.
* **Actions.** Opening (`OpenFresh`, `OpenResume`), setup (`ResetSubtree`,
  `LoadSeed`, `ResetBad`, ...), the driver (`DClaim`, `DLookup`, `DFetched`,
  `DDispatch`, `DSettle`, `DExit`), the decision workers (`Take` to
  `MarkDecided`), the extract workers (`TakeDetail` to `MarkExtracted`), the end
  of a run (`BuildSummary` to `RecordUniversity`), `Cancel` (Ctrl-C) and `Crash`.
* **Abstractions.** The graph is given by constants: `Links[n]` are the pages a
  decision about `n` may ask for, and the LLM picks any subset. The
  `FetchResults` stand for the classes that `classify_fetch_failure` and the page
  checks tell apart. The org unit and the node of one child are stored in one
  step. Edges, failure rows, `next_retry_at` (never set by the engine) and the
  rate throttle, which only delays a claim, are left out. Queue order is left out:
  a worker takes any queued node, which covers FIFO.
* **Bounds.** `engine_workers`: the least number of workers with which a page is
  in two hands under its two schemes, one attempt, one run. `engine_resume`: one
  worker of each kind, answers page, empty and transient, one attempt per node and
  two runs: enough for a kill at every point, its resume, and a reset before it.
  `MayRaise` is TRUE in both: a decision may raise at any time and kill its worker.
  Deadlock is not checked: after `MaxStarts` runs the process stays off.
* **Fairness** of `FairSpec`: the setup, the driver, each worker and the wrap-up
  keep running while they can. The event loop runs every ready task, and the LLM
  call and `fetch()` return (the HTTP client of the LLM has a default timeout; for
  the bridge this is `FetchReturns`). A decision worker that died stays dead: its run
  waits at the joins until it is interrupted, which is why `RunEnds` has that second
  outcome, and why `NothingStranded` counts only the driver and live workers as
  attending to a node (`Attended`) and names what a dead one left (`LeftByRaise`). `OpenFresh`, `OpenResume`, `Cancel` and
  `Crash` have none.

## CatalogRelease

Models the life of a graph build: `dext_graph/catalog/{workflow,curation,
graph_workflow,evidence,neo4j_sink,topic_workflow,topic_repair,vector_workflow,
vector_sink,lifecycle,maintenance}.py`. A command holds the catalog write lock
from its first write to its last, so at most one runs; what interleaves are its
separate transactions and writes to Neo4j and Qdrant with failures and kills, the
next commands with what a killed one left, and the one read that happens outside
the lock, in `resume`.

* **State.** Per build: `status`, the stage `run`s, `verdict` and `promo` are
  columns of the catalog; `snapped` stands for the registered snapshots; `links`,
  `profile` and `export` are catalog data, `neo` and `points` what the two stores
  hold; `uploaded`, `neoDone` and `pruned` the checkpoints and the flag of the
  compaction. `neoActive` and `alias` are what readers follow. `job` is the
  process with the lock and the point it has reached, `intent` a `resume` that
  has read the build and not yet the lock. `torn` is a history variable: the builds
  whose `repair-links` was killed before it rebuilt the exported relations.
* **Actions.** One per transaction or external write: `CreateBuild`, the steps of
  ingest, curation, graph, topic and vector stages, `FreezePart` and
  `NeoWritePart` (shared by the stages), `EnsureExports`, `Repair` and its two
  later steps, `Compact`, `ValidatePrepare`/`ValidateFinish`, and the four steps
  of a promotion; `StageFail`, `PromoteFail`, `IngestFailed` (an exception that a
  handler records) and `Crash` (a kill, or an exception nobody records).
* **Abstractions.** Data is reduced to the version of the topic links it was made
  from. "bad" links are the incompatible ones that `repair-links` exists for, left
  by an older release; `Legacy` builds start with them, complete and unvalidated.
  The partitions are grouped into the professor nodes, the five topic relations
  and the rest, and each group is frozen and written in one step. Canonical rows
  exist once curation is complete. Gates over data that is not represented (gold
  sets, provenance, organisation units) pass or fail nondeterministically. The
  three flags of `promotion_runs` are left out: no code reads them. Backups, disk
  checks, versions of rules and templates, and test switches are left out.
* **Bounds.** Two builds are needed for promotions that overlap in their effects
  and for a compaction (it always keeps one build); the one left by an older
  release is the one `repair-links` acts on. One fault, at any step, is one
  interrupted command and everything that may follow it. The proofs are for any
  number of builds, batches and faults.

## CatalogIngest and CatalogCuration

Model stages 1 and 2 of a build: `_run_build` and `_ingest_source` of
`workflow.py` with `source.py`, and `curation.py` with `overrides.py`. As in
`CatalogRelease` one process holds the write lock, a transaction is a step, and
the next command finds what a failed or killed one left.

* **State.** Of a build and university: `task`, `snap` (what its crawl database
  held when the snapshot was taken), `cursor` and `count` (the checkpoint of the
  ingest), `eligible`. Of the catalog: `seen` and `active` (an observation's
  `last_seen_build` and flag), `findings`; `ent`, `root` (where `merged_into_id`
  leads), `held` and `live` (the identity claims), `version` (the override
  manifest). Of a curation: `run`, `frozen` (the manifest it began with),
  `assign`, `claimed`, `canon`, and `at`, the checkpoints of the three passes. `late`
  is a history variable: the observations that other builds activated or deactivated
  since the run of the build began.
* **Actions.** `CreateBuild`, `BeginIngest`, `TakeSnapshot`, `SnapshotFails`,
  `SnapshotsDone`, `BeginSource`, `CommitRow` (`WriteObservation` or `RejectRow`),
  `Finalize`, `IngestFails`, `IngestDone`; `Prepare`, `AssignObservation`,
  `AssignRefused` (the unique index on strong claims), `DropStaleClaims`,
  `ClaimFields`, `Materialize`, `PassDone`, `CopyTombstones`, `Finish`,
  `CurationFails`; `Resume` and `Crash`; `RecordOverride` and `MergeEntities`,
  which people do when no command runs.
* **Abstractions.** A batch is one row, the finest the code can commit: a larger
  batch that fails leaves what an earlier kill leaves. Of a task's statuses only
  COMPLETED is told apart, the only one the code reads. The values of fields, and
  with them the wording of overrides, are left out; identity claims are a kind
  and a value.
* **Bounds.** Three builds, because an interrupted one may be resumed after a
  newer one and a third then finds what both left. The four databases are a person who
  leaves, one who arrives, a row that cannot be imported, and an incomplete crawl.
  IDs and source keys are in different orders. One fault, one override.

## SnapshotReadiness

Models the readiness check (`readiness.py`), the provider that repeats it and
hands out its result (`adapters/active_snapshot.py`) and the start of the service
(`runtime.py`), against the promotions of `CatalogRelease` reduced to the three
switches (`SwitchGraph`, `SwitchVector`, `SwitchCatalog`, each possible at any time).

* **State.** `store` is what the three stores name, `check` the check in progress
  (the build phase 1 read, the readbacks of phase 2 still out and what they saw),
  `cache` the snapshot and its age, `up` the life of the service, `flags` the
  coverage flags of the startup build, `gone` how long ago each build stopped being
  ACTIVE (history).
* **Bounds and fairness.** Ages saturate just above the last value compared.
  Time passes, a check that began ends, and its readbacks return, with success or
  not: each has a timeout. That a readback ever succeeds is not assumed.

## Recommendation

Models one recommendation from `ConversationDispatcher.dispatch` or
`RecommendationCore.recommend` to the cards, one step per await; between two steps
the served build may be refreshed and another promoted.

* **State.** `served` and `active` are the build handed out and the ACTIVE one,
  `req` the request (its pinned build, intent, filters, recall step, survivors of
  the strict and the relaxed search, anchor), `shown` the results of the session's
  turns, `turns` how many were asked.
* **Abstractions.** A build is a function from professors to their facts (visible,
  city, org unit), a constant of the model. Payloads in the vector store need not
  agree with it. Scores are abstracted to any order: hits, survivors and windows
  are sets, a cut-off keeps any part of the right size. What the LLM makes of a
  sentence is a choice. Of the failures, a port that raises and the total timeout
  are steps; what only changes a warning's text is left out.
* **Bounds.** Two builds, three professors, `Limit` 2, windows 1 and 3, two prior
  ids looked up (50 in the code) and three turns: one more person than fits, one
  more window than the first, one more result than is looked up.

## GroundedAnswers

Models the three mentor operations, the detail follow-up, the competition question
and comparison, and the three label operations over `dext_grounded`.

* **State.** `served` the build handed out, `job` the operation with its pinned
  build, the items read so far, its bundle and stage, `answer` the last answer.
* **Abstractions.** A fact item is the references it carries, whether a contact
  was found in it, and its size; a claim is its class, its references (a key, and
  whether the hash agrees), the indices it names, its tone (which safety patterns
  match) and whether its user context is real. The model's output is a set of such
  claims, because each stage of the pipeline (support map, `CitationValidator`,
  `SafetyGuard`) treats a claim by itself; what the stages do to it is computed.
  `Kept` is the loop of `trim`, `Affordable` its budget. What counts as support
  differs: the mentor operations refuse an index out of range and an item without a
  reference, the competition answers only the former. Wording and prompts are left out.
* **Bounds** (`MCConversations`). Two builds, two professors, two cards, four
  references, two claims, a budget of two tokens and one fact: both limits cut, a dropped claim leaves one,
  and a claim may name an item with and one without a reference.

## Conversations and RequestLedger

Models the rows of one owner, the transactions of `AppStateRepository` on them,
and the handlers of `api/routes/conversations.py` around a dispatch.

* **State.** `sess`, `turn`, `att`, `answers`, `idem` are the tables, keyed by the
  request id (which is the Idempotency-Key, and unique over attempts); `owner` the
  identity; `h` the request each handler is serving with what its open transaction
  has read.
* **Actions.** PostgreSQL runs the transactions at READ COMMITTED and the
  repository takes no row lock, so a transaction is two steps, its reads and its
  commit, and the ORM writes only the columns whose value differs from the one it
  loaded (`Set`). `AdmitRead`/`AdmitCommit`, `RetryRead`/`RetryCommit`,
  `CompleteRead`/`CompleteCommit`, `CancelRequest`/`CancelRead`/`CancelCommit`,
  `ForkRead`/`ForkCommit`; `AdmitFails` (a unique constraint or a lost connection);
  `Ack`, `Dispatch`, `Title`, `Interrupted`, `Signal` (the `AttemptRegistry`);
  `DeleteTree`, `EraseOwner`, `Crash`. A client may name any turn as the source of a
  fork (`SourceTurns`): `create_fork` looks for an existing fork and `create_session`
  for the source session, and nothing looks at the turn.
* **RequestLedger** is what the service promises of a request id, in a dozen
  lines: absent, open, closed, answered. It opens, answers and closes a request once;
  an answer to a closed one is a step of its own (`LateAnswer`), which the code takes
  and its design forbids. `Conversations` implements it under
  `LedgerTable`: an id is absent without an attempt, answered once its assistant
  message is stored, closed when its record completed without one. Everything
  else, the transactions, the handlers, the sessions, is hidden.
* **Bounds.** Two ids, two sessions, two handlers; every interleaving of two
  requests, and a retry of one by the other, before and after erasure. Request ids
  and handlers are interchangeable (`Symmetry`); the refinement is a safety
  property. Deadlock is off: ids run out.

## PreparationPlans

Models the plan repository, the assistant's history and an assistant turn, with the
client as environment: it edits its own copy of the plan and sends it whole over a
network that delays, repeats and loses requests and loses answers. One owner and one
plan id, since every key of the repositories holds both. A repository call never
suspends, so it is one step; an assistant turn waits for the model between reading
the plan and writing its history.

A plan is its time model, target day, revision, the date ranges of its phases and a
set of tasks; the drafts a client starts from are valid ones (`ValidPlan`, what
`validate_plan` demands), and a card's added task has an id of its own, as the client
gives it one. `StoredPlanValid` relates the stored plan to a draft: same model and
target, valid phases, and all its mandatory tasks. The operators are named `PlansInit`,
`PlansNext`, `PlansSpec`, so that the module can be extended together with
`PlanScheduler`.

Bounds: three keys (a repetition and two later writes), two turns at once, two
revisions, four turns of history, two cards (`MCCompetition`). The client may rest at any
time, which is a stutter of the run.

## PlanScheduler

Models one `PreparationPlanGenerator.generate` call: validation, the calendar
ranges, the due dates, the personalization. The loops of the scheduler are steps,
so that what they maintain can be stated and proved. Weights are percentages, a
tie of `round()` is left open, the weekly budget is compared in hours times seven.
The weekly hours bound the optional tasks only: a mandatory task is placed whatever it
takes. Bounds (`MCCompetition`): 181 requests over both time models, windows of 0 to 22
days (too short for the phases, exact, and a rounding tie), blocked days, few and many
hours.

## Proofs

Eight proof modules, each assuming only the named assumptions of the module it is
about, which TLC evaluates on every run. They cover every safety property of the runs but the two
that are refuted, and two that no run repeats: that the browser's saved state is the
running one between handlers (`SavedWhenIdle`), and that an answer called grounded had
every stated fact supported (`GroundedIsSupported`).
Besides types, the assumptions say that `None` is no job of the browser's cache, that
sets that are counted are finite (request ids, professors, universities, observations,
the bad rows of a crawl database) and what the code or its database guarantees (a
source ID is a primary key, a draft is valid, the limit of the history is even, the
fact limit of an operation is positive).

`BridgeProofs` is about both ends of the bridge. For `FetchBridge` it proves the type
invariant and the five safety properties of the bridge for any number of fetchers, jobs
and URLs and any timeouts. `NoOrphanJob` is
not inductive by itself: a discard is only sound if the job a fetch waits for is not
already answered, and `TimeoutWasHealthy` needs to know how much live time the clock
of a waiting fetch stands for. The invariant adds where a job of each status is, that
a job has at most one waiter, and the relation between `elapsed`, `since`, `hbAge`
and `healthy`.

For `BrowserController` it proves `NoStaleWork`, `SavedWhenIdle`, `PostedWasAccepted`
and `OneSubmitPerPage`, for any jobs, budgets and numbers of requests and kills. All
four speak of what a handler leaves behind, while the code is interrupted at every
await and a kill puts an older state back. `ControllerInv` therefore says

* `Sound` of the state in memory and of the one on disk: the pending RPC belongs to the
  job, a capture was accepted for the document it names, and a form is prepared only in
  a page that has reported ready and was not asked yet. It holds of both, so a kill
  loses nothing that is needed;
* `InHand`: the awaits left are of a few shapes. Before a message is sent the state is
  saved (`Fresh`, `Later`), and when it is, memory and disk agree (`Saved`). From this
  follow `SavedWhenIdle` and that an RPC survives the kill after it;
* `Reports`: a document reports ready once, after it is loaded; `Forms`: a page is asked
  to submit only after that, by one message. Together they are why the resend of an RPC
  and the second delivery of an event submit no form twice.

The lemmas go from what one operator makes of a sound state (the funnel, the mutations,
the constructors of an answer) to one lemma per handler and one per await.

`CrawlEngineProofs` proves the type invariant, seven safety invariants and one
action property of the engine, for any graph, manifest, answers and number of
workers, runs, crashes and resets. The inductive invariant `EngineInv` has 24
parts. Besides the properties themselves:

* the shapes (`DriverShape`, `DeciderShape`, `ExtractorShape`, `QueueShape`) say
  what a program counter implies about the node in hand; a worker could otherwise
  mark a node it does not hold;
* `SetupIdle`: until the crawl begins nothing is in hand, so resets and resumes
  disturb no worker;
* `SentinelsLast`: a worker leaves the loop only after the driver has put the sentinels,
  when the queues are empty. With it, and with the nodes of dead decision workers kept
  apart, `NothingStranded` says who will settle a claimed node;
* `SavedFirst` and `ChildrenKept`: what a worker is about to record is already
  stored. They are why `DoneDetailSaved` and `NoLostChild` survive the final mark;
* `RowsHeld`: a running attempt belongs to a worker, or to a dead process;
* `PendingFresh`: a pending node was not attempted in this run and has attempts
  left, so the driver loop does not exit before it (`NonePending`);
* `QuietAfterwards` and `ExitsAtClosing`: after the exit test passes, idle workers
  with empty queues stay idle until their sentinels, so the summary is not
  outdated when it is stored (`NoneLeft`, which gives `CompletedIsComplete`).

There is one lemma per part (the part is kept by every step), with a case per
group of actions; `Frames` states which variables each group leaves alone.

`ConversationsProofs` proves `RecordFollowsAttempt` and the refinement of
`RequestLedger`, for any number of requests, sessions and handlers. Neither is
inductive, because a transaction writes what it decided from rows it read earlier.
`LedgerInv` says how far such a view can be out of date (`Means`): an attempt seen
ended has ended, or the owner is erased; a handler that streams finds no answer
yet; an admission past its reads of an erased owner is aimed at an erased session.
`OneStream` says that one handler streams an attempt, which is why its answer is
the only one, and `Erased` that nothing is admitted after `delete_remote_data`. The
transactions are grouped by what they do to an attempt: `OpenStep`, `CloseStep`,
`SessionStep`, `PastStep`. For the refinement, `LedgerMove` maps a change of one
attempt to `Open`, `Close`, `Answer` or `LateAnswer`; erasure is `Erase`; every other step
stutters.

It also proves `TurnsDense`. A new turn gets the number after the last one, which is
the number of the session's turns only while they are dense, and they stay dense only
if no transaction with an old view brings a deleted turn back. `TurnsInv` adds this: a
turn belongs to the attempt of its own key, and an attempt to a turn that exists
(`Linked`); the turn a handler read with its attempt is still that attempt's
(`SeesTurn`), so a completion or a cancellation updates a turn that exists.
`NextIsCount` and `DenseGrows` are the counting lemmas, `ViewServe` and its like say
what a handler can have in view after a step.

The same module proves `AnswersGrounded` and `GroundedIsSupported` of the generation
that conversations ask for, for any builds, facts, cards, budget and model output,
however often the served build changes. An answer is given long after its facts were
read, so `GroundedInv` says of the job in between that its bundle holds only facts of
the pinned build about the professors read so far, all of them shown there (`Pinned`),
and once trimmed none with a contact (`Trimming`). `MentorSupportResult`,
`ContestSupportResult`, `CitationResult` and `SafetyResult` say what each stage of the
pipeline keeps: no stage adds a reference that is not in the bundle, and no stage
removes a code. `KeptElements` says what the loop of `trim` can return. It needs
induction, which is done without an induction rule: a set of numbers has a least one
(`LeastNumber`), so there would be a shortest prefix on which the loop goes wrong. The
same argument shows that the recursive function exists (`TakingExists`).

`SnapshotReadinessProofs` proves `ServedWasActive` for any builds and any limits.
`ServedInv` bounds how long ago the build of a check, and of the cache, was ACTIVE
by the age of the check and of the cache; the two add up to `Horizon`.

`CatalogReleaseProofs` proves the type invariant, three safety invariants and the
action property of releases, for any builds, batches and faults. None of the three is
inductive: a build is only READY because of a vector run completed earlier, and
DivergenceRecorded would not survive a repair of a build with a promotion on record.
`ReleaseInv` adds

* `JobPlaces` and `WorkIsMarked`: where the process with the lock can stand, and that a
  stage past its first transaction has marked its run RUNNING and its build as not
  releasable, so that a kill anywhere in it leaves nothing that validates;
* `UploadInOrder` and `UploadsCurrent`: the batch under way is the one after the
  checkpoint; once topics are complete every profile up to the checkpoint was made from
  the links, and a completed vector run has left none out;
* `SafePromotion`: the links of a build that was validated or promoted are compatible,
  so `repair-links`, which erases the promotion record, finds nothing there;
* `DoneHasRows`: a partition with a checkpoint has rows;
* `TopicInv`: topic relations in the export are of the links the catalog holds, except
  while a repair stands between its downgrade of the links and its reset of the export,
  and in `torn` builds, where it was killed there; and a released build has them in Neo4j
  (`TopicsFollowLinks`).

`CatalogCurationProofs` proves the three properties of ingest and curation for any
builds, universities, crawl databases and claims, any number of faults, merges and
overrides. `IngestInv` says what is left of a loop over the tasks (`IngestJob`,
`TasksDone`), that nothing is counted before there is a snapshot (`Fresh`), and that
the snapshot of the build that has seen an observation last holds its row
(`SeenInSnapshot`), from which `DeactivationJustified` follows. `CurationInv` says where
merges lead (`Roots`), that no entity of a run was merged while the manifest is the
run's own (`Unmerged`), what the checkpoint of each pass promises (`Passed`) and what
the process has made sure of when a pass begins (`CurationJob`). The promise is about
`Mine`, the active observations that no other build touched since the run began: behind
a checkpoint there may be one that another build activated, and it stays unassigned.
`Assigned`, proved beside it, is the other way round: what is assigned is active, or was
deactivated by another build.

`RecommendationProofs` proves the three properties of recommendations for any catalog,
payloads, limits, windows and number of turns. A response depends on what the stages
before it left in the request; `RecommendationInv` states it: the earlier results were
looked up, all of them when they fit (`LooksBack`), whoever must not be recommended is
excluded (`Excludes`), strict survivors pass with the city and the others without it,
and there are others only when the strict ones did not fill the page (`Survived`).
Window, rerank and cards keep it because each takes the strict ones first.

`CompetitionPlansProofs` is about `PlanScheduler` and `PreparationPlans`. `DraftSound`
holds for any requests and generated output; weights and tasks are the templates'.
`SchedulerInv` says that the phases placed so far tile the days up to `cursor`, that the
days left are at least the phases left (which needs both the `max(1, ...)` and the cut
to the days the later phases need, although neither ever acts with the shipped
weights), and that the tasks placed so far are in their phases and within the hours.

`AppliedOnce`, `HistoryPaired` and `StoredPlanValid` hold for any drafts, cards, keys,
concurrent turns and even history limit. A change card is validated against one plan
and applied to another, the client's copy of that moment, so its safety cannot be
stated about either: the invariant says that one draft exists from which every copy in
the system has `Grown` (stored, sent, answered, shown to the assistant), and that every
pending card is `Harmless` for all plans grown from it. `KeysCount` ties the recorded
answers to the writes that took effect; `HistoryWhole` says that the history is whole
exchanges, which a full list keeps because two turns in push two turns out.

Model-checked only: `FetchReturns`, `RunEnds` and `SplitFailsClosed`, because liveness
under fairness is out of the prover's reach.

## Observations

Behaviours the models reach that no property forbids; each is what the code does.

Crawl: a failed fetch is stored in `page_cache`, and the next attempt of the node
is answered from it without asking the browser (`driver.py:201`), although
`retry.py:37` calls the failure a retryable transient. The decision worker has no
`except` (`driver.py:163`): when the LLM call raises, its task ends, and
`engine.run` waits in its `finally` for a queue that nobody empties (the second outcome of
`RunEnds`). `--reset -oid`
sets the synthetic `about:org_unit:` nodes to pending as well, deletes pages shared
with another org unit, and deletes cached pages by node URL, so that the page of a
form-pagination node, cached under its identity URL, stays (`FormNodes`).

Releases: a promotion that fails between the Neo4j and the Qdrant switch
(`lifecycle.py:848`) leaves readers with two builds, nothing switches back, and the
readiness check refuses the mismatch (`SplitFailsClosed`), although the design says
the old ACTIVE build stays usable. `repair-links` downgrades links in one
transaction and rebuilds the export in others (`topic_repair.py:166`); killed in
between, its retry has nothing to do, and the build can be validated and promoted with
relations in Neo4j that its links no longer have (`torn`). While a curation is
interrupted, another build's ingest may activate observations behind its checkpoints,
which stay unassigned or without a canonical row, or deactivate the only observation of
a row already made (`late` in `CuratedConsistent`); the curation design (03, section 9)
has every active canonical row keep an active observation, for which the gate
`active_canonical_has_observation` (`lifecycle.py:200`) looks before a release, and a
resumed run end like one that was never killed, which holds as long as no other build
runs in between. An observation that comes back after another entity took its strong claim is refused by
`ux_identity_active_strong` in every later curation. The topic command accepts a build in
VALIDATING, moves it back to WRITING_VECTOR and returns because its run is
COMPLETED; the build stays there. `dext graph vector` on a build that failed in
stage 1 leaves a vector run, from which `resume` concludes that the topic stage is
next.

Browser: a form submission that ends in an HTTP error goes through the funnel, so
the list page is reopened and the form submitted again; an error page found at
capture navigates again without a budget (`controller.ts:637`, against three tries
in `funnel.ts`); late HTTP events without a bound request are taken for the new
attempt; PAGE_READY before the commit of its document is lost; a capture paused
with no pending RPC waits for the bridge's timeout; `unbind` keeps the pending RPC;
a kill between an override's POST and its save loses the override.

Conversations: a retry is admitted while the first attempt still runs, and
whichever completes last overwrites the turn (`repositories.py:552`); two
admissions at one revision may both succeed, although a test plan says only one
does; an ack that cannot be written, a dispatch that raises, or a kill leaves the
attempt queued and its record running for ever (`expires_at` is never read);
`create_fork` looks and inserts in two transactions, no constraint is on the rows, and a
second fork makes every later call raise, where the API contract (`api-contract.md:205`)
has concurrent duplicates return one fork; it also forks from a turn that is unfinished,
of another session or unknown, where the contract asks for a completed one.

Recommendation: a port failure that reaches `dispatch` is not caught there and
strands the attempt; `list_prior_entity_ids` keeps the oldest 50; detail queries
filter by rows active now, in any build; the coverage flags are those of the build
the service started with.

Grounded answers: the detail follow-up sends the untrimmed bundle; `SafetyGuard`
leaves the cited references of claims it dropped; a comparison that cites nothing
is given every reference of its bundle; a question may be grounded with no citing
claim. A competition claim that names one item with and one without a reference counts
as supported (`answer.py:59`), where a mentor claim would be dropped
(`generation_support.py:39`): by the mentors' rule `GroundedIsSupported` is false.

Plans: `create_or_replace_plan` accepts another plan with the stored revision; an
idempotency key answers for any operation and body; deleting a plan during an
assistant turn leaves a history without a plan; an accepted reschedule is not
checked against the other phases; cards are validated one by one against the same
plan. In the scheduler, `event_sprint` starts on the target day, which the last
phase before it has too.

## Not modelled

See `components` in `PROJECT.json` for every part with its reason. In the
modelled parts: the content of pages, prompts and answers, the selection of links
by the handlers (facets and their budget, pagination plans), which professor
records are the same person, HTTP parsing, logging, the loop over several
universities, profiles and consents of an owner, and the indexes of competitions.

## Plan

1. `CatalogWriter`: the bounded command queue and the dying writer task. Every
   caller is answered; success only for what was committed.
2. The decision centre, with the panel's part of the extension.
3. A refinement of `CrawlEngine` to a work ledger (a set of pages, each settled at most
   once) that hides queues, workers and processes.
