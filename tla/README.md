# Formal model of the sync engine

TLA+ modules, TLC runs and TLAPS proofs about the program in `src/`: the engine
that copies the objects of a Stripe account, page by page, into a destination
(Postgres, Google Sheets), the service that schedules it, and the edge functions
that run it inside a Supabase project.

The guiding question is the one an operator asks of a sync: *is every object
there once the stream says it is complete, whatever was cut, retried, restarted
or reordered on the way?*

Contents: [1 Inventory](#1-inventory) - [2 Plan](#2-plan) -
[3 Modules](#3-modules-and-their-code) - [4 Runs](#4-runs) -
[5 Proofs](#5-proofs) - [6 Divergences](#6-where-code-and-documents-disagree) -
[7 Not modelled](#7-abstractions-and-what-is-not-modelled)

To reproduce: `tlc -config MC<Module>.cfg MC<Module>` for the run of a module,
`tlapm <Module>Proofs.tla` for its proofs.

## 1. Inventory

| Component | State it keeps | What is hard | Module |
|---|---|---|---|
| Range algebra (`protocol/src/utils/binary-subdivision.ts`, `reconcileRanges`, `progress/ranges.ts`) | none | boundary seconds, rounding, cursors inherited or dropped | `Ranges` |
| Stream backfill (`streamingSubdivide`, `iterateStream`, `fetchPageForRange`) | queue, in-flight map, range objects mutated in place | state shared between a generator and running fetches; resumption from a cut | `StreamBackfill`, `BackfillContract` |
| Engine sync loop, limits, Postgres `write()` (`engine.ts`, `pipeline.ts`, `state-reducer.ts`, `progress/reducer.ts`, `destination-filter.ts`, `takeThroughStates.ts`, `destination-postgres`) | `syncState`, buffers per stream, timers | a state must not overtake its records; a destination abandoned while it writes; what `has_more` is derived from | `SyncRun` |
| Live events (`source-stripe/src/index.ts`, `process-event.ts`, `src-events-api.ts`, `upsert.ts`) | events cursor, stream states, rows with their stamp | hand-over from listing to events, copies out of order, requests that write after they were cut | `LiveEvents` |
| Live inputs (`src-websocket.ts`, `src-webhook.ts`) | sockets, run loop, input queue, HTTP server | connections that close, go stale or are renewed while others open | `LiveInputs` |
| Requests to Stripe (`client.ts`, `retry.ts`, `rate-limiter.ts`, `util-postgres/rateLimiter.ts`, `withRateLimit`) | tokens, last refill, attempts | a bucket shared by streams and workers, retries of what was already done | `StripeRequests` |
| Google Sheets `write()` | buffers, row map, planned batch | rows move while values are stale, batches repeated or late | `SheetsWrite` |
| Google Sheets `setup()` | the document: tabs, headers, named ranges, rules | sixteen calls of which any may be the last | `SheetsSetup` |
| Pipeline workflows (`service/src/temporal`) | `paused`, `inputQueue`, `syncState`, operation count | signals at any moment, repeated activities, two loops storing one state | `PipelineWorkflow` |
| Pipeline resources (setup and teardown over service, engine and connectors) | records, webhook endpoints, spreadsheets, schemas | hooks nobody listens to any more, deletion during a setup | `PipelineResources` |
| OpenAPI parsing, catalog, Postgres schema | spec cache, tables | several processes on one cache and one schema, documents of different days | `SpecParser`, `Catalog` |
| Engine HTTP API, connector resolution, subprocess connectors | caches of connectors, processes, answers being written | clients that leave, processes that die, two requests resolving one connector | `EngineApi` |
| Supabase installer, edge functions, state store, migrations | schema, checkpoint rows, secrets, cron job | functions that outlive their client, workers that outlive the schema | `Supabase` |
| Account metadata, CLIs, rendering, logger, dashboard, visualizer, test tools | - | presentation and tooling | not modelled |

How they interact. `pipelineWorkflow` calls the `pipelineSync` activity, which
runs `engine.pipeline_sync` once per request and stores the `ending_state` of its
eof. `pipeline_sync` builds one chain of async generators: source `read` (one
`iterateStream` per stream merged by `mergeAsync`, live events drained between
pages, pages fetched through the rate limiter and `withHttpRetry`) ->
`limitSource` -> `enforceCatalog` -> destination `write` -> `takeLimits` -> the
reducers. The destination pulls; a checkpoint travels as a `source_state` message
behind the records it covers and becomes part of `syncState` only when it comes
out of the destination. The next request starts from what the client stored last.
The engine's HTTP API writes that chain's messages as an NDJSON answer; connectors
are objects in the process or processes on pipes. A Supabase worker is a client of
the source of its own, without the engine.

What makes each part correct:

* *range algebra*: a split, a trim and an added range together cover exactly what
  was still open; nothing that a cursor has passed comes back in reach.
* *stream backfill*: every object of the time range is delivered, held, or still
  covered by the checkpoint, at every moment a request may be cut;
  `range_complete` and `complete` are truthful; a request left alone ends.
* *engine*: a state comes out only after its records are durable; `has_more` is
  false only when every stream has a terminal status; a stream that has ended in a
  run is not read again in it.
* *live events*: the cursor leaves no unwritten event behind; an older copy never
  replaces a newer one.
* *live inputs*: one connection, every input taken once and in order.
* *requests*: the rate holds in every window; retries end; an abort ends requests.
* *Sheets*: one row per object under the right headers, whatever was repeated.
* *workflow*: no live event is dropped; a pause takes effect and ends; the stored
  state never goes backwards.
* *resources*: a running pipeline is set up; a teardown takes its own things, all
  of them.
* *catalog*: a spec is whole or not used; a table takes every conforming record.
* *API*: one connector per role, true answers, no process left behind.
* *Supabase*: a checkpoint covers only what was written; what is installed is
  complete, what is uninstalled is gone.

`PROJECT.json` lists every hazard at its line with the properties that would
catch it, or says why none does.

## 2. Plan

Most important behaviour first. **Done**: `Ranges`, `StreamBackfill` against
`BackfillContract`; `PipelineWorkflow`; `SyncRun`; `LiveEvents`; `SheetsWrite`;
`PipelineResources`; `SheetsSetup`; `Supabase`; `LiveInputs`; `StripeRequests`;
`SpecParser` and `Catalog`; `EngineApi`. Proved: see section 5.

Left, in this order:

1. `SequentialBackfill`: `paginateSequential`, the streams without a `created`
   filter (prefetch, `remaining[0]` after a reconcile); it should refine
   `BackfillContract` as well.
2. `desired_status` with API handlers of two steps in `PipelineWorkflow`.

## 3. Modules and their code

`PROJECT.json` maps every definition to its lines. What follows says how to read
the correspondence. In every module a *history* variable is one the program does
not have: it only records what the properties speak of. An operator commented as a
mutant or as a faulty form is there for the mutation runs and used by nothing else.

### `Ranges` - pure operators

Seconds are naturals, an ISO string stands for the second it denotes, a cursor is
the position of an object in the newest-first list (0 for `null`).

| Definition | Code |
|---|---|
| `Splits`, `Segment`, `Children`, `SubdivideRange` | `subdivideRanges`: pass-through without cursor, at the gte, or below `MinSegmentSeconds`; the newest child ends one second past the boundary and keeps the cursor |
| `Overlaps`, `Trim`, `UncoveredBelow/Above`, `ReconcileRanges` | `reconcileRanges` |
| `MergeRanges` | `mergeRanges` of the progress reducer |

### `StreamBackfill` - one stream, request after request

A request goes through the phases of `iterateStream`:

    idle -> await -> records -> status -> await ... -> final -> complete -> ended -> idle

| Variable | Code |
|---|---|
| `ranges` | the range objects of the running request; every other variable refers to them by index, as JavaScript does by reference |
| `queue`, `inflight`, `fetched` | `queue`, `inflightRanges`, settled promises of `inflight` |
| `event` | the `SubdivisionEvent` the loop is working on; its `remaining` is a set of references |
| `held` | `syncState.source.streams[stream]`: references, until the eof serialises it |
| `timeRange`, `status`, `completed` | time range (with the frozen ceiling), `status` and `completed_ranges` in `sync_run.progress` |
| `seen` | `totalEmitted` |
| `stored` | the `ending_state` and `has_more` the client keeps |
| `emitted`, `forgone` | history: delivered objects, and objects that no later request will look for |

| Action | Code |
|---|---|
| `NewRun`, `Continue` | `pipeline_sync` with a new or the same `run_id`: `stateReducer` initialize, `excludeTerminalStreams` |
| `Begin`, `SilentReturn`, `Resume` | the head of `iterateStream` up to `start` and the first `launchNext` calls |
| `FetchPageForRange`, `FetchRejects` | a response settles a promise, and moves the cursor of its range; or the call fails |
| `TakePage` | the generator resumes: requeue or split, launch, then yield with `snapshotRemaining` |
| `TakeFailure` | `catch` in `listApiBackfill`: `skip` or `error` |
| `EmitRecord`, `EmitState`, `EmitRangeComplete` | the messages of a page; the last one also decides `backfill_limit` |
| `Drained`, `EmitFinalState`, `EmitComplete` | the end of the stream |
| `Eof` | the eof of `takeLimits` / `pipeline_sync`, by itself after `ended`, or at any earlier message |
| `Crash` | a request that never answers |

`TakePage` is one step because the code between two awaits is. A fetch settles in
a step of its own, in any phase: that is the interleaving the code is exposed to
even with its concurrency of one, since it launches the next fetch before it
yields a page.

`BackfillContract` is what the caller may rely on. Objects are delivered one by
one; `complete` only when the scope is delivered or was abandoned (a cut with
fetched pages in hand, or `backfill_limit`); a crash takes back the caller's view
and never a delivery. `StreamBackfill` implements it under the mapping at its end.

### `SyncRun` - several streams through source, destination and engine

A stream is the list of its records in the order in which the source reads them; a
run may read those below its ceiling. A source state is the number of records it
accounts for. What happens inside a stream is `StreamBackfill`'s subject.

| Actions | Code |
|---|---|
| `NewRun`, `Continue` | `pipeline_sync_batch` / `pipeline_sync` with `stateReducer` initialize and `excludeTerminalStreams` |
| `SourceStarts`, `SourceRecord`, `SourceState`, `SourceComplete`, `SourceFails`, `SourceReturns`, `ConnectionFails` | what `listApiBackfill` yields, one message of look-ahead per stream (`mergeAsync`); a record is buffered, a full buffer flushed, a state fenced by a flush |
| `Flushed`, `FlushFails`, `FinalFlush` | `flushStream`: the batch is written, or its stream joins `failedStreams` and reports an error |
| `SoftLimit`, `TakenThroughStates`, `HardLimit`, `NoAnswer`, `Throws` | `limitSource`, `takeThroughStates`, `takeLimits` (the upstream closed without waiting) and the error eof |
| `Close`, `Eof`, `Abandon` | the eof; a destination still flushing goes on writing after it (`StillWritten`) |

### `LiveEvents` - from listing to events

One object per stream, whose version is the place of its last event in `history`.
Time has the grain of seconds because `event.created`, the Date of a response and
the stamp of a row have. `List`/`PageWritten` are a page that was fetched and later
reaches the table, `StartPoll`, `PollEvent`, `Polled` the polling of `/v1/events`,
`Receive` and `Drain` the websocket's queue, `Webhook` the service's request for one
webhook event, `HardLimit`, `Crash`, `WrittenLate` requests that are cut and may
still write. `Upsert` is the SQL that writes only newer rows.

Four variables are history, read by properties and by no guard: `unwritten` (events of
streams that had ended, which no row is due to), `erased` (streams whose row a deletion
removed), `heard` with `request.from` (which events the websocket of this request has
acknowledged).

### `LiveInputs` - websocket client, webhook server, input queue

Each action is one callback with all that its promises resolve at once. `Opens`,
`FailsToOpen`, `Closes`, `Stale`, `Renews`, `WakesUp`, `Stop`, `CloseClient` are the
run loop and the listeners of a socket; `Message`, `Request` push to the queue;
`DrainOne`, `Wait`, `Process` are the two consumers; `GoLive`, `Abort`, `End` are
`read()`.

### `StripeRequests` - bucket, retries, abort

A tick is the time in which the bucket gains one token. `Acquire` takes a token,
possibly one of the future (the deficit is the wait), `Wake` sends, `Succeed`,
`FailForNow`, `Fail`, `Retried` are what `withHttpRetry` does with an answer,
`Abort` the pipeline's signal, `Tick` the clock (never past a due timer: `Urgent`).

### `SheetsWrite`, `SheetsSetup` - the Sheets destination

`SheetsWrite` is `write()` on one tab: `Upsert`, `DeleteRecord`, `Buffer`,
`Reject` while the source is read; `Drained`, `Refresh` or `RefreshFails`,
`Planned` (updates, appends and moves from what was read), `Apply`, `ApplyRetried`
or `ApplyFails` in `flushAll`; `HardLimit` leaves a flush behind that goes on.
`SheetsSetup` is `setup()` as its sequence of API calls (`Steps`), each atomic at
Google: `CreateTabs` ... `WriteLinks`. A call may be repeated, a setup may die
between two calls, be started again, or go on beside its successor and a writer.
Columns are positions, as in the API.

### `PipelineWorkflow` - the workflow of one pipeline

Temporal runs a workflow as coroutines on one thread. `main`, `live`, `reconcile`
and `backfill` say at which `await` each is suspended; `backfill` is the frame of
`runBackfill`, called from `main` the first time and from `reconcile` later.

| Action | Code |
|---|---|
| `SourceInput`, `SetPaused` | the two signal handlers; `SetPaused` is also PATCH |
| `IngestWebhook`, `Cancel`, `DeleteStopped` | webhook endpoint, DELETE |
| `SetupDone`, `TeardownDone` | the answers of these activities |
| `MainAnnounced`, `ResumeAnnounced`, `BackfillAnnounced`, `BackfillConcluded` | `updatePipelineStatus` answers, and its caller runs to the next await |
| `BackfillStep`, `BackfillDone` | `pipelineSync` answers in the child; the child returns |
| `LiveWakes`, `LiveSynced` | `waitForLiveEvents` goes on; `pipelineSync` answers |
| `ReconcileDue`, `ReconcileReturns` | the weekly timer; the interrupted scheduler |
| `Join`, `Resume` | `Promise.all` settles, then the loop or `continueAsNew`; a resume |
| `SyncAttemptLost`, `Fail` | an attempt that stored its state and is repeated; attempts used up, or a failed backfill |

An activation delivers one job, then the coroutines run until all are suspended.
`LiveWakes`, `ReconcileReturns`, `Join` and `Resume` are what happens inside an
activation; every job is guarded by `Quiet`, so it finds none of them pending.

### `PipelineResources` - what a pipeline creates outside

`CreatePipeline`, `UpdatePipeline`, `DeletePipeline`, `DeleteStray` are the API;
`BeginSetup`, `SourceLists`, `SourceCreates`, `SheetsCreates`, `DestPrepares`,
`LateEnds`, `SetupTimeout`, `SetupFails`, `EndSetup` a setup attempt with both
hooks side by side; `BeginTeardown` ... `EndTeardown` a teardown. A hook that nobody
listens to any more (slot `late`) still runs to its end.

### `SpecParser`, `Catalog` - from a document of the API to tables

`SpecParser` is a module of operators: which paths are lists, which resources have
events, how a schema with references and compositions resolves to fields, how
candidate types merge, what the Postgres columns are. `Catalog` runs several
processes over it: `ReadCache`, `FetchFromCdn`, `FetchFromGithub`, `OpenCache`,
`FillCache` (a cache file may stay torn between the two), `Parse`, `CheckEnums`,
`Migrate` table by table, `Write`, `Teardown`, `Publish` of new documents, `Die`.

### `EngineApi` - requests, connectors, processes

`Ask`, `Refuse`, `New`, `Resolve`, `SpecOf`, `Start` bring a request to its route;
`ConnectorSays`, `SourceGives`, `SourceStops`, `InputEnded`, `StreamEnds`,
`StreamFails`, `Garbage`, `PumpToTheDead` are messages, exits and pipes;
`HardLimit`, `SoftLimit`, `SetupLimit` the timers; `Leave`, `Pending`,
`ClosingEnds` a client that goes and what then unwinds.

### `Supabase` - installer, setup function, workers

`InstallBegins` ... `InstallMarks`, `UninstallBegins`, `Answer`, `LoseAnswer` are
the client; `SetupLooks` ... `SetupStoresSecret` the POST and `SetupUnhooks` ...
`SetupPurgesFunctions` the DELETE of the setup function, one step per statement
that another instance could see; `WorkerStarts`, `WorkerPrepares`, `WorkerWrites`,
`WorkerSaves` an invocation by pg_cron; `WorkerDies`, `InstanceFails` a function
that is killed.

`project` is what an install puts beside the schema: the three functions, `key`
(STRIPE_SECRET_KEY), `secret` (STRIPE_WEBHOOK_SECRET), `vault` and `cron`, the `queue`
stripe_sync_work, and `options`, the secrets that are only set if the user gives them
(`supabase.ts:443-453`). `Purged` and `Spared` are those of them that are and are not in
the list of `stripe-setup.ts:469-475`. An uninstall of what has no setup function gets a
404 and throws, which is a `failed` call as any other.

### `MC...` and `...Proofs`

Instances for TLC; theorems and their proofs, one module per component.

## 4. Runs

Twelve runs, one per question. A property written "A = B /\ C" is one definition
whose conjuncts are named operators of the module.

| Run | Instance | Properties and what they say |
|---|---|---|
| `backfill` | 4 objects, two of them in one second; one per page; 2 fetches at a time; `backfill_limit` 3; a time range that shrinks or grows on both sides; 2 requests | `TypeOK`; `WorkQueueCovers`, `CheckpointCovers`: nothing falls out of the queue, the held or the stored checkpoint; `RangeCompleteIsTruthful`, `CompleteIsTruthful`; `EmittedOnce`: no record twice in a request; `ImplementsContract`; `EveryRequestEnds` |
| `sync_run` | 2 streams, batches of 2, `state_limit` 2, 2 runs, 3 requests | `TypeOK`; `CommitFence`: the records that a state of `syncState` or of the client accounts for are in the table; `EofIsTruthful` = `CompletedIsWritten` (a stream reported complete has all its records written, or a lost batch) and `NoMoreMeansDone` (`has_more` false only with nothing left to read); `EndedStreamsStay`: a stream that has ended in a run is not read again in it |
| `live_events` | one object, 3 changes in 3 seconds, 4 requests with or without websocket | `EventsCovered` = `TypeOK`, `CursorCovers` (every event between the start of polling and the cursor has reached its row, in its own or a later version) and `ReceivedIsWritten` (every event the websocket has acknowledged waits in the queue or has reached its row), but for the losses below; `RowsOnlyAdvance` |
| `live_inputs` | websocket, webhook server or both; 3 connection attempts, 3 events | `InputsAreSound` = `TypeOK`, `TakenInOrder`, `AnswersAreTrue` (200 only for what was processed); `ConnectionsAreSound` = `OneConnection` (one open socket is heard) and `EndsQuietly` (after the end nothing is connected or pending); `InputsGoOn` = `Reconnects`, `WebhooksAreAnswered` |
| `stripe_requests` | three list calls, a GET and a POST; rate 1, one retry, back-off 1 to 2, 12 ticks | `RateKept` = `TypeOK`, `TokensWithinRate` (in every window), `FirstComeFirstServed`; `RetriesEnd` = `RetriesAreSafe` (a write is not sent again once it may have been carried out), `EndsInTime` |
| `sheets_write` | 3 objects of 2 versions, batches of 3, 2 requests | `TabSound` = `WriteTyped`, `OneRowPerKey`, `Compact`, `RowsKept`; `RowsNeverRegress`; `DeletesReachSheet` |
| `sheets_setup` | two streams, four layouts (grow, change of an enum, a column inserted), 3 setups, one fault | `SetupSound` = `SetupTyped`, `RowsAligned` (a value is under its header), `SetupConverges` (a setup that goes through alone leaves the document as a first one would), `SetupGoesThrough` (none is blocked by what another left); `EnumsKept` |
| `pipeline_workflow` | 3 events in batches of 2, threshold 3, 3 backfills of 2 requests, 3 pauses or resumes | `TypeOK`; `EventsInOrder`; `SyncStateAdvances`; `WorkflowGoesOn` = `LiveEventsSynced`, `PauseHonoured` |
| `pipeline_resources` | two pipelines (Sheets, Postgres) on two URLs, 3 attempts, one kind of disturbance | `RunningIsReady` = `ResourcesTyped`, `SetupIsReady`, `SecretMatches`; `NothingLeft`; `TeardownTouchesOwn` |
| `catalog` | two accounts, three versions, three documents; 2 setups, 2 faults | `SpecsAreSound` = `CatalogTyped`, `OnlyWholeSpecs` (a torn cache file is never used), `StreamsAreComplete` (every table that is listed and kept current is a stream); `TablesAreSound` = `ReadyTablesFit` (after a setup every conforming record can be written), `TenantsApart` |
| `engine_api` | a request of any operation beside one that shares the resolver, connectors in process and as processes, one message each | `OneConnector`; `StopsAfterOne`: at most one message is made for a client that left; `AnswersAreTrue`: an answer without error is complete, and an eof is said once and is last but for the notice of a failure; `NoProcessLeft`; `EveryRequestIsAnswered` |
| `supabase` | 2 workers, 2 instances of the setup function, 2 objects, 2 calls, 2 faults, MANAGEMENT_API_URL and RATE_LIMIT given | `CheckpointHasRows`: a checkpoint covers only rows that are there; `CallsKeepPromises` = `TypeOK`, `InstalledIsComplete`, `CallsGoThrough`, `UninstallCleans` (schema, functions, cron job, endpoints and secrets are gone, but for RATE_LIMIT, SYNC_INTERVAL and the queue) |

What `EventsCovered` grants, each of it a loss that the code has and section 6 lists:

* an event of a stream that had ended in this run is passed over (`unwritten`);
* an event of the very second the row is already stamped with is dropped by the strict
  `>` of the upsert (`LostToItsSecond`);
* a row that a deletion removed is brought back by an older copy (`Returned`), for a
  delete leaves no tombstone;
* for the cursor only, the second and later events of one second, which the next poll
  does not ask for (`FirstOfItsSecond`), and what happened before polling began.

Anything else that a cursor has passed is in the table, and anything else acknowledged is,
or waits in the queue of its request; what is waiting when a request is cut is lost.

Why the bounds are enough to be interesting:

* `backfill` uses ranges of about two hundred seconds, so the thirty-second
  threshold decides as in production: some ranges split, some pass through and are
  paged by cursor, some are exhausted at once. `PageSize` 1 makes every object a page
  boundary; two objects in one second put the boundary second of a split in both
  positions; two fetches are the least at which responses overtake each other and a
  checkpoint refers to a range being mutated; two requests are a cut and a resume.
* `sync_run`: two streams are the least at which one's state may overtake another's
  records and `failedStreams` separates them; batches of two leave a record in the
  buffer when the state arrives; three requests continue twice or start anew.
* `pipeline_workflow`: a threshold of three lets a run continue as new after two live
  syncs and a backfill, or one and two, with a queue left to carry; three backfills
  put a pause before, in and after a weekly one; batches of two split three events.
* `live_events`, `live_inputs`: three events allow one before, one during and one
  after a poll; three sockets an old one closing while a new one opens and a third.
* `sheets_write`: with three rows a delete in the middle moves the last row, and a
  second delete meets it; two requests are an abandoned flush beside a new one.
* `sheets_setup`, `pipeline_resources`, `supabase`, `catalog`, `engine_api`: two of each
  actor, and one fault (two where a fault of the first must meet one of the second);
  in `MaxFaults` of `pipeline_resources` each kind of disturbance may strike again.

Bounds on requests, events, faults and setups end a behaviour, and in every one of
these systems a run may be over, so no run checks for deadlock.

Each property has a mutant of the code in `PROJECT.json` that its run rejects: a
split that forgets the boundary second, a state that is passed on before its flush, a
deletion that forgets the abandoned hook, and so on.

Fairness is stated where a run checks liveness, and only there:

* `StreamBackfill`: `WF(Work)`: Node's event loop keeps running a request and an HTTP
  call is answered or fails within its retries. `WF(phase = "ended" /\ Eof)`: a source
  that returns lets `takeLimits` yield the eof. `WF(Continue)`: the caller loops while
  `has_more`. Nothing is assumed of cuts, crashes, failures or new runs. The stream's
  objects are fixed, so paging terminates.
* `PipelineWorkflow`: workers run what is scheduled, so each kind of activity answers
  and coroutines go on. Signals, failures, lost attempts and the weekly timer are not
  assumed to happen. `LiveEventsSynced` excepts a paused pipeline, one that is over,
  and one whose live loop is dead in the way section 6 describes.
* `LiveInputs`: the sleep of the run loop ends, a connection attempt ends one way or the
  other, `read()` goes on, the body of a request comes in. Sockets need not stay open,
  events need not arrive.
* `EngineApi`: `WF(Progress(r))`: what a request can do next without a client leaving or
  a connector misbehaving it does; a connector that runs says something or ends.
* `Supabase` (used by one configuration of section 6): clients, functions and workers go
  on, pg_cron invokes.

## 5. Proofs

TLAPS proves the following for every value of the constants that satisfies the
modules' named assumptions. These give types (positive batch sizes, finite sets) and
what the code itself has: `CreatedAssumption` (a list is newest first),
`StripeRequestsAssumption` (`BACKOFF_BASE_MS` is at most `BACKOFF_MAX_MS`),
`SetupAssumption` (the columns of a stream are distinct, none is the one of the links,
and a tab has room for that one beside them), `CatalogAssumption` and `StableTypes` (what
documents promise, see *Catalog* below). Two theorems also assume `TimeRangesMeet`, explained below.

| Module | Theorems | Property |
|---|---|---|
| `StreamBackfillProofs`, first part (about `Ranges`) | `SegmentsCover`: the children of a split cover their parent up to and including the boundary second. `ReconcileKeepsOpen`, `ReconcileAddsUncovered`: a reconcile keeps what was open, adds what was unaccounted. `SegmentsDisjoint`, `ReconcileDisjoint`: both keep ranges disjoint. `MergeInside`: merging progress ranges adds nothing | - |
| `StreamBackfillProofs` | `TypesCorrect`, `WorkQueueComplete`, `CheckpointComplete`, `CompletionTruthful`, `RangeCompletionTruthful`, `NothingEmittedTwice`, `BackfillImplementsContract` | `TypeOK`, `WorkQueueCovers`, `CheckpointCovers`, `CompleteIsTruthful`, `RangeCompleteIsTruthful`, `EmittedOnce`, `ImplementsContract` |
| `SyncRunProofs` | `SyncTypes`, `CommitFenceHolds`, `EofTells`, `EndedStreamsStayPut` | `TypeOK`, `CommitFence`, `EofIsTruthful`, `EndedStreamsStay` |
| `ClientProofs`, first part (about `StripeRequests`) | `RateIsKept`, `RetriesComeToAnEnd`, `AbortStopsRequests` | `RateKept`, `RetriesEnd`, `NothingAfterAbort` (checked by no run) |
| `ClientProofs`, second part (about `SheetsWrite`) | `TabIsSound`, `RowsStayNew`, `DeletesArrive`; `ResultIs`: what one batch makes of a table | `TabSound`, `RowsNeverRegress`, `DeletesReachSheet` |
| `ClientProofs`, third part (about `SheetsSetup`) | `SetupIsSound`, `EnumsStay`; `SetupInvariant` | `SetupSound`, `EnumsKept` |
| `LiveEventsProofs` | `EventsAreCovered`, `RowsAdvance` | `EventsCovered`, `RowsOnlyAdvance` |
| `EngineApiProofs`, first part | `ConnectorsAreMadeOnce`, `DisconnectStopsTheEngine`, `CleanAnswersAreTrue`, `NothingIsLeftRunning` | `OneConnector`, `StopsAfterOne`, `AnswersAreTrue`, `NoProcessLeft` |
| `EngineApiProofs`, second part (about `Catalog` and `SpecParser`) | `SpecsStaySound`, `TablesStaySound`, `TablesStay`; `ValuesFit`: what `inferType` makes of a schema has room for its values | `SpecsAreSound`, `TablesAreSound`, `TablesOnlyGrow` (checked by no run) |
| `PipelineProofs`, first part (about `PipelineResources`) | `RunningPipelinesAreReady`, `DeletionLeavesNothing`, `TeardownsTakeTheirOwn` | `RunningIsReady`, `NothingLeft`, `TeardownTouchesOwn` |
| `PipelineProofs`, second part (about `PipelineWorkflow`) | `WorkflowTypes`, `WorkflowKeepsEvents`, `WorkflowCheckpointAdvances` | `TypeOK`, `EventsInOrder`, `SyncStateAdvances` |
| `LiveInputsProofs` | `OneConnectionIsHeard`, `InputsAreTakenInTurn` | `ConnectionsAreSound`, `InputsAreSound` |
| `SupabaseProofs` | `CheckpointsCover`, `CallsKeepTheirPromises` | `CheckpointHasRows`, `CallsKeepPromises` |

The arguments, and why the properties alone are not inductive:

**`StreamBackfill`.** *Bookkeeping* is about the work-queue as a data structure: at
most `Concurrency` references in flight, queue and in-flight map disjoint and without
repetition, a queue waits only while something is in flight, every response belongs to
an in-flight reference and its cursor is the oldest object of its page. Without
distinctness a page taken from one list could still sit in the other, and `Drained`
could not conclude that nothing is left. *Coverage* says, for each place that accounts
for the run's objects, that what it no longer reaches was emitted, forgone or is in
hand: the queue (`QueueCovers`), the page event (`EventCovers`), the held checkpoint
(`HeldCovers`), the stored one (`StoredCovers`), the final phases (`FinalCovers`).
`CheckpointCovers` alone is not inductive: the checkpoint is a set of references, so
when a response moves a cursor one must know that the page now in `fetched` makes up
for it, and when a page is taken, that its children do. The arithmetic is in four
lemmas (`PageIsPrefix`, `FetchReach`, `SplitReach`, `ResumeReach`); each action has one
lemma per half.

Three more layers give the two properties of delivery. *Disjoint*: the ranges of the
work-queue, of the page event, and of the held and the stored checkpoint are pairwise
disjoint and inside their request's time range, and page data and cursors lie inside
their range (`Apart`, `Within`, `Tidy`, `PagesInside`; `ReconcileDisjoint` and
`SegmentsDisjoint` are the arithmetic). *Delivery*: what a cursor has passed was emitted,
forgone, or is in the page that carries the cursor; a range's last page completes it; at a
cut, what lies behind a held cursor is exactly what `Missed` names, because no other held
range reaches there. The progress ranges then grow only by what arrived, and
`MergeInside` says that merging them adds nothing. *Once* adds that what a page still has
to deliver was not emitted before, which is where disjointness is needed. Both theorems
assume `TimeRangesMeet`: no time range starts after another has ended. The engine only
ever sets `lt` (to the run's time ceiling, `engine.ts:311-327`), so its time ranges have
one start in common. TLC evaluates it for the runs' constants, and section 6 says what
happens without it.

**`SyncRun`.** `SyncInv` = `WellTyped`, `Durable` of `syncState` and of `stored.state` (the two
properties, per state), `NoMoreMeansDone`, `InHand` and `Reported`. `InHand` is why a
state may be passed on: what an open stream has read is in the table or its buffer
(`ReadIsHeld`), a flush is that of a stream that has not failed and the state that waits
for it accounts for exactly what the stream has read (`FlushInHand`), a stream whose
last state is read has nothing else in its buffer (`ClosedIsFenced`), a failed one has
lost its batch in this run (`FailedIsLost`). `Reported` is why `has_more` may be
believed: a stream that is over is terminal or has nothing left (`OverIsDone`), and
messages end only with the source, at a limit or with a failed connection
(`DrainedIsOver`).

**`StripeRequests`.** `WellTyped`, `CallsFit` (each call's time so far fits its phase and
its sends) and `BucketFits`: `Booked`, the last refill less the tokens, grows by one with
every grant, each grant is due no later than `Booked` was then, up to the bucket's size and
`MaxDelay` (`DueInTime`), and any two grants are as far apart in time as in number, up to
the same (`Spread`), which is `TokensWithinRate`. `MaxDelay` is the time between the start
of `acquire`'s transaction (whose `now()` is that start) and its turn on the row. With a
`MaxDelay` of 2 or more a request that waited for the row can be overtaken, by fewer than
`MaxDelay` others: `FirstComeFirstServed` says so. With the run's delay of 1, and in
memory, it is plain first come, first served.

**`LiveEvents`.** `TypeOK`, `Sorted` (history by time), `CopiesFit` (a copy anywhere in
the system, also one on its way of a request long gone, is a version of its object whose
stamp lies between that version's second and the next one's),
`CursorsReach`, `BackfillCursor`, `Polling` (what a poll has passed is `Covered`, what it has
not is still in `events`), `ReceivedIsWritten`. The comparison of stamps in the SQL keeps
versions in order only because of `CopiesFit`: a copy that does not replace a row of an
older version has the row's stamp, and so is of the row's second (`LostToItsSecond`). That
an event once `Covered` stays so is a lemma about every write: a row only advances, or is
deleted and thereby in `erased`, from where it either stays away or has `Returned`.

**`EngineApi`.** `Resolver` (schemas are a part of the cache, the cache of what was
found, and a connector was made once for each side cached) and `Requests`: every
request is `Good`, a conjunction over its record of `Shaped` (which stages go with which
streams, pumps and timers), `Stopped`, `Sound`, `Held` (a process lives only while its
stream or pump does) and `NoEof`; when it is over it has `Released` its processes, and
its client was told a clean end only then. Requests touch one another only through the
resolver, so one lemma per action says that a step keeps the acting request `Good`, and
one that the others do not change.

**`PipelineResources`.** `Inv` is `WellTyped` and, for every pipeline, `Good`. The
properties speak of the record and of what exists outside; between the two stand the hooks
that have answered but are not written back, hooks of an attempt that was given up, and a
teardown with its own copy of the config. `Attempted` says that an attempt works from a
record with neither secret nor spreadsheet, `Hooked` what each hook has made so far and
that only an attempt which timed out or failed leaves a late one, `Teared` that an undisturbed
teardown's config is the record's. `EndpointsKept` and `SheetsKept` say who knows of a
thing that exists: while a setup is in progress its awaited hook, then the record, and
there is one at most if nothing but an early deletion or a disabled endpoint happened
(`Smooth`). `Alone` (no other pipeline ever had the URL) holds earlier if it holds later,
since `used` only grows. A step of one pipeline leaves to the others their own state, and
of theirs outside disables or deletes an endpoint at most (`Rests`, `Outside`,
`GoodRests`); one lemma per action does the rest. `ResourcesAssumption` has that the user
who owns the endpoints this software did not make is no pipeline.

**`LiveInputs`.** Two invariants that meet in `source` only. `ClientInv`: the loop waits
only on an open connection which is the client's, is watched, and whose end it can be told
of; what connects or is open is the client's, and while it waits nothing is closing
(`Connected`); the client runs only for a `read()` that goes on, and without it nothing
connects or is open (`RunsForRead`). `OneConnection` alone is not inductive: the 'close'
handler of a socket, also of an old one, works on the client's own variables, and what
saves the new connection is that a closing socket never meets an open one. `QueueInv`:
`read()` holds an input exactly while it processes it and waits only on an empty queue
(`HandFits`), so an input handed to a waiter overtakes none.

**`PipelineWorkflow`.** The bound of `TypeOK` needs `OperationsBounded`: operations in
flight count too, because each loop tests the threshold only before it starts one.
`EventsInOrder` needs `BatchInFlight`: a batch is replaced only if none is held, which
needs that no sync is in flight outside the main loop. `SyncStateAdvances` needs
`ChildAhead`: the child never falls behind its parent.

**`Supabase`.** `Inv` = `WellTyped`, `Hollow` (a schema that is not there holds nothing),
`Covers` and `Kept`. `CheckpointHasRows` alone is not inductive: a worker carries a
checkpoint of its own, read before others wrote theirs, so `Covers` says the same of every
running worker's copy, for as long as the schema is of the generation it began with (a
worker that saves into a later one sets `foreign`), and that both speak only of objects
that exist. `Kept` is about the call in progress or the last one, if no instance of the
setup function was at work when it began: nothing but the awaited instance runs
(`Alone`), unless the client has been told of a failure while the instance goes on; each
step of an install, and of the `POST` it waits for (`Posted`), knows what the steps before
it have made; each step of a `DELETE` that nothing disturbed (`Deleting`) what is already
gone. What failed calls have left behind is in no conjunct: an install starts from any
state of the schema and the project. `SupabaseAssumption` has that no instance is the 0
with which the model says that a client waits for none.

**`SheetsWrite`.** `IInv` = `StateTyped` and `Undisturbed`. The three parts of `TabSound`
beside the types are not inductive one by one: that a batch leaves one row per object needs
that the row map it planned from was exact, and that the tab is still the one it read. So
`Undisturbed` says, while `clean`, that the tab is a table (`Sound`), that one flush at most
is under way, and that for a flush about to apply there is a table `read` from which its
plan was made, with the tab equal to it or to what the plan makes of it (`PlannedFrom`):
`withRetry` may send a batch twice, and `PasteTwice` has that the second time changes
nothing. The rest is about one batch. `PlanMakes` says what a plan makes of each row;
`MovesAre` and `FillersAre` are the counting behind it, the claim of a comment in `flushAll`
(`index.ts:701-703`) that the survivors of the tail are as many as the deleted rows above it;
`Origins` matches each row of the result with the row or the new key it comes from, one to
one, and from it follow that the result is a table, that it misses no object and shows no
deleted one, and that no row is older (`ResultIs`). `StateTyped` holds without `clean`: what
is written onto a tab leaves it one (`TabKept`), whatever flush planned it.

**`SheetsSetup`.** `SetupInv` = `Typed`, `Apart`, `Progress`, `Aligned` and `RulesKept`.
`SetupConverges` speaks of the end only. `Progress` says what a setup has brought about by
the time it is at each step (`Reached`, `ReachedHeaders`), also of a setup that is not alone,
because no call of any other setup of the same layout undoes it (`Kept`, one lemma per
call); and what a setup that nothing disturbed knows from its last fetch (`UpToDate`), from
which it follows that no call of it is refused. Two clauses look odd but are needed: a
document without Examples has no charts, and nothing is in a tab before it is there. The
header row is the one thing that a writer beside a setup may change, so it is promised only
to a setup that is alone or if there was no such writer. `Aligned` says where the layout has
what stands in a header and below it, and that the headers a writer has cached are those of
the tab; a new layout keeps it through `ColumnStays`. `RulesKept` is about names where
`readEnumValidations` and `setEnumValidations` work by position: the rule of a column stands
where the layout has the column, and between the check and the call nobody sets another.

**`Catalog`.** `CatalogInv` = `Files`, `Setups`, `TablesAre` and `ReadyAre`. That a table
fits the records of one document is not inductive, since other setups bring columns of other
documents. So `IsTable` says where a column comes from, some document that has the table
as a stream, and `WorkSound` which tables a setup has seen to, as long as no teardown has
come (`lost`): `Grown` has that no other step undoes it. That any document's column takes
any other document's values is then about documents alone (`ColumnsAgree`): `ValuesFit`,
`MergeAllIs` (a merge of types takes what each of them takes), `StableTypes`, and that a
nullable column is text and every generated column takes null. `SpecParser` follows
references and compositions by recursive functions. The library's theorems about those take
operators as parameters; `Recursion` and `RankInduction` state what is needed of them for
functions with a bounded rank, and are proved from the well-foundedness of `<`. The rank is
`Depths`: `WellFormed` asks that names are defined, that resources have a table, and that
references and compositions end. `resolveSchema` and `inferType` have no guard against
cycles and would not end on others; properties that refer to each other, as those of the
run's customers and invoices, are no such cycle. `StableTypes` is the one assumption
about several documents: section 6 says what happens without it.

Only model-checked: liveness under fairness, outside the prover's reach
(`EveryRequestEnds`, `WorkflowGoesOn`, `InputsGoOn`, `EveryRequestIsAnswered`). The modules
that are proved about use no recursive operator.

## 6. Where code and documents disagree

Each of these is a statement of a document, comment or test of the repository, written
as a definition, that TLC refutes; the configuration named reproduces it
(`tlc -config <cfg> <its MC module>`; where a configuration names two of them, with
`-continue`, which goes on to the other). They stand beside the runs of section 4.

* **A cut can skip a page** (`MCBackfillLosses.cfg`, `CutLosesNothing`). A state message is
  a list of references to live ranges; the next fetch is launched before a page is
  yielded, and moves its range's cursor when the response arrives. An eof serialised
  between that moment and the delivery of the page has moved past it, and nobody
  fetches it again. `docs/engine-refactor/sync-lifecycle-source-stripe.md:363-364` says
  of the state after each page that it "ensures resumability if the source is cut off
  mid-run". Everything else about the checkpoint holds up to exactly these pages: that
  is the `Undelivered` term of `CheckpointCovers` and the variable `forgone`. A
  connector run as a subprocess serialises its messages when it sends them.
* **A stream can stay `started`** (`MCBackfillLosses.cfg`, `StartedIsResumed`). A request
  cut after the last page's state and before `complete` leaves nothing to resume, so
  the continuation returns in silence (`src-list-api.ts:522`) with `has_more` false;
  `docs/engine-refactor/sync-lifecycle.md:193-194`: a stream ends with exactly one
  terminal status.
* **A run whose batch was lost can succeed** (`MCSyncWriteError.cfg`,
  `SucceededIsWritten`). A failing flush reports `stream_status: error`, then the
  source's later `complete` is passed on (`destination-postgres/src/index.ts:444-474`,
  `:525`) and overwrites it (`reducer.ts:148-173`); `sync-lifecycle.md:193-194`, `:247`.
* **Events between a backfill and the first poll are lost** (`MCLiveLosses.cfg`,
  `LiveHandover`): a first poll only sets the cursor (`src-events-api.ts:41-44`), against
  `docs/engine/ARCHITECTURE.md:291` and `docs/engine/scenarios.md:17`.
* **An acknowledged event can be dropped** (`MCLiveLosses.cfg`,
  `AcknowledgedIsInTable`). Of two changes of one object in one second, both received over
  the websocket, the second has the stamp that the row got from the first, and
  `upsert.ts:206-208` writes only where the stamp is strictly newer: the row keeps the
  older version until the object changes again. A page listed in that second does the
  same. `protocol.ts:62` calls the field one "whose value increases monotonically" by which
  stale writes are skipped, `docs/architecture/decisions.md:99` a gate "that destinations
  can rely on"; what is skipped here is not stale.
* **A move can undo an update of its own batch** in the Sheets destination
  (`MCSheetsDurable.cfg`, `DurableRecords`): a row that fills the hole of a deleted one is
  copied as it was read, before the updates of the same batch (`index.ts:704-715`), while
  the state that covers the update is passed on; the comment at `:805` says that
  checkpoints only advance once records are durable.
* **A resume can leave one of the two loops dead** (`MCPipelineResume.cfg`,
  `ResumeRestartsLoops`). A pause makes the idle loop return at once, the busy one only
  when it looks again. If the resume comes before that, the busy loop goes on,
  `Promise.all` (`pipeline-lifecycle.ts:153`) does not settle, and the other loop is not
  restarted until another pause or the threshold. A test is called "queues live events
  while paused and drains them after resume" (`workflow.test.ts:440`).
* **A live sync overwrites the stored checkpoint** (`MCPipelineCheckpoint.cfg`,
  `StoredCheckpointKept`) with one that grew from an empty state
  (`pipeline-sync.ts:41`), where the record promises the "latest full sync checkpoint"
  (`createSchemas.ts:131`). The workflow keeps its own (`SyncStateAdvances`); an ad-hoc
  sync is misled (`api/app.ts:485`).
* **A webhook event never reaches the workflow** (`MCPipelineWebhook.cfg`,
  `AckedEventsReachWorkflow`): the endpoint signals `stripe_event`, the workflow handles
  `source_input`.
* **A teardown can leave things behind** (`MCTeardownLeftovers.cfg`,
  `TeardownCleansUp`), for example a spreadsheet whose setup failed after
  `createSpreadsheet`; `docs/slides/architecture.md:349`.
* **Updates do not arrive through the Supabase webhook** (`MCSupabaseUpdates.cfg`,
  `UpdatesArrive`): `stripe-webhook.ts:70` yields `{body, signature}` while
  `src-webhook.ts:28` reads `input.headers['stripe-signature']`; the test
  `supabase.e2e.test.ts:115` expects them.
* **An uninstall leaves secrets and a queue** (`MCSupabaseLeftovers.cfg`,
  `UninstallLeavesNothing`). `install()` sets RATE_LIMIT and SYNC_INTERVAL if they are
  given (`supabase.ts:447-452`) and its script creates the queue `stripe_sync_work`
  (`:137-141`); the list of `stripe-setup.ts:469-475` has neither secret, and nothing drops
  the queue. A later install without the options runs with those of the earlier one. The
  test is called "should uninstall cleanly" (`supabase.e2e.test.ts:136`) and looks only
  at `isInstalled()`.
* **A failing source process can end as a clean answer** (`MCEngineFailure.cfg`,
  `SourceFailureIsTold`): the comment at `exec-helpers.ts:86-89` against
  `source-exec.ts`, whose error reaches the destination as an end of input (`:98`).

Smaller observations made while modelling, each kept in the models as the code has it:

* *Backfill.* If a request's time range starts after what the state accounts for has
  ended, `reconcileRanges` (`src-list-api.ts:224-231`) adds a range that reaches from the
  old end, outside the request's own range. A later, wider request then holds overlapping
  ranges and emits an object twice: `[0,100)`, then `[150,200)`, then `[0,200)`. TLC finds
  it when the configured time ranges do not meet. A run's time ceiling alone does not
  lead there, since it leaves the start alone.
* *Workflow.* The stored status can stay `paused` on a running pipeline: a backfill
  concludes during the pause, the resume comes before the main loop looks, and nothing
  writes a status until the next backfill or pause (`pipeline-lifecycle.ts:118,153`). A
  child that continues as new changes its run id (`pipeline-backfill.ts:29,50`) although
  the comment above relies on the id. The status `error` (`createSchemas.ts:14`) is
  never written.
* *Live events.* A live event's state `{eventId, eventCreated}` makes `parseSyncState`
  discard everything. Events of the same second that appear after a poll are skipped. The
  cursor passes events of streams that have ended in the run. A global state passes
  `write()` without a flush. A batch with one key twice fails its `ON CONFLICT`. Deletes leave
  no tombstone, so a late copy brings a row back. After a failed flush, later webhook
  events are acknowledged though dropped.
* *Live inputs.* `close()` while a socket is CONNECTING leaves the loop waiting. Events in
  the gap of a reconnection are lost; a websocket event is acknowledged before it is
  processed. A webhook taken by the drain before the live phase is dropped unanswered, and
  requests pending at an abort are never answered.
* *Requests.* A retry takes no token. The list fetch has neither signal nor time-out. A 2xx
  answer that is not JSON reads as an empty page, which ends its range.
* *Sheets.* A failed read goes on "without dedup" (`index.ts:564-569`); if the probe of
  the row count fails, appends start at row 1. `stream_status: complete` passes before
  the flush. "Fail loud on changed enum lists" (`:264`) fails after a column was inserted;
  "PK columns are the first N headers" (`:524-525`) is false. `RowsAligned` holds only
  while columns keep their place and no writer runs beside a timed-out setup: the
  property says so.
* *Resources.* A failed setup loses the webhook secret it got. A Sheets teardown without
  `spreadsheet_id` never succeeds. DELETE on an ended workflow removes the record without
  teardown. Setup's replacement of the config undoes a concurrent PATCH.
* *Catalog.* `x-expansionResources` is dropped on the way. A nullable `oneOf` becomes text. The
  guard against ghost tables cannot fire. A spec is cached under a version although it is
  of another day. Two setups of different accounts can both pass
  `assertEnumConstraintsConsistent`; the second silently keeps the first's CHECK
  (`index.ts:354-355`). Columns keep the type of the first spec (hence `StableTypes`, the
  one assumption about documents). Concurrent `CREATE TABLE` may fail with a unique violation.
* *API.* `StreamConfig` of `createSchemas.ts` lacks `time_range`, so the API strips it. An
  eof of a failure may be followed by a log and a connection status. A disconnect before
  the route runs goes unnoticed, and reaches the engine only with the next message. Check,
  setup, teardown, discover and batch have no abort signal; a setup that times out counts
  as a success. The pump waits for `drain` forever when a destination process dies. A stdout
  line that is not JSON leaves the process alive. A connector stays cached after its spec
  failed. `docs/plans/2026-04-09-client-disconnect-cancellation.md:16-17`.
* *Supabase.* What fails in the purges of an uninstall is only logged, and it answers
  with success. An uninstall repeated after one that went through throws. A webhook secret is lost between creation and `setSecrets`. Failed flushes are
  ignored. "Clear stale sync state" is undone by a worker that runs. Overlapping POSTs can
  drop an installed schema (`migrate.ts:220-228`). `skip_until` compares milliseconds with
  a timestamptz. `readAndParseComment` ignores its schema. The GET route queries columns
  that were removed.

## 7. Abstractions and what is not modelled

Everywhere: an id, a payload, a name is a number or a model value; wording, logging and
layout are left out; what runs between two awaits is one step.

In `StreamBackfill`:

* The objects of the stream do not change during a behaviour. New objects arrive
  above the frozen ceiling, and a page moves only if an object is deleted.
* The persisted `remaining` list is a set, and a resumed queue may be in any order:
  the order decides only which page comes first.
* The winner of `Promise.race` is any settled fetch.
* A message reaches the reducers when it is yielded: look-ahead and buffers are the
  subject of `SyncRun`. `start` and the first fetches are one step. An aborted request
  is a cut. With one stream, `has_more` is true exactly if the stream had not ended.
* States of the legacy format, streams without a `created` filter
  (`paginateSequential`, `src-list-api.ts:338-484`) are left out.

In `SyncRun`: a page is a number of records and a state; the time ceiling of a run is a
number of records, and a later run's is higher; columns, order of keys in a batch and the
rendering of progress are left out.

In `LiveEvents`: one object per stream; writes succeed (what a failed one does is
`SyncRun`'s subject); revalidation over the API and entitlement summaries are left out.

In `LiveInputs`: frame layout and signature checks are left out. In `StripeRequests`: a
response is its class; proxies and account metadata are left out. In `SheetsWrite`: one
tab; cells, the quota and sanitising are abstracted. In `SheetsSetup`: formats and texts; setups that
overlap have one layout (a new one begins only when none runs), so a check of one layout racing the calls of another is not seen.
In `PipelineResources`: the record's other fields. In `SpecParser` and `Catalog`: download
URLs, pruning, identifiers cut to 63 bytes. In `EngineApi`: bodies other than their
validity, the CLI's rendering, installing connectors from npm; one source and one
destination. In `Supabase`: Sigma and the status queries of the GET route; STRIPE_ACCOUNT_ID,
which the setup sets and an uninstall deletes beside STRIPE_WEBHOOK_SECRET, is not told
apart from it; in the run every install is given the same options, one that an uninstall
deletes and one that it does not, while the proofs are for any sets of them.

In `PipelineWorkflow`:

* An activation brings one job. Two signals in one activation are handled before
  any coroutine goes on; with several `paused` signals only the last one counts.
* `paused` stands for the last signal; `desired_status` and the two steps of a
  PATCH are left out.
* The child's own `continueAsNew` hands over its state and changes only its run id,
  which nothing in this module reads.
* An attempt that Temporal has given up on does not write later, except as the
  repeated effect in `SyncAttemptLost`; after a cancellation nothing of the
  cancelled scope runs.
* Storing the configs that connectors update is the subject of `PipelineResources`; the
  check of a webhook's signature is left out.
* `updatePipelineStatus` catches the error of a missing record, and while the workflow is
  open the record exists.

Not modelled at all, and why: account metadata (one lookup, cached per request), the CLIs
and rendering (clients that repeat what `SyncRun`'s client does), logging, dashboards,
reconciliation scripts and test utilities. `PROJECT.json` has the list.
