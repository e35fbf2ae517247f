-------------------------- MODULE PipelineWorkflow --------------------------
(* The Temporal workflow of one pipeline (pipelineWorkflow), the backfill   *)
(* child it runs (pipelineBackfill), the activities both call, the record   *)
(* of the pipeline in the store, and the API handlers that signal, cancel   *)
(* and delete it.                                                           *)
(*                                                                          *)
(* A workflow is a set of coroutines: main, and, inside Promise.all,        *)
(* liveLoop and reconcileScheduler; runBackfill runs in the last or in main.*)
(* Each variable named for a coroutine says at which await it is suspended. *)
(* An activation brings one job (a signal, a result, a timer, a             *)
(* cancellation), then the coroutines run until each is suspended again.    *)
(* What they do after a condition() holds is an action of its own; every    *)
(* job is guarded by Quiet, so none of these is ever pending when a job     *)
(* arrives.                                                                 *)
(*                                                                          *)
(* A sync state is abstracted to the number of backfill pages its source    *)
(* checkpoint accounts for: 0 is emptySyncState(), Pages is a finished one. *)
EXTENDS Naturals, Sequences

CONSTANTS
    Events,                  \* what arrives as a source_input signal
    WebhookEvents,           \* what arrives at the webhook endpoint
    LiveEventBatchSize,      \* LIVE_EVENT_BATCH_SIZE
    ContinueAsNewThreshold,  \* PIPELINE_CONTINUE_AS_NEW_THRESHOLD
    Pages,                   \* requests that a backfill takes
    MaxBackfills,            \* bound: backfills of a behaviour
    MaxToggles               \* bound: pause and resume signals

ASSUME WorkflowAssumption ==
    /\ {LiveEventBatchSize, ContinueAsNewThreshold, Pages} \subseteq Nat \ {0}
    /\ {MaxBackfills, MaxToggles} \subseteq Nat

VARIABLES
    main, live, reconcile, backfill,  \* where each coroutine is suspended
    inputQueue, paused, syncState, state, operationCount, \* locals of pipelineWorkflow
    batch,       \* the input of the live sync in flight
    childState,  \* syncState of the running or last pipelineBackfill
    write,       \* the status an updatePipelineStatus in flight will store
    status,      \* the pipeline's status in the store
    stored,      \* the pipeline's sync_state in the store
    accepted,    \* history: events the workflow was signalled with, in order
    synced,      \* history: events handed to a live sync that answered, in order
    acked,       \* history: events the webhook endpoint has answered 200
    toggles      \* counts against MaxToggles

coroutines == <<main, live, reconcile, backfill>>
locals == <<inputQueue, paused, syncState, state, operationCount, batch>>
storage == <<status, stored>>
history == <<accepted, synced, acked, toggles>>
vars == <<coroutines, locals, childState, write, storage, history>>

EmptySyncState == 0
NoStatus == "none"
Gone == "gone"
Statuses == {"setup", "backfill", "ready", "paused", "teardown"}

TypeOK ==
    /\ main \in {"announceSetup", "setup", "initialBackfill", "parallel",
                 "announcePause", "paused", "announceResume",
                 "announceTeardown", "teardown", "ended", "failed"}
    /\ live \in {"off", "wait", "sync", "returned"}
    /\ reconcile \in {"off", "wait", "backfill", "returned"}
    /\ backfill \in {"off", "announce", "child", "conclude"}
    /\ inputQueue \in Seq(Events) /\ batch \in Seq(Events)
    /\ paused \in BOOLEAN
    /\ syncState \in 0..Pages /\ childState \in 0..Pages /\ stored \in 0..Pages
    /\ state \in [setupComplete : BOOLEAN, backfilling : BOOLEAN,
                  backfillCount : Nat, teardown : BOOLEAN]
    /\ operationCount \in 0..ContinueAsNewThreshold + 1
    /\ write \in Statuses \cup {NoStatus}
    /\ status \in Statuses \cup {Gone}
    /\ accepted \in Seq(Events) /\ synced \in Seq(Events)
    /\ acked \subseteq WebhookEvents
    /\ toggles \in Nat

-----------------------------------------------------------------------------
(* Status and conditions *)

DerivePipelineStatus ==
    IF state.teardown THEN "teardown"
    ELSE IF paused THEN "paused"
    ELSE IF ~state.setupComplete THEN "setup"
    ELSE IF ~state.backfilling /\ state.backfillCount > 0 THEN "ready"
    ELSE "backfill"

\* The status is computed when the activity is called, not when it is stored.
EmitStatus == write' = DerivePipelineStatus'

\* Mutant: the threshold off by one.
RunInterruptedLate == paused \/ operationCount > ContinueAsNewThreshold
RunInterrupted == paused \/ operationCount >= ContinueAsNewThreshold

\* Mutant: the live loop waits for a full batch.
LiveReadyFullBatch ==
    main = "parallel" /\ live = "wait" /\ (Len(inputQueue) >= LiveEventBatchSize \/ RunInterrupted)
LiveReady == main = "parallel" /\ live = "wait" /\ (inputQueue # <<>> \/ RunInterrupted)
ReconcileReady == main = "parallel" /\ reconcile = "wait" /\ RunInterrupted
JoinReady == main = "parallel" /\ live = "returned" /\ reconcile = "returned"
ResumeReady == main = "paused" /\ ~paused

Quiet == ~LiveReady /\ ~ReconcileReady /\ ~JoinReady /\ ~ResumeReady

\* The workflow execution is open and has not been cancelled.
Active == main \notin {"announceTeardown", "teardown", "ended", "failed"}
Over == main \in {"ended", "failed"}
InBackfill == main \in {"initialBackfill", "parallel"} /\ backfill = "child"

Init ==
    /\ main = "announceSetup" /\ live = "off" /\ reconcile = "off" /\ backfill = "off"
    /\ inputQueue = <<>> /\ batch = <<>> /\ paused = FALSE
    /\ syncState = EmptySyncState /\ childState = EmptySyncState /\ operationCount = 0
    /\ state = [setupComplete |-> FALSE, backfilling |-> FALSE,
                backfillCount |-> 0, teardown |-> FALSE]
    /\ write = "setup" /\ status = "setup" /\ stored = EmptySyncState
    /\ accepted = <<>> /\ synced = <<>> /\ acked = {} /\ toggles = 0

-----------------------------------------------------------------------------
(* Signals and API handlers *)

\* An event is signalled under the name the workflow has a handler for.
SourceInput(e) ==
    /\ Quiet /\ Active
    /\ \A i \in DOMAIN accepted : accepted[i] # e
    /\ inputQueue' = Append(inputQueue, e)
    /\ accepted' = Append(accepted, e)
    /\ UNCHANGED <<coroutines, paused, syncState, state, operationCount, batch,
                   childState, write, storage, synced, acked, toggles>>

\* A verified webhook is signalled as stripe_event, a name without a handler:
\* Temporal keeps the signal and no code of the workflow ever sees it.
IngestWebhook(e) ==
    /\ Quiet /\ status # Gone
    /\ acked' = acked \cup {e}
    /\ UNCHANGED <<coroutines, locals, childState, write, storage, accepted, synced, toggles>>

\* PATCH with a desired_status, and the signal it sends.
SetPaused(value) ==
    /\ Quiet /\ Active
    /\ value # paused /\ toggles < MaxToggles
    /\ paused' = value
    /\ toggles' = toggles + 1
    /\ UNCHANGED <<coroutines, inputQueue, syncState, state, operationCount, batch,
                   childState, write, storage, accepted, synced, acked>>

\* DELETE cancels the workflow: every await throws and the teardown starts in
\* a scope of its own.
Cancel ==
    /\ Quiet /\ Active
    /\ state' = [state EXCEPT !.teardown = TRUE]
    /\ main' = "announceTeardown"
    /\ UNCHANGED paused /\ EmitStatus
    /\ UNCHANGED <<live, reconcile, backfill, inputQueue, syncState, operationCount,
                   batch, childState, storage, history>>

\* DELETE finds no workflow to cancel and removes the record itself.
DeleteStopped ==
    /\ main = "failed" /\ status # Gone
    /\ status' = Gone
    /\ UNCHANGED <<coroutines, locals, childState, write, stored, history>>

-----------------------------------------------------------------------------
(* Main *)

\* One turn of the main loop up to its first await.
MainLoop ==
    IF paused
    THEN /\ main' = "announcePause" /\ write' = DerivePipelineStatus
         /\ UNCHANGED <<live, reconcile>>
    ELSE /\ main' = "parallel" /\ live' = "wait" /\ reconcile' = "wait"
         /\ write' = NoStatus

\* runBackfill up to its first await.
RunBackfill(st) ==
    /\ backfill' = "announce"
    /\ state' = [st EXCEPT !.backfilling = TRUE]
    /\ UNCHANGED paused /\ EmitStatus

SetupDone ==
    /\ Quiet /\ main = "setup"
    /\ main' = "initialBackfill"
    /\ RunBackfill([state EXCEPT !.setupComplete = TRUE])
    /\ UNCHANGED <<live, reconcile, inputQueue, syncState, operationCount, batch,
                   childState, storage, history>>

\* Mutants: one of the arguments of continueAsNew is forgotten.
CarriedWithoutQueue == [syncState |-> syncState, inputQueue |-> <<>>]
CarriedWithoutState == [syncState |-> EmptySyncState, inputQueue |-> inputQueue]

\* What the next run of the workflow is started with.
Carried == [syncState |-> syncState, inputQueue |-> inputQueue]

\* Promise.all is settled: continue as new, or go round the main loop. The
\* next run finds setup and initial backfill done and enters the loop too.
Join ==
    /\ JoinReady
    /\ \/ /\ operationCount >= ContinueAsNewThreshold
          /\ operationCount' = 0
          /\ syncState' = Carried.syncState /\ inputQueue' = Carried.inputQueue
       \/ /\ operationCount < ContinueAsNewThreshold
          /\ UNCHANGED <<operationCount, syncState, inputQueue>>
    /\ MainLoop
    /\ UNCHANGED <<backfill, paused, state, batch, childState, storage, history>>

Resume ==
    /\ ResumeReady
    /\ main' = "announceResume"
    /\ write' = DerivePipelineStatus
    /\ UNCHANGED <<live, reconcile, backfill, locals, childState, storage, history>>

TeardownDone ==
    /\ main = "teardown"
    /\ main' = "ended" /\ status' = Gone
    /\ UNCHANGED <<live, reconcile, backfill, locals, childState, write, stored, history>>

-----------------------------------------------------------------------------
(* updatePipelineStatus answers, and the coroutine that called it goes on *)

StatusWritten ==
    /\ Quiet /\ write # NoStatus /\ ~Over
    /\ status' = write
    /\ UNCHANGED <<locals, stored, history>>

MainAnnounced ==
    /\ StatusWritten /\ write' = NoStatus
    /\ \/ main = "announceSetup" /\ main' = "setup"
       \/ main = "announcePause" /\ main' = "paused"
       \/ main = "announceTeardown" /\ main' = "teardown"
    /\ UNCHANGED <<live, reconcile, backfill, childState>>

ResumeAnnounced ==
    /\ main = "announceResume" /\ StatusWritten /\ MainLoop
    /\ UNCHANGED <<backfill, childState>>

\* The child starts from the state the parent holds, not the stored one.
BackfillAnnounced ==
    /\ Active /\ backfill = "announce" /\ StatusWritten
    /\ backfill' = "child" /\ write' = NoStatus
    /\ childState' = syncState
    /\ UNCHANGED <<main, live, reconcile>>

BackfillConcluded ==
    /\ Active /\ backfill = "conclude" /\ StatusWritten
    /\ backfill' = "off"
    /\ \/ main = "initialBackfill" /\ MainLoop
       \/ /\ main = "parallel" /\ reconcile' = "wait" /\ write' = NoStatus
          /\ UNCHANGED <<main, live>>
    /\ UNCHANGED childState

-----------------------------------------------------------------------------
(* The backfill child: pipelineSync until has_more is false *)

EndingState == IF childState < Pages THEN childState + 1 ELSE childState
HasMore == EndingState < Pages

\* A request answers and there is more: go on. (At a threshold of its own the
\* child continues as new, with its state as argument and no other local.)
BackfillStep ==
    /\ Quiet /\ InBackfill /\ HasMore
    /\ stored' = EndingState
    /\ childState' = EndingState
    /\ UNCHANGED <<coroutines, locals, write, status, history>>

\* The last request answers, the child returns, the parent takes its state.
BackfillDone ==
    /\ Quiet /\ InBackfill /\ ~HasMore
    /\ stored' = EndingState
    /\ childState' = EndingState
    /\ operationCount' = operationCount + 1
    /\ syncState' = EndingState
    /\ state' = [state EXCEPT !.backfilling = FALSE, !.backfillCount = @ + 1]
    /\ backfill' = "conclude"
    /\ UNCHANGED paused /\ EmitStatus
    /\ UNCHANGED <<main, live, reconcile, inputQueue, batch, status, history>>

-----------------------------------------------------------------------------
(* Inside Promise.all *)

BatchLength ==
    IF Len(inputQueue) < LiveEventBatchSize THEN Len(inputQueue) ELSE LiveEventBatchSize
NextBatch == SubSeq(inputQueue, 1, BatchLength)
RestOfQueue == SubSeq(inputQueue, BatchLength + 1, Len(inputQueue))

\* waitForLiveEvents goes on: take a batch and sync it, or give up.
LiveWakes ==
    /\ LiveReady
    /\ \/ /\ RunInterrupted /\ live' = "returned"
          /\ UNCHANGED <<inputQueue, batch>>
       \/ /\ ~RunInterrupted /\ live' = "sync"
          /\ batch' = NextBatch /\ inputQueue' = RestOfQueue
    /\ UNCHANGED <<main, reconcile, backfill, paused, syncState, state,
                   operationCount, childState, write, storage, history>>

\* The live sync answers. It was called without a state, so what it stores
\* grew from an empty one.
LiveSynced ==
    /\ Quiet /\ main = "parallel" /\ live = "sync"
    /\ live' = "wait"
    /\ stored' = EmptySyncState
    /\ synced' = synced \o batch /\ batch' = <<>>
    /\ operationCount' = operationCount + 1
    /\ UNCHANGED <<main, reconcile, backfill, inputQueue, paused, syncState, state,
                   childState, write, status, accepted, acked, toggles>>

\* A week passes.
ReconcileDue ==
    /\ Quiet /\ main = "parallel" /\ reconcile = "wait"
    /\ state.backfillCount < MaxBackfills
    /\ reconcile' = "backfill"
    /\ RunBackfill(state)
    /\ UNCHANGED <<main, live, inputQueue, syncState, operationCount, batch,
                   childState, storage, history>>

ReconcileReturns ==
    /\ ReconcileReady
    /\ reconcile' = "returned"
    /\ UNCHANGED <<main, live, backfill, locals, childState, write, storage, history>>

-----------------------------------------------------------------------------
(* Activities that do not answer, and failures *)

\* An attempt of pipelineSync stores its state but is timed out; the activity
\* is tried again.
SyncAttemptLost ==
    /\ Quiet
    /\ \/ InBackfill /\ stored' = EndingState
       \/ main = "parallel" /\ live = "sync" /\ stored' = EmptySyncState
    /\ UNCHANGED <<coroutines, locals, childState, write, status, history>>

\* An activity has used up its attempts, or a backfill ends as failed: the
\* workflow throws, and its child is terminated with it.
Fail ==
    /\ Quiet /\ ~Over
    /\ \/ main \in {"setup", "teardown"} \/ write # NoStatus \/ InBackfill
       \/ main = "parallel" /\ live = "sync"
    /\ main' = "failed"
    /\ UNCHANGED <<live, reconcile, backfill, locals, childState, write, storage, history>>

-----------------------------------------------------------------------------
Coroutines == LiveWakes \/ ReconcileReturns \/ Join \/ Resume
StatusAnswers == MainAnnounced \/ ResumeAnnounced \/ BackfillAnnounced \/ BackfillConcluded

Next ==
    \/ \E e \in Events : SourceInput(e)
    \/ \E e \in WebhookEvents : IngestWebhook(e)
    \/ \E value \in BOOLEAN : SetPaused(value)
    \/ Cancel \/ DeleteStopped
    \/ SetupDone \/ TeardownDone \/ StatusAnswers
    \/ BackfillStep \/ BackfillDone
    \/ Coroutines \/ LiveSynced \/ ReconcileDue
    \/ SyncAttemptLost \/ Fail

Spec == Init /\ [][Next]_vars

\* Workers run what has been scheduled. Nothing is assumed of the API, of
\* failures, of lost attempts, or of the weekly timer.
FairSpec ==
    /\ Spec
    /\ WF_vars(Coroutines) /\ WF_vars(StatusAnswers) /\ WF_vars(LiveSynced)
    /\ WF_vars(SetupDone \/ BackfillStep \/ BackfillDone \/ TeardownDone)

-----------------------------------------------------------------------------
(* Properties *)

\* Every event the workflow was signalled with is, once and in its order, in
\* a batch that was synced, in the batch in flight or in the queue: through
\* pauses, batches and the queue carried to the next run.
EventsInOrder == accepted = synced \o batch \o inputQueue

\* What the workflow knows of the backfill never goes backwards, whatever
\* live syncs store meanwhile, and the child never starts behind it.
SyncStateAdvances ==
    [][/\ syncState' >= syncState
       /\ backfill = "announce" /\ backfill' = "child" => childState' >= syncState]_vars

\* A resume that came before the reconcile scheduler looked left no live loop.
LiveLoopDead ==
    Quiet /\ main = "parallel" /\ reconcile = "wait" /\ live = "returned"

\* In the main loop and not paused, neither loop is gone while only the other
\* one waits: a pause that ended restarts both. (A test of the workflow:
\* "queues live events while paused and drains them after resume".)
ResumeRestartsLoops ==
    /\ ~LiveLoopDead
    /\ Quiet /\ main = "parallel" /\ live = "wait" => reconcile \in {"wait", "backfill"}

\* An accepted event is synced, unless the pipeline is paused, over, or its
\* live loop is dead.
LiveEventsSynced ==
    \A e \in Events :
        (\E i \in DOMAIN accepted : accepted[i] = e)
            ~> \/ \E i \in DOMAIN synced : synced[i] = e
               \/ paused \/ Over \/ LiveLoopDead

\* A pause that lasts stops everything, whatever it interrupts, and says so.
PauseHonoured == paused ~> ~paused \/ Over \/ (main = "paused" /\ status = "paused")

\* The stored sync_state is a full checkpoint: it does not lose what the
\* backfill had accounted for.
StoredCheckpointKept == [][stored' >= stored]_vars

\* A verified event is forwarded to the pipeline workflow.
AckedEventsReachWorkflow ==
    Active => \A e \in acked : \E i \in DOMAIN accepted : accepted[i] = e

\* With running workers every accepted event is synced and every pause honoured.
WorkflowGoesOn == LiveEventsSynced /\ PauseHonoured
=============================================================================
