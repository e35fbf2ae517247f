------------------------------ MODULE SyncRun -------------------------------
(* pipeline_sync and pipeline_sync_batch over several streams, request      *)
(* after request: source read (mergeAsync) -> limitSource or                *)
(* takeThroughStates -> enforceCatalog -> the write() loop of the Postgres  *)
(* destination -> takeLimits -> stateReducer and progressReducer -> eof, and *)
(* the state that the client sends with its next request.                   *)
(*                                                                          *)
(* A stream is a list of records in the order in which the source reads     *)
(* them; a run may read those below its time ceiling, Records more than the *)
(* run before. A source state is the number n of records it accounts for,   *)
(* the run whose ceiling bounds its accounted_range, and whether `remaining`*)
(* is empty. What happens inside a stream is the subject of StreamBackfill; *)
(* here a page is a number of records followed by a state.                  *)
EXTENDS Naturals, FiniteSets

CONSTANTS
    Stream,       \* the streams of the catalog
    Records,      \* records that a run may read beyond the ones before
    BatchSize,    \* config.batch_size of the destination
    StateLimit,   \* state_limit of pipeline_sync_batch
    MaxRuns,      \* bound: run ids
    MaxRequests   \* bound: requests

ASSUME SyncRunAssumption ==
    /\ IsFiniteSet(Stream)
    /\ {Records, BatchSize, StateLimit} \subseteq Nat \ {0}
    /\ {MaxRuns, MaxRequests} \subseteq Nat

VARIABLES
    phase,      \* "idle", or the kind of the request that is open
    stored,     \* what the client keeps of the last eof
    syncState,  \* syncState of the open request
    src,        \* per stream, where iterateStream stands
    drained,    \* no more message comes out of the gate
    stopped,    \* sourceGate.stopped, hasMore of pipeline_sync_batch
    states,     \* stateCount of takeThroughStates
    buffer,     \* streamBuffers
    failed,     \* failedStreams
    flushing,   \* the flush the destination awaits
    table,      \* per stream, the records in its table
    unwritten,  \* history: <<stream, run>> of which a batch was lost
    runs, requests

source == <<src, drained, stopped, states>>
destination == <<buffer, failed, flushing, table>>
counters == <<runs, requests>>
vars == <<phase, stored, syncState, source, destination, unwritten, counters>>

-----------------------------------------------------------------------------
(* States, progress and messages.                                           *)

Ceiling(run) == run * Records

StreamStates == [n : Nat, run : Nat, empty : BOOLEAN]
NoStreamState == [n |-> 0, run |-> 0, empty |-> FALSE]

Active == {"not_started", "started"}
Terminal == {"completed", "skipped", "errored"}

Progress == [status : [Stream -> Active \cup Terminal], disconnected : BOOLEAN]
createInitialProgress ==
    [status |-> [s \in Stream |-> "not_started"], disconnected |-> FALSE]

SyncStates == [source : [Stream -> StreamStates], run : Nat, progress : Progress]
EmptySyncState ==
    [source   |-> [s \in Stream |-> NoStreamState],
     run      |-> 0,
     progress |-> createInitialProgress]

(* Mutant: a status of a stream leaks into the status of the run.           *)
deriveStatusSkipped(progress) ==
    IF \E s \in Stream : progress.status[s] = "skipped" THEN "skipped" ELSE "started"

deriveStatus(progress) ==
    LET status == progress.status IN
    IF progress.disconnected THEN "failed"
    ELSE IF \E s \in Stream : status[s] \in Active THEN "started"
    ELSE IF \E s \in Stream : status[s] = "errored" THEN "failed"
    ELSE IF Stream = {} THEN "started" ELSE "succeeded"

NoFlush == [stream |-> {}, why |-> "none", state |-> NoStreamState]
IsFlushing == flushing.why # "none"

(* excludeTerminalStreams: a continuation reads only these. *)
NotTerminal(progress) == {s \in Stream : progress.status[s] \notin Terminal}

(* A state that leaves nothing of the run's range: iterateStream returns    *)
(* at once, without a status.                                               *)
NothingRemains(state, run) == state.empty /\ state.run = run

TypeOK ==
    /\ phase \in {"idle", "sync", "batch"}
    /\ stored \in [state : SyncStates, hasMore : BOOLEAN,
                   status : {"none", "started", "succeeded", "failed"}]
    /\ syncState \in SyncStates
    /\ src \in [Stream -> [at : Nat, step : {"idle", "reading", "page", "closed", "over"}]]
    /\ drained \in BOOLEAN
    /\ stopped \in BOOLEAN
    /\ states \in Nat
    /\ buffer \in [Stream -> SUBSET (Nat \ {0})]
    /\ failed \subseteq Stream
    /\ flushing \in [stream : Stream \cup {{}},
                     why : {"none", "record", "state", "final"},
                     state : StreamStates]
    /\ table \in [Stream -> SUBSET (Nat \ {0})]
    /\ unwritten \subseteq Stream \X Nat
    /\ runs \in Nat /\ requests \in Nat

-----------------------------------------------------------------------------
(* The reducers.                                                            *)

SourceStateOut(s, state) ==
    syncState' = [syncState EXCEPT !.source[s] = state]

StreamStatusOut(s, status) ==
    syncState' = [syncState EXCEPT !.progress.status[s] = status]

-----------------------------------------------------------------------------
(* A request opens.                                                         *)

Over == [at |-> 0, step |-> "over"]

Open(kind, state, active) ==
    /\ phase' = kind
    /\ syncState' = state
    /\ src' = [s \in Stream |->
                 IF s \in active
                 THEN [at |-> state.source[s].n, step |-> "idle"] ELSE Over]
    /\ drained' = FALSE /\ stopped' = FALSE /\ states' = 0
    /\ buffer' = [s \in Stream |-> {}] /\ failed' = {} /\ flushing' = NoFlush
    /\ requests' = requests + 1
    /\ UNCHANGED <<stored, table>>

(* `initialize` without a state or with another run_id: progress and the    *)
(* time ceiling start afresh, the source state stays.                       *)
Initialize(state, run) ==
    [state EXCEPT !.run = run, !.progress = createInitialProgress]

NewRun(kind) ==
    /\ phase = "idle"
    /\ requests < MaxRequests /\ runs < MaxRuns
    /\ runs' = runs + 1
    /\ Open(kind, Initialize(stored.state, runs'), Stream)
    /\ UNCHANGED unwritten

(* The same run_id. *)
Continue(kind) ==
    /\ phase = "idle"
    /\ requests < MaxRequests /\ stored.state.run # 0
    /\ Open(kind, stored.state, NotTerminal(stored.state.progress))
    /\ UNCHANGED <<runs, unwritten>>

-----------------------------------------------------------------------------
(* The destination pulls a message. It reads while it does not await a      *)
(* flush; the message of any stream may come next.                          *)

Pulls ==
    /\ phase # "idle" /\ ~IsFlushing /\ ~drained
    /\ phase = "batch" => states < StateLimit

Unread == UNCHANGED <<phase, stored, drained, unwritten, counters>>

(* resolveAccountMetadata fails: connection_status, and the source returns. *)
ConnectionFails ==
    /\ Pulls
    /\ \A s \in Stream :
          \/ src[s].step = "idle"
          \/ /\ syncState.run = stored.state.run
             /\ s \notin NotTerminal(stored.state.progress)
    /\ syncState' = [syncState EXCEPT !.progress.disconnected = TRUE]
    /\ drained' = TRUE
    /\ UNCHANGED <<phase, stored, src, stopped, states, destination, unwritten, counters>>

SourceStarts(s) ==
    /\ Pulls /\ src[s].step = "idle"
    /\ IF NothingRemains(syncState.source[s], syncState.run)
       THEN /\ src' = [src EXCEPT ![s] = Over]
            /\ UNCHANGED syncState
       ELSE /\ src' = [src EXCEPT ![s].step = "reading"]
            /\ StreamStatusOut(s, "started")
    /\ UNCHANGED <<stopped, states, destination>> /\ Unread

(* write(), a record: skipped for a failed stream, buffered, and passed on  *)
(* at once unless its batch is full.                                        *)
Buffer(s, record) ==
    IF s \in failed
    THEN UNCHANGED destination
    ELSE /\ buffer' = [buffer EXCEPT ![s] = @ \cup {record}]
         /\ flushing' = IF Cardinality(buffer[s]) + 1 >= BatchSize
                        THEN [stream |-> s, why |-> "record", state |-> NoStreamState]
                        ELSE flushing
         /\ UNCHANGED <<failed, table>>

SourceRecord(s) ==
    /\ Pulls /\ src[s].step \in {"reading", "page"}
    /\ src[s].at < Ceiling(syncState.run)
    /\ src' = [src EXCEPT ![s] = [at |-> @.at + 1, step |-> "page"]]
    /\ Buffer(s, src[s].at + 1)
    /\ UNCHANGED <<syncState, stopped, states>> /\ Unread

(* Mutants: a state overtakes the records before it; the states of a failed *)
(* stream are passed on.                                                    *)
FenceWithoutFlush(s, state) ==
    /\ IF s \in failed THEN UNCHANGED syncState ELSE SourceStateOut(s, state)
    /\ UNCHANGED destination
FenceOfFailed(s, state) ==
    IF buffer[s] = {}
    THEN SourceStateOut(s, state) /\ UNCHANGED destination
    ELSE /\ flushing' = [stream |-> s, why |-> "state", state |-> state]
         /\ UNCHANGED <<syncState, buffer, failed, table>>

(* write(), a stream state: skipped for a failed stream, passed on once the *)
(* buffer of its stream is written.                                         *)
Fence(s, state) ==
    IF s \in failed
    THEN UNCHANGED <<syncState, destination>>
    ELSE IF buffer[s] = {}
    THEN /\ SourceStateOut(s, state)
         /\ UNCHANGED destination
    ELSE /\ flushing' = [stream |-> s, why |-> "state", state |-> state]
         /\ UNCHANGED <<syncState, buffer, failed, table>>

SourceState(s) ==
    LET all == src[s].at >= Ceiling(syncState.run) IN
    /\ Pulls
    /\ src[s].step = "page" \/ (src[s].step = "reading" /\ all)
    /\ src' = [src EXCEPT ![s].step = IF all THEN "closed" ELSE "reading"]
    /\ Fence(s, [n |-> src[s].at, run |-> syncState.run, empty |-> all])
    /\ states' = IF phase = "batch" THEN states + 1 ELSE states
    /\ stopped' = (stopped \/ (phase = "batch" /\ states' >= StateLimit))
    /\ Unread

SourceComplete(s) ==
    /\ Pulls /\ src[s].step = "closed"
    /\ src' = [src EXCEPT ![s] = Over]
    /\ StreamStatusOut(s, "completed")
    /\ UNCHANGED <<stopped, states, destination>> /\ Unread

(* The catch of listApiBackfill. *)
SourceFails(s) ==
    /\ Pulls /\ src[s].step \in {"reading", "page"}
    /\ src' = [src EXCEPT ![s] = Over]
    /\ \E status \in {"skipped", "errored"} : StreamStatusOut(s, status)
    /\ UNCHANGED <<stopped, states, destination>> /\ Unread

-----------------------------------------------------------------------------
(* The end of the messages: the source returned, soft_time_limit fired in   *)
(* limitSource, or takeThroughStates has let its last state pass.           *)

SourceReturns ==
    /\ Pulls /\ \A s \in Stream : src[s].step = "over"
    /\ drained' = TRUE
    /\ UNCHANGED <<phase, stored, syncState, src, stopped, states, destination, unwritten, counters>>

(* Mutant: the end that the limit made looks like the end of the source.    *)
SoftLimitAsEnd ==
    /\ phase = "sync" /\ ~drained /\ ~IsFlushing
    /\ drained' = TRUE
    /\ UNCHANGED <<phase, stored, syncState, src, stopped, states, destination, unwritten, counters>>

SoftLimit ==
    /\ phase = "sync" /\ ~drained /\ ~IsFlushing
    /\ drained' = TRUE /\ stopped' = TRUE
    /\ UNCHANGED <<phase, stored, syncState, src, states, destination, unwritten, counters>>

TakenThroughStates ==
    /\ phase = "batch" /\ ~drained /\ ~IsFlushing /\ states >= StateLimit
    /\ drained' = TRUE
    /\ UNCHANGED <<phase, stored, syncState, src, stopped, states, destination, unwritten, counters>>

-----------------------------------------------------------------------------
(* flushStream.                                                             *)

FinalFlush(s) ==
    /\ phase # "idle" /\ drained /\ ~IsFlushing /\ buffer[s] # {}
    /\ flushing' = [stream |-> s, why |-> "final", state |-> NoStreamState]
    /\ UNCHANGED <<phase, stored, syncState, source, buffer, failed, table, unwritten, counters>>

Flushed ==
    /\ phase # "idle" /\ IsFlushing
    /\ LET s == flushing.stream IN
       /\ table' = [table EXCEPT ![s] = @ \cup buffer[s]]
       /\ buffer' = [buffer EXCEPT ![s] = {}]
       /\ IF flushing.why = "state"
          THEN SourceStateOut(s, flushing.state)
          ELSE UNCHANGED syncState
    /\ flushing' = NoFlush
    /\ UNCHANGED <<phase, stored, source, failed, unwritten, counters>>

FlushFails ==
    /\ phase # "idle" /\ IsFlushing
    /\ LET s == flushing.stream IN
       /\ failed' = failed \cup {s}
       /\ buffer' = [buffer EXCEPT ![s] = {}]
       /\ StreamStatusOut(s, "errored")
       /\ unwritten' = unwritten \cup {<<s, syncState.run>>}
    /\ flushing' = NoFlush
    /\ UNCHANGED <<phase, stored, source, table, counters>>

-----------------------------------------------------------------------------
(* The request ends, and its locals with it.                                *)

Gone ==
    /\ phase' = "idle"
    /\ syncState' = EmptySyncState
    /\ src' = [s \in Stream |-> Over]
    /\ drained' = TRUE /\ stopped' = FALSE /\ states' = 0
    /\ buffer' = [s \in Stream |-> {}] /\ failed' = {} /\ flushing' = NoFlush
    /\ UNCHANGED <<unwritten, counters>>

Close(hasMore, status) ==
    /\ stored' = [state |-> syncState, hasMore |-> hasMore, status |-> status]
    /\ Gone

Eof ==
    /\ phase # "idle" /\ drained /\ ~IsFlushing
    /\ \A s \in Stream : buffer[s] = {}
    /\ Close(stopped, deriveStatus(syncState.progress))
    /\ UNCHANGED table

(* A request that is cut does not wait for write(), which goes on until it  *)
(* has a message to yield: it may still carry out the flush it awaits, the  *)
(* one its next message leads to, or all of the last ones.                  *)
StillWritten(s) ==
    IF /\ ~IsFlushing /\ ~drained /\ src[s].step \in {"reading", "page"} /\ s \notin failed
       /\ src[s].at < Ceiling(syncState.run)
       /\ Cardinality(buffer[s]) + 1 >= BatchSize
    THEN buffer[s] \cup {src[s].at + 1}
    ELSE buffer[s]

Abandon ==
    \E late \in SUBSET (IF flushing.why \in {"record", "state"}
                        THEN {flushing.stream} ELSE Stream) :
        table' = [s \in Stream |->
                    IF s \in late THEN table[s] \cup StillWritten(s) ELSE table[s]]

(* time_limit of takeLimits. *)
HardLimit ==
    /\ phase = "sync"
    /\ Close(TRUE, deriveStatus(syncState.progress))
    /\ Abandon

(* The source or the pool throws: pipeline_sync still answers, with the     *)
(* state it has. write() ends with the exception, its buffers with it.      *)
Throws ==
    /\ phase = "sync" /\ ~IsFlushing
    /\ Close(FALSE, "failed")
    /\ UNCHANGED table

(* The client disconnects, the process dies, or pipeline_sync_batch throws: *)
(* there is no eof.                                                         *)
NoAnswer ==
    /\ phase # "idle"
    /\ Gone
    /\ Abandon
    /\ UNCHANGED stored

-----------------------------------------------------------------------------

Init ==
    /\ phase = "idle"
    /\ syncState = EmptySyncState
    /\ src = [s \in Stream |-> Over]
    /\ drained = TRUE /\ stopped = FALSE /\ states = 0
    /\ buffer = [s \in Stream |-> {}] /\ failed = {} /\ flushing = NoFlush
    /\ stored = [state |-> EmptySyncState, hasMore |-> FALSE, status |-> "none"]
    /\ table = [s \in Stream |-> {}] /\ unwritten = {}
    /\ runs = 0 /\ requests = 0

Next ==
    \/ \E kind \in {"sync", "batch"} : NewRun(kind) \/ Continue(kind)
    \/ \E s \in Stream :
          \/ SourceStarts(s)
          \/ SourceRecord(s)
          \/ SourceState(s)
          \/ SourceComplete(s)
          \/ SourceFails(s)
          \/ FinalFlush(s)
    \/ SourceReturns
    \/ TakenThroughStates
    \/ Flushed
    \/ Eof
    \/ ConnectionFails
    \/ SoftLimit
    \/ FlushFails
    \/ HardLimit
    \/ Throws
    \/ NoAnswer

Spec == Init /\ [][Next]_vars

-----------------------------------------------------------------------------
(* Properties.                                                              *)

(* The commit fence: whatever state the engine holds or the client keeps,   *)
(* the records it accounts for are in the table. The destination re-emits a *)
(* state after flushing its stream, drops the states of a failed stream,    *)
(* and a cut, an error or a new run never brings in another state.          *)
CommitFence ==
    \A state \in {syncState, stored.state} : \A s \in Stream :
        1 .. state.source[s].n \subseteq table[s]

(* A stream reported as completed has every record up to the run's ceiling  *)
(* in the table, however many requests it took, unless the destination      *)
(* lost one of its batches.                                                 *)
CompletedIsWritten ==
    \A state \in {syncState, stored.state} : \A s \in Stream :
        state.progress.status[s] = "completed" /\ <<s, state.run>> \notin unwritten
            => 1 .. Ceiling(state.run) \subseteq table[s]

(* has_more is false without a failure only when no stream that is still    *)
(* active has anything left to read in this run.                            *)
NoMoreMeansDone ==
    ~stored.hasMore /\ stored.status = "started"
        => \A s \in NotTerminal(stored.state.progress) :
              NothingRemains(stored.state.source[s], stored.state.run)

(* Within a run, the source state of a stream that has ended does not move: *)
(* nothing the source still says about a stream whose write failed gets     *)
(* past the destination, and a continuation leaves ended streams alone.     *)
EndedStreamsStay ==
    [][ \A s \in Stream :
          /\ syncState.progress.status[s] \in Terminal
          /\ phase # "idle" /\ phase' # "idle"
          => syncState'.source[s] = syncState.source[s] ]_vars

(* A run that is reported as succeeded has written everything it was to     *)
(* read.                                                                    *)
SucceededIsWritten ==
    stored.status = "succeeded"
        => \A s \in Stream :
              stored.state.progress.status[s] = "completed"
                  => 1 .. Ceiling(stored.state.run) \subseteq table[s]

(* What the client reads from an eof is true: `completed' means written, and *)
(* has_more is false only when nothing is left.                              *)
EofIsTruthful == CompletedIsWritten /\ NoMoreMeansDone
=============================================================================
