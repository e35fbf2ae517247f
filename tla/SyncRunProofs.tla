--------------------------- MODULE SyncRunProofs ---------------------------
(* Proofs about SyncRun, for every set of streams, batch size, state limit, *)
(* number of runs and of requests.                                          *)
EXTENDS SyncRun, TLAPS

LEMMA Parameters ==
    Records \in Nat /\ BatchSize \in Nat /\ StateLimit \in Nat
  BY SyncRunAssumption

LEMMA CeilingType == ASSUME NEW run \in Nat PROVE Ceiling(run) \in Nat
  BY Parameters DEF Ceiling

-----------------------------------------------------------------------------
(* Types. A flush is always that of a stream.                               *)

FlushOfStream == IsFlushing => flushing.stream \in Stream

WellTyped == TypeOK /\ FlushOfStream

LEMMA ConstantTypes ==
    /\ NoStreamState \in StreamStates
    /\ createInitialProgress \in Progress
    /\ EmptySyncState \in SyncStates
    /\ Over \in [at : Nat, step : {"idle", "reading", "page", "closed", "over"}]
    /\ NoFlush \in [stream : Stream \cup {{}},
                    why : {"none", "record", "state", "final"},
                    state : StreamStates]
    /\ NoFlush.why = "none"
<1>1. NoStreamState \in StreamStates
  BY DEF NoStreamState, StreamStates
<1>2. createInitialProgress \in Progress
  BY DEF createInitialProgress, Progress, Active
<1>3. EmptySyncState \in SyncStates
  BY <1>1, <1>2 DEF EmptySyncState, SyncStates
<1>4. QED
  BY <1>1, <1>2, <1>3 DEF Over, NoFlush

LEMMA DerivedStatus ==
    ASSUME NEW progress PROVE deriveStatus(progress) \in {"started", "succeeded", "failed"}
  BY DEF deriveStatus

(* What the reducers do to the types.                                       *)
LEMMA SourceStateType ==
    ASSUME syncState \in SyncStates, NEW s \in Stream, NEW state \in StreamStates,
           SourceStateOut(s, state)
    PROVE  /\ syncState' \in SyncStates
           /\ syncState'.run = syncState.run /\ syncState'.progress = syncState.progress
           /\ syncState'.source = [syncState.source EXCEPT ![s] = state]
  BY DEF SourceStateOut, SyncStates

LEMMA StreamStatusType ==
    ASSUME syncState \in SyncStates, NEW s \in Stream, NEW status \in Active \cup Terminal,
           StreamStatusOut(s, status)
    PROVE  /\ syncState' \in SyncStates
           /\ syncState'.run = syncState.run /\ syncState'.source = syncState.source
           /\ syncState'.progress.status = [syncState.progress.status EXCEPT ![s] = status]
           /\ syncState'.progress.disconnected = syncState.progress.disconnected
<1> DEFINE p == [syncState.progress EXCEPT !.status[s] = status]
<1>1. syncState.progress \in Progress
  BY DEF SyncStates
<1>2. /\ p \in Progress
      /\ p.status = [syncState.progress.status EXCEPT ![s] = status]
      /\ p.disconnected = syncState.progress.disconnected
  BY <1>1 DEF Progress
<1>3. syncState' = [syncState EXCEPT !.progress = p]
  BY DEF StreamStatusOut
<1> HIDE DEF p
<1>4. QED
  BY <1>2, <1>3 DEF SyncStates

LEMMA OpenTypes ==
    ASSUME NEW kind \in {"sync", "batch"}, NEW state \in SyncStates, NEW active,
           Open(kind, state, active), WellTyped
    PROVE  /\ phase' \in {"sync", "batch"} /\ syncState' = state
           /\ src' \in [Stream -> [at : Nat, step : {"idle", "reading", "page", "closed", "over"}]]
           /\ stored' = stored /\ table' = table
           /\ drained' = FALSE /\ stopped' = FALSE /\ states' = 0
           /\ buffer' \in [Stream -> SUBSET (Nat \ {0})] /\ failed' = {} /\ flushing' = NoFlush
           /\ requests' \in Nat
<1>1. \A s \in Stream : state.source[s].n \in Nat
  BY DEF SyncStates, StreamStates
<1>2. src' \in [Stream -> [at : Nat, step : {"idle", "reading", "page", "closed", "over"}]]
  BY <1>1, ConstantTypes DEF Open
<1>3. requests' \in Nat
  BY DEF Open, WellTyped, TypeOK
<1>4. QED
  BY <1>2, <1>3 DEF Open

LEMMA GoneTypes ==
    ASSUME Gone
    PROVE  /\ phase' = "idle" /\ syncState' = EmptySyncState
           /\ src' = [s \in Stream |-> Over]
           /\ drained' = TRUE /\ stopped' = FALSE /\ states' = 0
           /\ buffer' = [s \in Stream |-> {}] /\ failed' = {} /\ flushing' = NoFlush
           /\ unwritten' = unwritten /\ runs' = runs /\ requests' = requests
  BY DEF Gone, counters

LEMMA AbandonTypes ==
    ASSUME WellTyped, Abandon
    PROVE  /\ table' \in [Stream -> SUBSET (Nat \ {0})]
           /\ \A s \in Stream : table[s] \subseteq table'[s]
<1>1. \A s \in Stream : StillWritten(s) \in SUBSET (Nat \ {0})
  BY DEF StillWritten, WellTyped, TypeOK
<1>2. QED
  BY <1>1 DEF Abandon, WellTyped, TypeOK

LEMMA InitialTypes == Init => WellTyped
<1> SUFFICES ASSUME Init PROVE WellTyped
  OBVIOUS
<1>1. /\ src \in [Stream -> [at : Nat, step : {"idle", "reading", "page", "closed", "over"}]]
      /\ buffer \in [Stream -> SUBSET (Nat \ {0})] /\ table \in [Stream -> SUBSET (Nat \ {0})]
  BY ConstantTypes DEF Init
<1>2. stored \in [state : SyncStates, hasMore : BOOLEAN,
                  status : {"none", "started", "succeeded", "failed"}]
  BY ConstantTypes DEF Init
<1>3. FlushOfStream
  BY ConstantTypes DEF Init, FlushOfStream, IsFlushing
<1>4. QED
  BY <1>1, <1>2, <1>3, ConstantTypes DEF Init, WellTyped, TypeOK

(* A flush that succeeds and one that fails.                                *)
LEMMA FlushedTypes ==
    ASSUME WellTyped, Flushed
    PROVE  WellTyped'
<1>1. flushing.stream \in Stream /\ flushing.state \in StreamStates
  BY DEF Flushed, WellTyped, TypeOK, FlushOfStream
<1>2. syncState' \in SyncStates
  BY <1>1, SourceStateType DEF Flushed, WellTyped, TypeOK
<1>3. /\ table' \in [Stream -> SUBSET (Nat \ {0})]
      /\ buffer' \in [Stream -> SUBSET (Nat \ {0})]
  BY DEF Flushed, WellTyped, TypeOK
<1>4. QED
  BY <1>2, <1>3, ConstantTypes
     DEF Flushed, WellTyped, TypeOK, FlushOfStream, IsFlushing, source, counters

LEMMA FlushFailsTypes ==
    ASSUME WellTyped, FlushFails
    PROVE  WellTyped'
<1>1. flushing.stream \in Stream /\ syncState.run \in Nat
  BY DEF FlushFails, WellTyped, TypeOK, FlushOfStream, SyncStates
<1>2. syncState' \in SyncStates
  BY <1>1, StreamStatusType DEF FlushFails, WellTyped, TypeOK, Terminal
<1>3. failed' \subseteq Stream /\ unwritten' \subseteq Stream \X Nat
  BY <1>1 DEF FlushFails, WellTyped, TypeOK
<1>4. buffer' \in [Stream -> SUBSET (Nat \ {0})]
  BY DEF FlushFails, WellTyped, TypeOK
<1>5. QED
  BY <1>2, <1>3, <1>4, ConstantTypes
     DEF FlushFails, WellTyped, TypeOK, FlushOfStream, IsFlushing, source, counters

(* What the source says.                                                    *)
LEMMA RecordTypes ==
    ASSUME WellTyped, NEW s \in Stream, SourceRecord(s)
    PROVE  WellTyped'
<1>1. src[s].at + 1 \in Nat \ {0} /\ ~IsFlushing
  BY DEF SourceRecord, Pulls, WellTyped, TypeOK
<1>2. src' \in [Stream -> [at : Nat, step : {"idle", "reading", "page", "closed", "over"}]]
  BY <1>1 DEF SourceRecord, WellTyped, TypeOK
<1>3. /\ buffer' \in [Stream -> SUBSET (Nat \ {0})]
      /\ flushing' = flushing \/ flushing' = [stream |-> s, why |-> "record", state |-> NoStreamState]
      /\ UNCHANGED <<failed, table>>
  BY <1>1 DEF SourceRecord, Buffer, destination, WellTyped, TypeOK
<1>4. /\ FlushOfStream'
      /\ flushing' \in [stream : Stream \cup {{}}, why : {"none", "record", "state", "final"},
                        state : StreamStates]
  BY <1>3, ConstantTypes DEF WellTyped, TypeOK, FlushOfStream, IsFlushing
<1>5. QED
  BY <1>2, <1>3, <1>4 DEF SourceRecord, Unread, WellTyped, TypeOK, counters

LEMMA StateTypes ==
    ASSUME WellTyped, NEW s \in Stream, SourceState(s)
    PROVE  WellTyped'
<1> DEFINE all == src[s].at >= Ceiling(syncState.run)
           state == [n |-> src[s].at, run |-> syncState.run, empty |-> all]
<1>1. state \in StreamStates
  BY CeilingType DEF StreamStates, WellTyped, TypeOK, SyncStates
<1>2. src' \in [Stream -> [at : Nat, step : {"idle", "reading", "page", "closed", "over"}]]
  BY DEF SourceState, WellTyped, TypeOK
<1>3. /\ \/ UNCHANGED syncState
         \/ SourceStateOut(s, state)
      /\ \/ UNCHANGED flushing
         \/ flushing' = [stream |-> s, why |-> "state", state |-> state]
      /\ UNCHANGED <<buffer, failed, table>>
  BY DEF SourceState, Fence, destination
<1> HIDE DEF state
<1>4. syncState' \in SyncStates
  BY <1>1, <1>3, SourceStateType DEF WellTyped, TypeOK
<1>5. /\ FlushOfStream'
      /\ flushing' \in [stream : Stream \cup {{}}, why : {"none", "record", "state", "final"},
                        state : StreamStates]
  BY <1>1, <1>3 DEF WellTyped, TypeOK, FlushOfStream, IsFlushing
<1>6. states' \in Nat /\ stopped' \in BOOLEAN
  BY DEF SourceState, WellTyped, TypeOK
<1>7. QED
  BY <1>2, <1>3, <1>4, <1>5, <1>6 DEF SourceState, Unread, WellTyped, TypeOK, counters

LEMMA StatusTypes ==
    ASSUME WellTyped, NEW s \in Stream,
           SourceStarts(s) \/ SourceComplete(s) \/ SourceFails(s)
    PROVE  WellTyped'
<1>1. src' \in [Stream -> [at : Nat, step : {"idle", "reading", "page", "closed", "over"}]]
  BY ConstantTypes DEF SourceStarts, SourceComplete, SourceFails, WellTyped, TypeOK
<1>2. syncState' \in SyncStates
  BY StreamStatusType
     DEF SourceStarts, SourceComplete, SourceFails, WellTyped, TypeOK, Active, Terminal
<1>3. QED
  BY <1>1, <1>2 DEF SourceStarts, SourceComplete, SourceFails, Unread, destination, counters,
                    WellTyped, TypeOK, FlushOfStream, IsFlushing

LEMMA ConnectionTypes ==
    ASSUME WellTyped, ConnectionFails
    PROVE  /\ WellTyped'
           /\ syncState'.source = syncState.source /\ syncState'.run = syncState.run
           /\ syncState'.progress.status = syncState.progress.status
           /\ syncState'.progress.disconnected
<1> DEFINE p == [syncState.progress EXCEPT !.disconnected = TRUE]
<1>1. p \in Progress /\ p.status = syncState.progress.status /\ p.disconnected
  BY DEF WellTyped, TypeOK, SyncStates, Progress
<1>2. syncState' = [syncState EXCEPT !.progress = p]
  BY DEF ConnectionFails
<1> HIDE DEF p
<1>3. /\ syncState' \in SyncStates /\ syncState'.progress = p
      /\ syncState'.source = syncState.source /\ syncState'.run = syncState.run
  BY <1>1, <1>2 DEF WellTyped, TypeOK, SyncStates
<1>4. QED
  BY <1>1, <1>3 DEF ConnectionFails, destination, counters,
                    WellTyped, TypeOK, FlushOfStream, IsFlushing

(* How a request begins and ends.                                           *)
LEMMA InitializedType ==
    ASSUME NEW state \in SyncStates, NEW run \in Nat
    PROVE  /\ Initialize(state, run) \in SyncStates
           /\ Initialize(state, run).source = state.source
           /\ Initialize(state, run).run = run
           /\ Initialize(state, run).progress = createInitialProgress
  BY ConstantTypes DEF Initialize, SyncStates

LEMMA OpenedTypes ==
    ASSUME WellTyped, NEW kind \in {"sync", "batch"}, NEW state \in SyncStates, NEW active,
           Open(kind, state, active), runs' \in Nat, unwritten' = unwritten
    PROVE  WellTyped'
<1>1. /\ phase' \in {"sync", "batch"} /\ syncState' = state
      /\ src' \in [Stream -> [at : Nat, step : {"idle", "reading", "page", "closed", "over"}]]
      /\ stored' = stored /\ table' = table
      /\ drained' = FALSE /\ stopped' = FALSE /\ states' = 0
      /\ buffer' \in [Stream -> SUBSET (Nat \ {0})] /\ failed' = {} /\ flushing' = NoFlush
      /\ requests' \in Nat
  BY OpenTypes
<1>2. FlushOfStream'
  BY <1>1, ConstantTypes DEF FlushOfStream, IsFlushing
<1>3. QED
  BY <1>1, <1>2, ConstantTypes DEF WellTyped, TypeOK

LEMMA BeginTypes ==
    ASSUME WellTyped, NEW kind \in {"sync", "batch"}, NewRun(kind) \/ Continue(kind)
    PROVE  WellTyped'
<1>1. stored.state \in SyncStates /\ runs \in Nat
  BY DEF WellTyped, TypeOK
<1>2. CASE NewRun(kind)
  <2>1. runs' \in Nat /\ Open(kind, Initialize(stored.state, runs'), Stream) /\ unwritten' = unwritten
    BY <1>1, <1>2 DEF NewRun
  <2>2. Initialize(stored.state, runs') \in SyncStates
    BY <1>1, <2>1, InitializedType
  <2>3. QED
    BY <2>1, <2>2, OpenedTypes
<1>3. CASE Continue(kind)
  <2>1. Open(kind, stored.state, NotTerminal(stored.state.progress))
        /\ runs' = runs /\ unwritten' = unwritten
    BY <1>3 DEF Continue
  <2>2. QED
    BY <1>1, <2>1, OpenedTypes
<1>4. QED
  BY <1>2, <1>3

LEMMA EndTypes ==
    ASSUME WellTyped, Eof \/ HardLimit \/ Throws \/ NoAnswer
    PROVE  /\ WellTyped'
           /\ Gone /\ \A s \in Stream : table[s] \subseteq table'[s]
           /\ stored' = stored \/ stored'.state = syncState
<1>1. Gone
  BY DEF Eof, HardLimit, Throws, NoAnswer, Close
<1>2. /\ table' \in [Stream -> SUBSET (Nat \ {0})]
      /\ \A s \in Stream : table[s] \subseteq table'[s]
  BY AbandonTypes DEF Eof, HardLimit, Throws, NoAnswer, WellTyped, TypeOK
<1>3. /\ stored' \in [state : SyncStates, hasMore : BOOLEAN,
                      status : {"none", "started", "succeeded", "failed"}]
      /\ stored' = stored \/ stored'.state = syncState
  <2>1. ASSUME NEW hasMore \in BOOLEAN, NEW status \in {"started", "succeeded", "failed"},
               stored' = [state |-> syncState, hasMore |-> hasMore, status |-> status]
        PROVE  /\ stored' \in [state : SyncStates, hasMore : BOOLEAN,
                                status : {"none", "started", "succeeded", "failed"}]
               /\ stored'.state = syncState
    BY <2>1 DEF WellTyped, TypeOK
  <2>2. CASE Eof
    BY <2>1, <2>2, DerivedStatus DEF Eof, Close, WellTyped, TypeOK
  <2>3. CASE HardLimit
    BY <2>1, <2>3, DerivedStatus DEF HardLimit, Close
  <2>4. CASE Throws
    BY <2>1, <2>4 DEF Throws, Close
  <2>5. CASE NoAnswer
    BY <2>5 DEF NoAnswer, WellTyped, TypeOK
  <2>6. QED
    BY <2>2, <2>3, <2>4, <2>5
<1>4. WellTyped'
  BY <1>1, <1>2, <1>3, GoneTypes, ConstantTypes DEF WellTyped, TypeOK, FlushOfStream, IsFlushing
<1>5. QED
  BY <1>1, <1>2, <1>3, <1>4

LEMMA TypesStep == WellTyped /\ [Next]_vars => WellTyped'
<1> SUFFICES ASSUME WellTyped, [Next]_vars PROVE WellTyped'
  OBVIOUS
<1>1. ASSUME NEW kind \in {"sync", "batch"}, NewRun(kind) \/ Continue(kind) PROVE WellTyped'
  BY <1>1, BeginTypes
<1>2. ASSUME NEW s \in Stream, SourceStarts(s) \/ SourceComplete(s) \/ SourceFails(s)
      PROVE WellTyped'
  BY <1>2, StatusTypes
<1>3. ASSUME NEW s \in Stream, SourceRecord(s) PROVE WellTyped'
  BY <1>3, RecordTypes
<1>4. ASSUME NEW s \in Stream, SourceState(s) PROVE WellTyped'
  BY <1>4, StateTypes
<1>5. ASSUME NEW s \in Stream, FinalFlush(s) PROVE WellTyped'
  BY <1>5, ConstantTypes DEF FinalFlush, WellTyped, TypeOK, FlushOfStream, IsFlushing, source, counters
<1>6. CASE SourceReturns \/ TakenThroughStates \/ SoftLimit
  BY <1>6 DEF SourceReturns, TakenThroughStates, SoftLimit, destination, counters,
              WellTyped, TypeOK, FlushOfStream, IsFlushing
<1>7. CASE ConnectionFails
  BY <1>7, ConnectionTypes
<1>8. CASE Flushed
  BY <1>8, FlushedTypes
<1>9. CASE FlushFails
  BY <1>9, FlushFailsTypes
<1>10. CASE Eof \/ HardLimit \/ Throws \/ NoAnswer
  BY <1>10, EndTypes
<1>11. CASE UNCHANGED vars
  BY <1>11 DEF vars, source, destination, counters, WellTyped, TypeOK, FlushOfStream, IsFlushing
<1>12. QED
  BY <1>1, <1>2, <1>3, <1>4, <1>5, <1>6, <1>7, <1>8, <1>9, <1>10, <1>11 DEF Next

(* Every variable has its type, and a flush under way is that of a stream.  *)
THEOREM SyncTypes == Spec => []TypeOK
<1>1. WellTyped => TypeOK
  BY DEF WellTyped
<1>2. QED
  BY <1>1, InitialTypes, TypesStep, PTL DEF Spec

THEOREM SyncWellTyped == Spec => []WellTyped
  BY InitialTypes, TypesStep, PTL DEF Spec

-----------------------------------------------------------------------------
(* The commit fence.                                                        *)

(* The two properties of a state, of the tables and of the lost batches.    *)
Fenced(state, tables) ==
    \A s \in Stream : 1 .. state.source[s].n \subseteq tables[s]

Written(state, tables, lost) ==
    \A s \in Stream :
        state.progress.status[s] = "completed" /\ <<s, state.run>> \notin lost
            => 1 .. Ceiling(state.run) \subseteq tables[s]

Durable(state) == Fenced(state, table) /\ Written(state, table, unwritten)

(* A flush is that of a stream that has not failed; the state that waits    *)
(* for it accounts for exactly what its stream has read.                    *)
FlushInHand ==
    IsFlushing =>
        /\ flushing.stream \in Stream \ failed
        /\ flushing.why = "state" =>
              /\ src[flushing.stream].step # "over"
              /\ flushing.state.n = src[flushing.stream].at

(* What an open stream has read is in the table or in its buffer. *)
ReadIsHeld ==
    \A s \in Stream : src[s].step # "over" /\ s \notin failed =>
        1 .. src[s].at \subseteq table[s] \cup buffer[s]

(* A stream with its last state read has nothing in the buffer but what     *)
(* that state is waiting for.                                               *)
ClosedIsFenced ==
    \A s \in Stream : src[s].step = "closed" =>
        /\ Ceiling(syncState.run) <= src[s].at
        /\ \/ s \in failed \/ buffer[s] = {}
           \/ flushing.why = "state" /\ flushing.stream = s

FailedIsLost ==
    \A s \in failed : <<s, syncState.run>> \in unwritten /\ buffer[s] = {}

OpenIsActive ==
    \A s \in Stream : src[s].step # "over" /\ s \notin failed =>
        syncState.progress.status[s] \in Active

OverIsDone ==
    phase # "idle" =>
        \A s \in Stream : src[s].step = "over" =>
            \/ syncState.progress.status[s] \in Terminal
            \/ NothingRemains(syncState.source[s], syncState.run)

(* The messages end only with the source, at a limit, or with a failed      *)
(* connection.                                                              *)
DrainedIsOver ==
    /\ phase = "batch" /\ states >= StateLimit => stopped
    /\ phase # "idle" /\ drained /\ ~stopped =>
          syncState.progress.disconnected \/ \A s \in Stream : src[s].step = "over"

IdleIsEmpty == phase = "idle" => syncState = EmptySyncState /\ failed = {}

InHand == FlushInHand /\ ReadIsHeld /\ ClosedIsFenced /\ FailedIsLost
Reported == OpenIsActive /\ OverIsDone /\ DrainedIsOver /\ IdleIsEmpty

SyncInv ==
    /\ WellTyped
    /\ Durable(syncState) /\ Durable(stored.state)
    /\ NoMoreMeansDone
    /\ InHand
    /\ Reported

(* Tables and losses only grow, and keep what is durable.                   *)
LEMMA DurableStays ==
    ASSUME NEW state, Durable(state), unwritten \subseteq unwritten',
           \A s \in Stream : table[s] \subseteq table'[s]
    PROVE  Fenced(state, table') /\ Written(state, table', unwritten')
  BY DEF Durable, Fenced, Written

LEMMA StoredStays ==
    ASSUME Durable(stored.state), stored' = stored, unwritten \subseteq unwritten',
           \A s \in Stream : table[s] \subseteq table'[s]
    PROVE  Durable(stored.state)'
<1>1. Fenced(stored.state, table') /\ Written(stored.state, table', unwritten')
  BY DurableStays
<1>2. QED
  BY <1>1 DEF Durable, Fenced, Written

LEMMA SameStateStays ==
    ASSUME Durable(syncState), unwritten \subseteq unwritten',
           \A s \in Stream : table[s] \subseteq table'[s],
           syncState'.source = syncState.source, syncState'.run = syncState.run,
           \A s \in Stream : syncState'.progress.status[s] = "completed" =>
                                syncState.progress.status[s] = "completed"
    PROVE  Durable(syncState)'
<1>1. Fenced(syncState, table') /\ Written(syncState, table', unwritten')
  BY DurableStays
<1>2. QED
  BY <1>1 DEF Durable, Fenced, Written

(* Nothing is accounted for, and nothing completed, before the first run.   *)
LEMMA EmptyIsDurable ==
    ASSUME NEW tables, NEW lost
    PROVE  Fenced(EmptySyncState, tables) /\ Written(EmptySyncState, tables, lost)
<1>1. EmptySyncState.progress.status = [s \in Stream |-> "not_started"]
  BY DEF EmptySyncState, createInitialProgress
<1>2. \A s \in Stream : EmptySyncState.source[s].n = 0
  BY DEF EmptySyncState, NoStreamState
<1>3. 1 .. 0 = {}
  OBVIOUS
<1>4. QED
  BY <1>1, <1>2, <1>3 DEF Fenced, Written

LEMMA SyncInvHolds == Init => SyncInv
<1> SUFFICES ASSUME Init PROVE SyncInv
  OBVIOUS
<1>1. Durable(syncState) /\ Durable(stored.state)
  BY EmptyIsDurable DEF Init, Durable
<1>2. NoMoreMeansDone
  BY DEF Init, NoMoreMeansDone
<1>3. InHand
  BY ConstantTypes DEF Init, InHand, FlushInHand, IsFlushing, ReadIsHeld, ClosedIsFenced, FailedIsLost, Over
<1>4. Reported
  BY DEF Init, Reported, OpenIsActive, OverIsDone, DrainedIsOver, IdleIsEmpty, Over
<1>5. QED
  BY <1>1, <1>2, <1>3, <1>4, InitialTypes DEF SyncInv

(* A request opens on a durable state, reading what has not ended.          *)
LEMMA OpenKeeps ==
    ASSUME SyncInv, NEW kind \in {"sync", "batch"}, NEW state \in SyncStates,
           NEW active \in SUBSET Stream, Open(kind, state, active), unwritten' = unwritten,
           runs' \in Nat, Durable(state),
           \A s \in active : state.progress.status[s] \in Active,
           \A s \in Stream \ active : state.progress.status[s] \in Terminal
    PROVE  SyncInv'
<1>1. /\ phase' = kind /\ syncState' = state
      /\ stored' = stored /\ table' = table
      /\ drained' = FALSE /\ stopped' = FALSE /\ states' = 0
      /\ failed' = {} /\ flushing' = NoFlush
  BY DEF Open
<1>2. WellTyped'
  BY OpenedTypes DEF SyncInv
<1>3. /\ src' = [s \in Stream |-> IF s \in active THEN [at |-> state.source[s].n, step |-> "idle"]
                                  ELSE Over]
      /\ buffer' = [s \in Stream |-> {}]
  BY DEF Open
<1>4. Durable(syncState)'
  BY <1>1, DurableStays DEF Durable, Fenced, Written
<1>5. Durable(stored.state)' /\ NoMoreMeansDone'
  BY <1>1, StoredStays DEF SyncInv, NoMoreMeansDone
<1>6. \A s \in Stream : src'[s].step # "over" =>
         /\ s \in active
         /\ src'[s].at = state.source[s].n /\ src'[s].step = "idle"
  BY <1>3 DEF Over
<1>7. InHand'
  <2>1. FlushInHand' /\ FailedIsLost'
    BY <1>1, ConstantTypes DEF FlushInHand, IsFlushing, FailedIsLost
  <2>2. ReadIsHeld'
    <3>1. \A s \in Stream : 1 .. state.source[s].n \subseteq table[s]
      BY DEF Durable, Fenced
    <3>2. QED
      BY <1>1, <1>6, <3>1 DEF ReadIsHeld
  <2>3. ClosedIsFenced'
    <3>1. \A s \in Stream : src'[s].step # "closed"
      BY <1>6
    <3>2. QED
      BY <3>1 DEF ClosedIsFenced
  <2>4. QED
    BY <2>1, <2>2, <2>3 DEF InHand
<1>8. Reported'
  <2>1. OpenIsActive'
    BY <1>1, <1>6 DEF OpenIsActive
  <2>2. OverIsDone'
    <3>1. \A s \in Stream : src'[s].step = "over" => s \notin active
      BY <1>3
    <3>2. QED
      BY <1>1, <3>1 DEF OverIsDone
  <2>3. DrainedIsOver' /\ IdleIsEmpty'
    BY <1>1, SyncRunAssumption DEF DrainedIsOver, IdleIsEmpty
  <2>4. QED
    BY <2>1, <2>2, <2>3 DEF Reported
<1>9. QED
  BY <1>2, <1>4, <1>5, <1>7, <1>8 DEF SyncInv

LEMMA BeginKeeps ==
    ASSUME SyncInv, NEW kind \in {"sync", "batch"}, NewRun(kind) \/ Continue(kind)
    PROVE  SyncInv'
<1>1. stored.state \in SyncStates /\ runs \in Nat /\ Durable(stored.state)
  BY DEF SyncInv, WellTyped, TypeOK
<1>2. CASE NewRun(kind)
  <2> DEFINE state == Initialize(stored.state, runs')
  <2>1. runs' \in Nat /\ Open(kind, state, Stream) /\ unwritten' = unwritten
    BY <1>1, <1>2 DEF NewRun
  <2>2. /\ state \in SyncStates /\ state.source = stored.state.source
        /\ state.progress.status = [s \in Stream |-> "not_started"]
    BY <1>1, <2>1, InitializedType DEF createInitialProgress
  <2> HIDE DEF state
  <2>3. Durable(state)
    BY <1>1, <2>2 DEF Durable, Fenced, Written
  <2>4. QED
    BY <2>1, <2>2, <2>3, OpenKeeps DEF Active
<1>3. CASE Continue(kind)
  <2>1. Open(kind, stored.state, NotTerminal(stored.state.progress))
        /\ runs' = runs /\ unwritten' = unwritten
    BY <1>3 DEF Continue
  <2>2. \A s \in Stream : stored.state.progress.status[s] \in Active \cup Terminal
    BY <1>1 DEF SyncStates, Progress
  <2>3. QED
    BY <1>1, <2>1, <2>2, OpenKeeps DEF NotTerminal
<1>4. QED
  BY <1>2, <1>3

(* A request ends: its state becomes what the client keeps, or is lost.     *)
LEMMA EndKeeps ==
    ASSUME SyncInv, Eof \/ HardLimit \/ Throws \/ NoAnswer
    PROVE  SyncInv'
<1>1. /\ WellTyped' /\ Gone /\ \A s \in Stream : table[s] \subseteq table'[s]
      /\ stored' = stored \/ stored'.state = syncState
  BY EndTypes DEF SyncInv
<1>2. /\ phase' = "idle" /\ syncState' = EmptySyncState
      /\ src' = [s \in Stream |-> Over]
      /\ stopped' = FALSE /\ failed' = {} /\ flushing' = NoFlush
      /\ unwritten' = unwritten
  BY <1>1, GoneTypes
<1>3. Durable(syncState)'
  BY <1>2, EmptyIsDurable DEF Durable, Fenced, Written
<1>4. Durable(stored.state)'
  <2>1. CASE stored' = stored
    BY <1>1, <1>2, <2>1, StoredStays DEF SyncInv
  <2>2. CASE stored'.state = syncState
    <3>1. Fenced(syncState, table') /\ Written(syncState, table', unwritten')
      BY <1>1, <1>2, DurableStays DEF SyncInv
    <3>2. QED
      BY <2>2, <3>1 DEF Durable, Fenced, Written
  <2>3. QED
    BY <1>1, <2>1, <2>2
<1>5. NoMoreMeansDone'
  <2>1. CASE Eof
    <3>1. stored' = [state |-> syncState, hasMore |-> stopped,
                     status |-> deriveStatus(syncState.progress)]
      BY <2>1 DEF Eof, Close
    <3>2. ASSUME ~stopped, deriveStatus(syncState.progress) = "started"
          PROVE  \A s \in NotTerminal(syncState.progress) :
                    NothingRemains(syncState.source[s], syncState.run)
      <4>1. ~syncState.progress.disconnected
        BY <3>2 DEF deriveStatus
      <4>2. \A s \in Stream : src[s].step = "over"
        BY <2>1, <3>2, <4>1 DEF Eof, SyncInv, Reported, DrainedIsOver
      <4>3. QED
        BY <2>1, <4>2 DEF Eof, SyncInv, Reported, OverIsDone, NotTerminal
    <3>3. QED
      BY <3>1, <3>2 DEF NoMoreMeansDone, NotTerminal, NothingRemains
  <2>2. CASE HardLimit
    BY <2>2 DEF HardLimit, Close, NoMoreMeansDone
  <2>3. CASE Throws
    BY <2>3 DEF Throws, Close, NoMoreMeansDone
  <2>4. CASE NoAnswer
    BY <2>4 DEF NoAnswer, SyncInv, NoMoreMeansDone, NotTerminal, NothingRemains
  <2>5. QED
    BY <2>1, <2>2, <2>3, <2>4
<1>6. InHand'
  BY <1>2, ConstantTypes DEF InHand, FlushInHand, IsFlushing, ReadIsHeld, ClosedIsFenced,
                             FailedIsLost, Over
<1>7. Reported'
  BY <1>2 DEF Reported, OpenIsActive, OverIsDone, DrainedIsOver, IdleIsEmpty, Over
<1>8. QED
  BY <1>1, <1>3, <1>4, <1>5, <1>6, <1>7 DEF SyncInv

(* The messages end, or the last buffers are flushed.                       *)
LEMMA QuietKeeps ==
    ASSUME SyncInv,
           \/ SourceReturns \/ TakenThroughStates \/ SoftLimit \/ ConnectionFails
           \/ \E s \in Stream : FinalFlush(s)
    PROVE  SyncInv'
<1>1. /\ UNCHANGED <<phase, stored, src, buffer, failed, table, unwritten>>
      /\ syncState'.source = syncState.source /\ syncState'.run = syncState.run
      /\ syncState'.progress.status = syncState.progress.status
      /\ phase # "idle"
  <2>1. CASE SourceReturns \/ TakenThroughStates \/ SoftLimit
    BY <2>1 DEF SourceReturns, TakenThroughStates, SoftLimit, Pulls, destination
  <2>2. CASE ConnectionFails
    <3>1. /\ syncState'.source = syncState.source /\ syncState'.run = syncState.run
          /\ syncState'.progress.status = syncState.progress.status
      BY <2>2, ConnectionTypes DEF SyncInv
    <3>2. QED
      BY <2>2, <3>1 DEF ConnectionFails, Pulls, destination
  <2>3. CASE \E s \in Stream : FinalFlush(s)
    BY <2>3 DEF FinalFlush, source
  <2>4. QED
    BY <2>1, <2>2, <2>3
<1>2. WellTyped'
  BY TypesStep DEF SyncInv, Next
<1>3. Durable(syncState)'
  BY <1>1, SameStateStays DEF SyncInv
<1>4. Durable(stored.state)'
  BY <1>1, StoredStays DEF SyncInv
<1>5. NoMoreMeansDone'
  BY <1>1 DEF SyncInv, NoMoreMeansDone, NotTerminal, NothingRemains
<1>6. InHand'
  <2>1. CASE \E s \in Stream : FinalFlush(s)
    <3>1. PICK s \in Stream : FinalFlush(s)
      BY <2>1
    <3>2. /\ ~IsFlushing /\ buffer[s] # {}
          /\ flushing' = [stream |-> s, why |-> "final", state |-> NoStreamState]
      BY <3>1 DEF FinalFlush
    <3>3. s \notin failed
      BY <3>2 DEF SyncInv, InHand, FailedIsLost
    <3>4. FlushInHand'
      BY <1>1, <3>2, <3>3 DEF FlushInHand
    <3>5. ReadIsHeld' /\ FailedIsLost'
      BY <1>1 DEF SyncInv, InHand, ReadIsHeld, FailedIsLost
    <3>6. ClosedIsFenced'
      BY <1>1, <3>2 DEF SyncInv, InHand, ClosedIsFenced, IsFlushing
    <3>7. QED
      BY <3>4, <3>5, <3>6 DEF InHand
  <2>2. CASE ~ \E s \in Stream : FinalFlush(s)
    <3>1. flushing' = flushing
      BY <2>2 DEF SourceReturns, TakenThroughStates, SoftLimit, ConnectionFails, destination
    <3>2. QED
      BY <1>1, <3>1 DEF SyncInv, InHand, FlushInHand, IsFlushing, ReadIsHeld, ClosedIsFenced,
                        FailedIsLost
  <2>3. QED
    BY <2>1, <2>2
<1>7. Reported'
  <2>1. OpenIsActive' /\ OverIsDone' /\ IdleIsEmpty'
    BY <1>1 DEF SyncInv, Reported, OpenIsActive, OverIsDone, IdleIsEmpty
  <2>2. DrainedIsOver'
    <3>1. /\ states' = states
          /\ \/ drained' = drained /\ stopped' = stopped
                 /\ syncState'.progress.disconnected = syncState.progress.disconnected
             \/ stopped' = TRUE
             \/ states >= StateLimit /\ phase = "batch" /\ stopped' = stopped
             \/ stopped' = stopped /\ \A s \in Stream : src[s].step = "over"
             \/ stopped' = stopped /\ syncState'.progress.disconnected
      <4>1. CASE SourceReturns
        BY <4>1 DEF SourceReturns
      <4>2. CASE TakenThroughStates
        BY <4>2 DEF TakenThroughStates
      <4>3. CASE SoftLimit
        BY <4>3 DEF SoftLimit
      <4>4. CASE ConnectionFails
        BY <4>4, ConnectionTypes DEF SyncInv, ConnectionFails
      <4>5. CASE \E s \in Stream : FinalFlush(s)
        BY <4>5 DEF FinalFlush, source
      <4>6. QED
        BY <4>1, <4>2, <4>3, <4>4, <4>5
    <3>2. DrainedIsOver
      BY DEF SyncInv, Reported
    <3>3. QED
      BY <1>1, <3>1, <3>2 DEF DrainedIsOver
  <2>3. QED
    BY <2>1, <2>2 DEF Reported
<1>8. QED
  BY <1>2, <1>3, <1>4, <1>5, <1>6, <1>7 DEF SyncInv

(* The flush of a stream ends.                                              *)
LEMMA FlushedKeeps ==
    ASSUME SyncInv, Flushed
    PROVE  SyncInv'
<1> DEFINE s == flushing.stream
           state == flushing.state
<1>1. /\ s \in Stream \ failed /\ state \in StreamStates
      /\ flushing.why = "state" => src[s].step # "over" /\ state.n = src[s].at
  BY DEF Flushed, SyncInv, WellTyped, TypeOK, InHand, FlushInHand
<1>2. /\ phase # "idle"
      /\ UNCHANGED <<phase, stored, src, drained, stopped, states, failed, unwritten>>
      /\ table' = [table EXCEPT ![s] = @ \cup buffer[s]]
      /\ buffer' = [buffer EXCEPT ![s] = {}] /\ flushing' = NoFlush
      /\ flushing.why = "state" => SourceStateOut(s, state)
      /\ flushing.why # "state" => UNCHANGED syncState
  BY DEF Flushed, source
<1>3. /\ table \in [Stream -> SUBSET (Nat \ {0})] /\ buffer \in [Stream -> SUBSET (Nat \ {0})]
      /\ syncState \in SyncStates
  BY DEF SyncInv, WellTyped, TypeOK
<1> HIDE DEF s, state
<1>4. \A x \in Stream : /\ table[x] \subseteq table'[x]
                        /\ table[x] \cup buffer[x] = table'[x] \cup buffer'[x]
  BY <1>2, <1>3
<1>5. /\ syncState'.run = syncState.run /\ syncState'.progress = syncState.progress
      /\ \/ syncState' = syncState
         \/ /\ flushing.why = "state"
            /\ syncState'.source = [syncState.source EXCEPT ![s] = state]
  BY <1>1, <1>2, <1>3, SourceStateType
<1>6. WellTyped'
  BY FlushedTypes DEF SyncInv
<1>7. Durable(syncState)'
  <2>1. Fenced(syncState, table') /\ Written(syncState, table', unwritten')
    BY <1>2, <1>4, DurableStays DEF SyncInv
  <2>2. ASSUME NEW x \in Stream PROVE 1 .. syncState'.source[x].n \subseteq table'[x]
    <3>1. CASE syncState'.source[x] = syncState.source[x]
      BY <2>1, <3>1 DEF Fenced
    <3>2. CASE syncState'.source[x] # syncState.source[x]
      <4>1. /\ x = s /\ flushing.why = "state" /\ syncState'.source[x] = state
        BY <1>3, <1>5, <3>2 DEF SyncStates
      <4>2. 1 .. src[s].at \subseteq table[s] \cup buffer[s]
        BY <1>1, <4>1 DEF SyncInv, InHand, ReadIsHeld
      <4>3. table'[s] = table[s] \cup buffer[s]
        BY <1>1, <1>2, <1>3
      <4>4. QED
        BY <1>1, <4>1, <4>2, <4>3
    <3>3. QED
      BY <3>1, <3>2
  <2>3. QED
    BY <1>5, <2>1, <2>2 DEF Durable, Fenced, Written
<1>8. Durable(stored.state)' /\ NoMoreMeansDone'
  BY <1>2, <1>4, StoredStays DEF SyncInv, NoMoreMeansDone, NotTerminal, NothingRemains
<1>9. InHand'
  <2>1. FlushInHand' /\ FailedIsLost'
    <3>1. \A x \in failed : buffer'[x] = {}
      BY <1>1, <1>2, <1>3 DEF SyncInv, WellTyped, TypeOK, InHand, FailedIsLost
    <3>2. QED
      BY <1>2, <1>5, <3>1, ConstantTypes DEF SyncInv, InHand, FailedIsLost, FlushInHand, IsFlushing
  <2>2. ReadIsHeld'
    BY <1>2, <1>4 DEF SyncInv, InHand, ReadIsHeld
  <2>3. ASSUME NEW x \in Stream, src'[x].step = "closed"
        PROVE  /\ Ceiling(syncState'.run) <= src'[x].at
               /\ x \in failed \/ buffer'[x] = {}
    <3>1. /\ Ceiling(syncState.run) <= src[x].at
          /\ x \in failed \/ buffer[x] = {} \/ x = s
      BY <1>2, <2>3 DEF SyncInv, InHand, ClosedIsFenced, s
    <3>2. buffer'[x] = IF x = s THEN {} ELSE buffer[x]
      BY <1>2, <1>3
    <3>3. QED
      BY <1>2, <1>5, <3>1, <3>2
  <2>4. ClosedIsFenced'
    BY <1>2, <2>3 DEF ClosedIsFenced
  <2>5. QED
    BY <2>1, <2>2, <2>4 DEF InHand
<1>10. Reported'
  <2>1. ASSUME NEW x \in Stream, src[x].step = "over"
        PROVE  syncState'.source[x] = syncState.source[x]
    BY <1>1, <1>3, <1>5, <2>1 DEF SyncStates
  <2>2. OverIsDone'
    BY <1>2, <1>5, <2>1 DEF SyncInv, Reported, OverIsDone, NothingRemains
  <2>3. OpenIsActive' /\ DrainedIsOver' /\ IdleIsEmpty'
    BY <1>2, <1>5 DEF SyncInv, Reported, OpenIsActive, DrainedIsOver, IdleIsEmpty
  <2>4. QED
    BY <2>2, <2>3 DEF Reported
<1>11. QED
  BY <1>6, <1>7, <1>8, <1>9, <1>10 DEF SyncInv

LEMMA FlushFailsKeeps ==
    ASSUME SyncInv, FlushFails
    PROVE  SyncInv'
<1> DEFINE s == flushing.stream
<1>1. s \in Stream \ failed
  BY DEF FlushFails, SyncInv, InHand, FlushInHand
<1>2. /\ phase # "idle"
      /\ UNCHANGED <<phase, stored, src, drained, stopped, states, table>>
      /\ failed' = failed \cup {s}
      /\ buffer' = [buffer EXCEPT ![s] = {}] /\ flushing' = NoFlush
      /\ unwritten' = unwritten \cup {<<s, syncState.run>>}
      /\ StreamStatusOut(s, "errored")
  BY DEF FlushFails, source
<1>3. /\ buffer \in [Stream -> SUBSET (Nat \ {0})]
      /\ syncState \in SyncStates
  BY DEF SyncInv, WellTyped, TypeOK
<1>4. /\ syncState'.run = syncState.run /\ syncState'.source = syncState.source
      /\ syncState'.progress.status = [syncState.progress.status EXCEPT ![s] = "errored"]
      /\ syncState'.progress.disconnected = syncState.progress.disconnected
  BY <1>1, <1>2, <1>3, StreamStatusType DEF Terminal
<1>5. \A x \in Stream : syncState'.progress.status[x] =
                           IF x = s THEN "errored" ELSE syncState.progress.status[x]
  BY <1>3, <1>4 DEF SyncStates, Progress
<1>6. \A x \in Stream : buffer'[x] = IF x = s THEN {} ELSE buffer[x]
  BY <1>3, <1>2
<1>7. WellTyped'
  BY FlushFailsTypes DEF SyncInv
<1>8. Durable(syncState)'
  BY <1>2, <1>4, <1>5, SameStateStays DEF SyncInv
<1>9. Durable(stored.state)' /\ NoMoreMeansDone'
  BY <1>2, StoredStays DEF SyncInv, NoMoreMeansDone, NotTerminal, NothingRemains
<1>10. InHand'
  <2>1. FlushInHand'
    BY <1>2, ConstantTypes DEF FlushInHand, IsFlushing
  <2>2. FailedIsLost'
    BY <1>1, <1>2, <1>4, <1>6 DEF SyncInv, WellTyped, TypeOK, InHand, FailedIsLost
  <2>3. ReadIsHeld'
    BY <1>2, <1>6 DEF SyncInv, InHand, ReadIsHeld
  <2>4. ClosedIsFenced'
    BY <1>2, <1>4, <1>6 DEF SyncInv, InHand, ClosedIsFenced
  <2>5. QED
    BY <2>1, <2>2, <2>3, <2>4 DEF InHand
<1>11. Reported'
  <2>1. OpenIsActive' /\ OverIsDone'
    BY <1>2, <1>4, <1>5 DEF SyncInv, Reported, OpenIsActive, OverIsDone, NothingRemains, Terminal
  <2>2. DrainedIsOver' /\ IdleIsEmpty'
    BY <1>2, <1>4 DEF SyncInv, Reported, DrainedIsOver, IdleIsEmpty
  <2>3. QED
    BY <2>1, <2>2 DEF Reported
<1>12. QED
  BY <1>7, <1>8, <1>9, <1>10, <1>11 DEF SyncInv

(* The source reads on. What every message leaves alone: *)
LEMMA MessageKeeps ==
    ASSUME SyncInv, NEW s \in Stream,
           \/ SourceStarts(s) \/ SourceRecord(s) \/ SourceState(s)
           \/ SourceComplete(s) \/ SourceFails(s)
    PROVE  /\ phase # "idle" /\ ~drained /\ ~IsFlushing
           /\ UNCHANGED <<phase, stored, drained, unwritten, failed, table>>
           /\ WellTyped' /\ Durable(stored.state)' /\ NoMoreMeansDone'
           /\ \A x \in Stream \ {s} : src'[x] = src[x]
<1>1. /\ phase # "idle" /\ ~drained /\ ~IsFlushing
      /\ UNCHANGED <<phase, stored, drained, unwritten>>
  BY DEF SourceStarts, SourceRecord, SourceState, SourceComplete, SourceFails, Pulls, Unread
<1>2. UNCHANGED <<failed, table>>
  <2>1. CASE SourceStarts(s) \/ SourceComplete(s) \/ SourceFails(s)
    BY <2>1 DEF SourceStarts, SourceComplete, SourceFails, destination
  <2>2. CASE SourceRecord(s)
    BY <2>2 DEF SourceRecord, Buffer, destination
  <2>3. CASE SourceState(s)
    BY <2>3 DEF SourceState, Fence, destination
  <2>4. QED
    BY <2>1, <2>2, <2>3
<1>3. Durable(stored.state)' /\ NoMoreMeansDone'
  BY <1>1, <1>2, StoredStays DEF SyncInv, NoMoreMeansDone, NotTerminal, NothingRemains
<1>4. WellTyped'
  BY TypesStep DEF SyncInv, Next
<1>5. \A x \in Stream \ {s} : src'[x] = src[x]
  BY DEF SourceStarts, SourceRecord, SourceState, SourceComplete, SourceFails,
         SyncInv, WellTyped, TypeOK
<1>6. QED
  BY <1>1, <1>2, <1>3, <1>4, <1>5

(* A stream whose state was not closed, or whose buffer is empty, gets a    *)
(* status: started, or the one it ends with.                                *)
LEMMA StatusKeeps ==
    ASSUME SyncInv, NEW s \in Stream,
           SourceStarts(s) \/ SourceComplete(s) \/ SourceFails(s)
    PROVE  SyncInv'
<1>1. /\ phase # "idle" /\ ~drained /\ ~IsFlushing
      /\ UNCHANGED <<phase, stored, drained, unwritten, failed, table>>
      /\ WellTyped' /\ Durable(stored.state)' /\ NoMoreMeansDone'
      /\ \A x \in Stream \ {s} : src'[x] = src[x]
  BY MessageKeeps
<1>2. UNCHANGED <<stopped, states, buffer, flushing>>
  BY DEF SourceStarts, SourceComplete, SourceFails, destination
<1>3. /\ syncState \in SyncStates
      /\ src \in [Stream -> [at : Nat, step : {"idle", "reading", "page", "closed", "over"}]]
  BY DEF SyncInv, WellTyped, TypeOK
<1>4. PICK status \in Active \cup Terminal :
         /\ \/ StreamStatusOut(s, status)
            \/ UNCHANGED syncState /\ NothingRemains(syncState.source[s], syncState.run)
         /\ status = "completed" => src[s].step = "closed"
         /\ \/ src'[s].step = "over" /\ status \in Terminal
            \/ src'[s].step = "reading" /\ src'[s].at = src[s].at
                 /\ src[s].step = "idle" /\ status = "started"
  <2>1. CASE SourceStarts(s)
    <3>1. CASE NothingRemains(syncState.source[s], syncState.run)
      <4>1. "skipped" \in Terminal
        BY DEF Terminal
      <4>2. src'[s].step = "over" /\ UNCHANGED syncState
        BY <1>3, <2>1, <3>1 DEF SourceStarts, Over
      <4>3. QED
        BY <3>1, <4>1, <4>2
    <3>2. CASE ~NothingRemains(syncState.source[s], syncState.run)
      BY <1>3, <2>1, <3>2 DEF SourceStarts, Active
    <3>3. QED
      BY <3>1, <3>2
  <2>2. CASE SourceComplete(s)
    BY <1>3, <2>2 DEF SourceComplete, Terminal, Over
  <2>3. CASE SourceFails(s)
    BY <1>3, <2>3 DEF SourceFails, Terminal, Over
  <2>4. QED
    BY <2>1, <2>2, <2>3
<1>5. /\ syncState'.run = syncState.run /\ syncState'.source = syncState.source
      /\ syncState'.progress.disconnected = syncState.progress.disconnected
      /\ \/ syncState'.progress.status = [syncState.progress.status EXCEPT ![s] = status]
         \/ UNCHANGED syncState /\ NothingRemains(syncState.source[s], syncState.run)
  BY <1>3, <1>4, StreamStatusType
<1>6. /\ \A x \in Stream \ {s} : syncState'.progress.status[x] = syncState.progress.status[x]
      /\ \/ syncState'.progress.status[s] = status
         \/ UNCHANGED syncState /\ NothingRemains(syncState.source[s], syncState.run)
  BY <1>3, <1>5 DEF SyncStates, Progress
<1>7. Durable(syncState)'
  <2>1. Fenced(syncState, table)' /\ Durable(syncState)
    BY <1>1, <1>5 DEF SyncInv, Durable, Fenced
  <2>2. ASSUME NEW x \in Stream, syncState'.progress.status[x] = "completed",
               <<x, syncState.run>> \notin unwritten
        PROVE  1 .. Ceiling(syncState.run) \subseteq table[x]
    <3>1. CASE syncState.progress.status[x] = "completed"
      BY <2>1, <2>2, <3>1 DEF Durable, Written
    <3>2. CASE syncState.progress.status[x] # "completed"
      <4>1. x = s /\ src[s].step = "closed"
        BY <1>4, <1>6, <2>2, <3>2
      <4>2. s \notin failed
        BY <2>2, <4>1 DEF SyncInv, InHand, FailedIsLost
      <4>3. /\ Ceiling(syncState.run) <= src[s].at
            /\ buffer[s] = {}
        BY <1>1, <4>1, <4>2 DEF SyncInv, InHand, ClosedIsFenced, IsFlushing
      <4>4. 1 .. src[s].at \subseteq table[s]
        BY <4>1, <4>2, <4>3 DEF SyncInv, InHand, ReadIsHeld
      <4>5. Ceiling(syncState.run) \in Nat /\ src[s].at \in Nat
        BY <1>3, CeilingType DEF SyncStates
      <4>6. QED
        BY <4>1, <4>3, <4>4, <4>5
    <3>3. QED
      BY <3>1, <3>2
  <2>3. QED
    BY <1>1, <1>5, <2>1, <2>2 DEF Durable, Written
<1>8. InHand'
  <2>1. FlushInHand' /\ FailedIsLost'
    BY <1>1, <1>2, <1>5 DEF SyncInv, InHand, FlushInHand, FailedIsLost, IsFlushing
  <2>2. \A x \in Stream : src'[x].step # "over" => src'[x].at = src[x].at /\ src[x].step # "over"
    BY <1>1, <1>4
  <2>3. \A x \in Stream : src'[x].step = "closed" => src'[x] = src[x]
    BY <1>1, <1>4
  <2>4. ReadIsHeld'
    BY <1>1, <1>2, <2>2 DEF SyncInv, InHand, ReadIsHeld
  <2>5. ClosedIsFenced'
    BY <1>1, <1>2, <1>5, <2>3 DEF SyncInv, InHand, ClosedIsFenced
  <2>6. QED
    BY <2>1, <2>4, <2>5 DEF InHand
<1>9. Reported'
  <2>1. OpenIsActive'
    BY <1>1, <1>4, <1>6 DEF SyncInv, Reported, OpenIsActive, Active
  <2>2. OverIsDone'
    <3>1. ASSUME NEW x \in Stream, src'[x].step = "over"
          PROVE  \/ syncState'.progress.status[x] \in Terminal
                 \/ NothingRemains(syncState.source[x], syncState.run)
      <4>1. CASE x = s
        BY <1>4, <1>6, <3>1, <4>1
      <4>2. CASE x # s
        BY <1>1, <1>6, <3>1, <4>2 DEF SyncInv, Reported, OverIsDone
      <4>3. QED
        BY <4>1, <4>2
    <3>2. QED
      BY <1>1, <1>5, <3>1 DEF OverIsDone, NothingRemains
  <2>3. DrainedIsOver' /\ IdleIsEmpty'
    BY <1>1, <1>2 DEF SyncInv, Reported, DrainedIsOver, IdleIsEmpty
  <2>4. QED
    BY <2>1, <2>2, <2>3 DEF Reported
<1>10. QED
  BY <1>1, <1>7, <1>8, <1>9 DEF SyncInv

(* A record goes into the buffer, and may start a flush of its stream.      *)
LEMMA RecordKeeps ==
    ASSUME SyncInv, NEW s \in Stream, SourceRecord(s)
    PROVE  SyncInv'
<1>1. /\ phase # "idle" /\ ~drained /\ ~IsFlushing
      /\ UNCHANGED <<phase, stored, drained, unwritten, failed, table>>
      /\ WellTyped' /\ Durable(stored.state)' /\ NoMoreMeansDone'
      /\ \A x \in Stream \ {s} : src'[x] = src[x]
  BY MessageKeeps
<1>2. /\ UNCHANGED <<syncState, stopped, states>>
      /\ src[s].step \in {"reading", "page"}
      /\ src'[s] = [at |-> src[s].at + 1, step |-> "page"]
      /\ Buffer(s, src[s].at + 1)
  BY DEF SourceRecord, SyncInv, WellTyped, TypeOK
<1>3. /\ buffer \in [Stream -> SUBSET (Nat \ {0})] /\ src[s].at \in Nat
      /\ src'[s].at = src[s].at + 1 /\ src'[s].step = "page"
  BY <1>2 DEF SyncInv, WellTyped, TypeOK
<1>4. /\ \A x \in Stream : buffer[x] \subseteq buffer'[x]
      /\ \A x \in Stream \ {s} : buffer'[x] = buffer[x]
      /\ s \in failed => buffer'[s] = buffer[s]
      /\ s \notin failed => src[s].at + 1 \in buffer'[s]
      /\ \/ flushing' = flushing
         \/ /\ s \notin failed
            /\ flushing' = [stream |-> s, why |-> "record", state |-> NoStreamState]
  BY <1>2, <1>3 DEF Buffer, destination
<1>5. Durable(syncState)'
  BY <1>1, <1>2 DEF SyncInv, Durable, Fenced, Written
<1>6. InHand'
  <2>1. FlushInHand'
    BY <1>1, <1>4 DEF FlushInHand, IsFlushing
  <2>2. FailedIsLost'
    BY <1>1, <1>2, <1>4 DEF SyncInv, WellTyped, TypeOK, InHand, FailedIsLost
  <2>3. ASSUME NEW x \in Stream, src'[x].step # "over", x \notin failed
        PROVE  1 .. src'[x].at \subseteq table[x] \cup buffer'[x]
    <3>1. 1 .. src[x].at \subseteq table[x] \cup buffer[x]
      BY <1>1, <1>2, <2>3 DEF SyncInv, InHand, ReadIsHeld
    <3>2. CASE x = s
      <4>1. 1 .. src[s].at + 1 = (1 .. src[s].at) \cup {src[s].at + 1}
        BY <1>3
      <4>2. QED
        BY <1>3, <1>4, <2>3, <3>1, <3>2, <4>1
    <3>3. CASE x # s
      BY <1>1, <1>4, <3>1, <3>3
    <3>4. QED
      BY <3>2, <3>3
  <2>4. ReadIsHeld'
    BY <1>1, <2>3 DEF ReadIsHeld
  <2>5. \A x \in Stream : src'[x].step = "closed" => x # s /\ src'[x] = src[x] /\ buffer'[x] = buffer[x]
    BY <1>1, <1>3, <1>4
  <2>6. ClosedIsFenced'
    BY <1>1, <1>2, <2>5 DEF SyncInv, InHand, ClosedIsFenced, IsFlushing
  <2>7. QED
    BY <2>1, <2>2, <2>4, <2>6 DEF InHand
<1>7. Reported'
  <2>1. \A x \in Stream : (src'[x].step = "over") <=> (src[x].step = "over")
    BY <1>1, <1>2, <1>3
  <2>2. QED
    BY <1>1, <1>2, <2>1 DEF SyncInv, Reported, OpenIsActive, OverIsDone, DrainedIsOver, IdleIsEmpty
<1>8. QED
  BY <1>1, <1>5, <1>6, <1>7 DEF SyncInv

(* A state passes at once, waits for the flush of its stream, or is dropped *)
(* with its failed stream.                                                  *)
LEMMA StateKeeps ==
    ASSUME SyncInv, NEW s \in Stream, SourceState(s)
    PROVE  SyncInv'
<1> DEFINE all == src[s].at >= Ceiling(syncState.run)
           state == [n |-> src[s].at, run |-> syncState.run, empty |-> all]
<1>1. /\ phase # "idle" /\ ~drained /\ ~IsFlushing
      /\ UNCHANGED <<phase, stored, drained, unwritten, failed, table>>
      /\ WellTyped' /\ Durable(stored.state)' /\ NoMoreMeansDone'
      /\ \A x \in Stream \ {s} : src'[x] = src[x]
  BY MessageKeeps
<1>2. /\ syncState \in SyncStates
      /\ src \in [Stream -> [at : Nat, step : {"idle", "reading", "page", "closed", "over"}]]
  BY DEF SyncInv, WellTyped, TypeOK
<1>3. /\ src[s].step \in {"reading", "page"}
      /\ src'[s].step = IF all THEN "closed" ELSE "reading"
      /\ src'[s].at = src[s].at
      /\ Fence(s, state)
  BY <1>2 DEF SourceState
<1>4. state \in StreamStates /\ state.n = src[s].at
  BY <1>2, CeilingType DEF StreamStates, SyncStates
<1>5. src'[s].step = "closed" => Ceiling(syncState.run) <= src[s].at
  BY <1>2, <1>3, CeilingType DEF SyncStates
<1> HIDE DEF state, all
<1>6. /\ buffer' = buffer
      /\ \/ s \in failed /\ UNCHANGED <<syncState, flushing>>
         \/ s \notin failed /\ buffer[s] = {} /\ SourceStateOut(s, state) /\ UNCHANGED flushing
         \/ /\ s \notin failed /\ UNCHANGED syncState
            /\ flushing' = [stream |-> s, why |-> "state", state |-> state]
  BY <1>3 DEF Fence, destination
<1>7. /\ syncState'.run = syncState.run /\ syncState'.progress = syncState.progress
      /\ \A x \in Stream \ {s} : syncState'.source[x] = syncState.source[x]
      /\ \/ syncState'.source[s] = syncState.source[s]
         \/ s \notin failed /\ buffer[s] = {} /\ syncState'.source[s] = state
  <2>1. CASE UNCHANGED syncState
    BY <2>1
  <2>2. CASE s \notin failed /\ buffer[s] = {} /\ SourceStateOut(s, state)
    <3>1. /\ syncState'.run = syncState.run /\ syncState'.progress = syncState.progress
          /\ syncState'.source = [syncState.source EXCEPT ![s] = state]
      BY <1>2, <1>4, <2>2, SourceStateType
    <3>2. syncState.source \in [Stream -> StreamStates]
      BY <1>2 DEF SyncStates
    <3>3. QED
      BY <2>2, <3>1, <3>2
  <2>3. QED
    BY <1>6, <2>1, <2>2
<1>8. Durable(syncState)'
  <2>1. Durable(syncState)
    BY DEF SyncInv
  <2>2. ASSUME NEW x \in Stream PROVE 1 .. syncState'.source[x].n \subseteq table[x]
    <3>1. CASE syncState'.source[x] = syncState.source[x]
      BY <2>1, <3>1 DEF Durable, Fenced
    <3>2. CASE syncState'.source[x] # syncState.source[x]
      <4>1. x = s /\ s \notin failed /\ buffer[s] = {} /\ syncState'.source[s] = state
        BY <1>7, <3>2
      <4>2. 1 .. src[s].at \subseteq table[s] \cup buffer[s]
        BY <1>3, <4>1 DEF SyncInv, InHand, ReadIsHeld
      <4>3. QED
        BY <1>4, <4>1, <4>2
    <3>3. QED
      BY <3>1, <3>2
  <2>3. QED
    BY <1>1, <1>7, <2>1, <2>2 DEF Durable, Fenced, Written
<1>9. InHand'
  <2>1. FlushInHand'
    <3>1. CASE flushing' = flushing
      BY <1>1, <3>1 DEF FlushInHand, IsFlushing
    <3>2. CASE s \notin failed /\ flushing' = [stream |-> s, why |-> "state", state |-> state]
      <4>1. src'[s].step # "over" /\ flushing'.state.n = src'[s].at
        BY <1>3, <1>4, <3>2
      <4>2. QED
        BY <1>1, <3>2, <4>1 DEF FlushInHand
    <3>3. QED
      BY <1>6, <3>1, <3>2
  <2>2. FailedIsLost'
    BY <1>1, <1>6, <1>7 DEF SyncInv, InHand, FailedIsLost
  <2>3. ReadIsHeld'
    BY <1>1, <1>3, <1>6 DEF SyncInv, InHand, ReadIsHeld
  <2>4. ASSUME NEW x \in Stream, src'[x].step = "closed"
        PROVE  /\ Ceiling(syncState.run) <= src'[x].at
               /\ \/ x \in failed \/ buffer[x] = {}
                  \/ flushing'.why = "state" /\ flushing'.stream = x
    <3>1. CASE x = s
      BY <1>3, <1>5, <1>6, <2>4, <3>1
    <3>2. CASE x # s
      BY <1>1, <2>4, <3>2 DEF SyncInv, InHand, ClosedIsFenced, IsFlushing
    <3>3. QED
      BY <3>1, <3>2
  <2>5. ClosedIsFenced'
    BY <1>1, <1>6, <1>7, <2>4 DEF ClosedIsFenced
  <2>6. QED
    BY <2>1, <2>2, <2>3, <2>5 DEF InHand
<1>10. Reported'
  <2>1. \A x \in Stream : (src'[x].step = "over") <=> (src[x].step = "over")
    BY <1>1, <1>3
  <2>2. \A x \in Stream : src[x].step = "over" => syncState'.source[x] = syncState.source[x]
    BY <1>3, <1>7
  <2>3. OpenIsActive' /\ OverIsDone'
    BY <1>1, <1>7, <2>1, <2>2 DEF SyncInv, Reported, OpenIsActive, OverIsDone, NothingRemains
  <2>4. DrainedIsOver' /\ IdleIsEmpty'
    BY <1>1 DEF SourceState, DrainedIsOver, IdleIsEmpty, SyncInv, Reported
  <2>5. QED
    BY <2>3, <2>4 DEF Reported
<1>11. QED
  BY <1>1, <1>8, <1>9, <1>10 DEF SyncInv

LEMMA SyncInvStep == SyncInv /\ [Next]_vars => SyncInv'
<1> SUFFICES ASSUME SyncInv, [Next]_vars PROVE SyncInv'
  OBVIOUS
<1>1. ASSUME NEW kind \in {"sync", "batch"}, NewRun(kind) \/ Continue(kind) PROVE SyncInv'
  BY <1>1, BeginKeeps
<1>2. ASSUME NEW s \in Stream, SourceStarts(s) \/ SourceComplete(s) \/ SourceFails(s)
      PROVE SyncInv'
  BY <1>2, StatusKeeps
<1>3. ASSUME NEW s \in Stream, SourceRecord(s) PROVE SyncInv'
  BY <1>3, RecordKeeps
<1>4. ASSUME NEW s \in Stream, SourceState(s) PROVE SyncInv'
  BY <1>4, StateKeeps
<1>5. CASE \/ SourceReturns \/ TakenThroughStates \/ SoftLimit \/ ConnectionFails
           \/ \E s \in Stream : FinalFlush(s)
  BY <1>5, QuietKeeps
<1>6. CASE Flushed
  BY <1>6, FlushedKeeps
<1>7. CASE FlushFails
  BY <1>7, FlushFailsKeeps
<1>8. CASE Eof \/ HardLimit \/ Throws \/ NoAnswer
  BY <1>8, EndKeeps
<1>9. CASE UNCHANGED vars
  <2>1. WellTyped'
    BY <1>9, TypesStep DEF SyncInv
  <2>2. QED
    BY <1>9, <2>1
       DEF vars, source, destination, counters, SyncInv, Durable, Fenced, Written, NoMoreMeansDone,
           NotTerminal, NothingRemains, InHand, FlushInHand, IsFlushing, ReadIsHeld, ClosedIsFenced,
           FailedIsLost, Reported, OpenIsActive, OverIsDone, DrainedIsOver, IdleIsEmpty
<1>10. QED
  BY <1>1, <1>2, <1>3, <1>4, <1>5, <1>6, <1>7, <1>8, <1>9 DEF Next

LEMMA SyncInvAlways == Spec => []SyncInv
  BY SyncInvHolds, SyncInvStep, PTL DEF Spec

(* Whatever state the engine holds or the client keeps, the records it      *)
(* accounts for are in the table.                                           *)
THEOREM CommitFenceHolds == Spec => []CommitFence
<1>1. SyncInv => CommitFence
  BY DEF SyncInv, Durable, Fenced, CommitFence
<1>2. QED
  BY <1>1, SyncInvAlways, PTL

(* A completed stream is written up to the ceiling of its run unless a      *)
(* batch of it was lost, and has_more is false without a failure only when  *)
(* nothing is left.                                                         *)
THEOREM EofTells == Spec => []EofIsTruthful
<1>1. SyncInv => EofIsTruthful
  BY DEF SyncInv, Durable, Written, EofIsTruthful, CompletedIsWritten
<1>2. QED
  BY <1>1, SyncInvAlways, PTL

(* The source state of a stream that has ended does not move.               *)
LEMMA EndedStay ==
    ASSUME SyncInv, SyncInv', [Next]_vars, phase # "idle", phase' # "idle",
           NEW s \in Stream, syncState.progress.status[s] \in Terminal
    PROVE  syncState'.source[s] = syncState.source[s]
<1>1. s \in failed \/ src[s].step = "over"
  BY DEF SyncInv, Reported, OpenIsActive, Active, Terminal
<1>2. /\ syncState \in SyncStates /\ syncState.source \in [Stream -> StreamStates]
      /\ flushing.why # "none" => flushing.state \in StreamStates
  BY DEF SyncInv, WellTyped, TypeOK, SyncStates
<1>3. ASSUME NEW x \in Stream, x # s, NEW state \in StreamStates, SourceStateOut(x, state)
      PROVE  syncState'.source[s] = syncState.source[s]
  BY <1>2, <1>3, SourceStateType
<1>4. ASSUME NEW kind \in {"sync", "batch"}, NewRun(kind) \/ Continue(kind) PROVE FALSE
  BY <1>4 DEF NewRun, Continue
<1>5. ASSUME NEW x \in Stream, SourceStarts(x) \/ SourceComplete(x) \/ SourceFails(x)
      PROVE  syncState'.source = syncState.source
  BY <1>2, <1>5, StreamStatusType DEF SourceStarts, SourceComplete, SourceFails, Active, Terminal
<1>6. ASSUME NEW x \in Stream, SourceRecord(x) PROVE UNCHANGED syncState
  BY <1>6 DEF SourceRecord
<1>7. ASSUME NEW x \in Stream, SourceState(x)
      PROVE  syncState'.source[s] = syncState.source[s]
  <2> DEFINE all == src[x].at >= Ceiling(syncState.run)
             state == [n |-> src[x].at, run |-> syncState.run, empty |-> all]
  <2>1. /\ src[x].step # "over"
        /\ \/ UNCHANGED syncState
           \/ x \notin failed /\ SourceStateOut(x, state)
    BY <1>7 DEF SourceState, Fence
  <2>2. state \in StreamStates
    BY CeilingType DEF StreamStates, SyncInv, WellTyped, TypeOK, SyncStates
  <2> HIDE DEF state
  <2>3. QED
    BY <1>1, <1>3, <2>1, <2>2
<1>8. CASE SourceReturns \/ TakenThroughStates \/ SoftLimit \/ \E x \in Stream : FinalFlush(x)
  BY <1>8 DEF SourceReturns, TakenThroughStates, SoftLimit, FinalFlush
<1>9. CASE ConnectionFails
  BY <1>9, ConnectionTypes DEF SyncInv
<1>10. CASE Flushed
  <2>1. CASE flushing.why = "state"
    <3>1. /\ flushing.stream \in Stream \ failed /\ src[flushing.stream].step # "over"
          /\ SourceStateOut(flushing.stream, flushing.state)
      BY <1>10, <2>1 DEF Flushed, SyncInv, InHand, FlushInHand
    <3>2. QED
      BY <1>1, <1>2, <1>3, <2>1, <3>1
  <2>2. CASE flushing.why # "state"
    BY <1>10, <2>2 DEF Flushed
  <2>3. QED
    BY <2>1, <2>2
<1>11. CASE FlushFails
  <2>1. flushing.stream \in Stream /\ StreamStatusOut(flushing.stream, "errored")
    BY <1>11 DEF FlushFails, SyncInv, InHand, FlushInHand
  <2>2. QED
    BY <1>2, <2>1, StreamStatusType DEF Terminal
<1>12. CASE Eof \/ HardLimit \/ Throws \/ NoAnswer
  BY <1>12, EndTypes, GoneTypes DEF SyncInv
<1>13. CASE UNCHANGED vars
  BY <1>13 DEF vars
<1>14. QED
  BY <1>3, <1>4, <1>5, <1>6, <1>7, <1>8, <1>9, <1>10, <1>11, <1>12, <1>13 DEF Next

(* Within a run, nothing the source still says about a stream that has      *)
(* ended gets past the destination.                                         *)
THEOREM EndedStreamsStayPut == Spec => EndedStreamsStay
<1>1. SyncInv /\ SyncInv' /\ [Next]_vars =>
        [ \A s \in Stream :
            /\ syncState.progress.status[s] \in Terminal
            /\ phase # "idle" /\ phase' # "idle"
            => syncState'.source[s] = syncState.source[s] ]_vars
  BY EndedStay
<1>2. QED
  BY <1>1, SyncInvAlways, PTL DEF Spec, EndedStreamsStay
=============================================================================
