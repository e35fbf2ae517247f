--------------------------- MODULE StreamBackfill ---------------------------
(***************************************************************************)
(* The backfill of one Stripe stream whose list endpoint takes a `created' *)
(* filter: the work-queue of streamingSubdivide                            *)
(* (packages/protocol/src/utils/binary-subdivision.ts), the page fetch and *)
(* the message loop of iterateStream                                       *)
(* (packages/source-stripe/src/src-list-api.ts), and the part of the       *)
(* engine that keeps the stream's checkpoint between requests              *)
(* (apps/engine/src/lib/engine.ts, state-reducer.ts).                      *)
(*                                                                         *)
(* One request is one call of pipeline_sync.  It may be cut off at any     *)
(* message (soft or hard limit, abort) and hands back `ending_state' in    *)
(* its eof; or it dies without an eof.  The next request starts from the   *)
(* state the client stored last.                                           *)
(*                                                                         *)
(* Three JavaScript facts shape the model:                                 *)
(*   - ranges are objects: `ranges' is the heap of the running request,    *)
(*     and the queue, the in-flight map, the `remaining' list of a page    *)
(*     event and the state message built from it all hold references;      *)
(*   - a fetch mutates the cursor of its range when the response arrives,  *)
(*     which may be while the consumer is still yielding an earlier page;  *)
(*   - nothing copies the state message, so what ending_state says is what *)
(*     the referenced ranges hold when the eof is serialised.              *)
(*                                                                         *)
(* The stream's objects are fixed and named by their position in the       *)
(* newest-first list: Created[i] is the created second of the i-th.        *)
(***************************************************************************)
EXTENDS Ranges

CONSTANTS
  Created,            \* created seconds, newest first
  PageSize,           \* objects per page (100 in the code)
  Concurrency,        \* parallel fetches of one stream (1 in the code)
  SubdivisionFactor,  \* SUBDIVISION_FACTOR, by default 2
  BackfillLimit,      \* backfill_limit of the stream; 0 when there is none
  TimeRanges,         \* the time_range values a run may be given
  MaxRequests         \* bound on the requests of a behaviour

Objects == 1 .. Len(Created)

ASSUME CreatedAssumption ==
  /\ Created \in Seq(Nat \ {0})
  /\ \A i, j \in Objects : i < j => Created[i] >= Created[j]

ASSUME ParameterAssumption ==
  /\ PageSize \in Nat \ {0}
  /\ Concurrency \in Nat \ {0}
  /\ SubdivisionFactor \in Nat \ {0}
  /\ BackfillLimit \in Nat
  /\ MaxRequests \in Nat
  /\ TimeRanges \subseteq Interval

\* No time range starts after another has ended.  The engine only sets the
\* upper end (time_ceiling); a caller that reconfigures a stream with a range
\* apart from the accounted one makes reconcileRanges add seconds outside the
\* new range, and later ranges then overlap.
TimeRangesMeet == \A a, b \in TimeRanges : a.gte <= b.lt

VARIABLES
  \* --- the running request
  phase,      \* where iterateStream stands
  ranges,     \* heap of range objects
  queue,      \* references waiting for a fetch
  inflight,   \* references being fetched
  fetched,    \* responses the generator has not taken yet
  event,      \* the page event iterateStream is working on
  held,       \* references of the engine's current state for this stream
  timeRange,  \* time_range of the run
  status,     \* the stream's status in sync_run.progress
  completed,  \* its completed_ranges
  seen,       \* objects this call of iterateStream has emitted
  \* --- what the client keeps between requests
  stored,     \* the ending_state of the last eof
  requests,   \* number of requests so far
  \* --- history
  emitted,    \* objects ever emitted
  forgone     \* objects no later request will look for again

request == <<phase, ranges, queue, inflight, fetched, event, held, seen>>
vars == <<request, timeRange, status, completed, stored, requests,
          emitted, forgone>>

NoObservation == 0
NoInterval == [gte |-> 0, lt |-> 0]
NoEvent == [ref |-> 0, data |-> {}, hasMore |-> FALSE, oldest |-> 0,
            remaining |-> {}]
NotHeld == [live |-> FALSE, refs |-> {}]

Terminal == {"completed", "errored", "skipped"}

RangeOf(s) == {s[k] : k \in DOMAIN s}

-----------------------------------------------------------------------------
(***************************************************************************)
(* The list endpoint, as src-list-api.ts uses it: newest first, created    *)
(* filter, starting_after, has_more.                                       *)
(***************************************************************************)

\* The objects a range still stands for.
Reach(range) ==
  {i \in Objects : InInterval(Created[i], range) /\ i > range.cursor}

ReachAll(rangeSet) == UNION {Reach(r) : r \in rangeSet}

Page(range) ==
  {i \in Reach(range) :
     Cardinality({j \in Reach(range) : j <= i}) <= PageSize}

InScope(interval) == {i \in Objects : InInterval(Created[i], interval)}

\* What the references stand for now.
Deref(refs) == {ranges[x] : x \in refs}

-----------------------------------------------------------------------------
(***************************************************************************)
(* Starting a request                                                      *)
(***************************************************************************)

\* The ranges iterateStream starts from.
Resume(tr) ==
  IF ~stored.known THEN {Fresh(tr.gte, tr.lt)}
  ELSE IF stored.accounted # tr
       THEN ReconcileRanges(stored.remaining, stored.accounted, tr)
       ELSE stored.remaining

\* while (launchNext()) {}: references leave the front of the queue as long as
\* there is a free slot; `others' are those already in flight.
LaunchNext(others, refs) ==
  LET n == Smaller(Concurrency - Cardinality(others), Len(refs))
  IN  /\ inflight' = others \cup {refs[k] : k \in 1 .. n}
      /\ queue' = SubSeq(refs, n + 1, Len(refs))

\* iterateStream begins: the remaining ranges are copied, `start' is emitted.
Begin(tr) ==
  /\ Resume(tr) # {}
  /\ \E s \in [1 .. Cardinality(Resume(tr)) -> Resume(tr)] :
       /\ RangeOf(s) = Resume(tr)
       /\ ranges' = s
       /\ LaunchNext({}, [k \in DOMAIN s |-> k])
  /\ phase' = "await"
  /\ status' = "started"
  /\ UNCHANGED <<fetched, event, held, seen, stored>>

\* Nothing remains: iterateStream returns before `start' and says nothing.
\* The source ends by itself, so the eof carries has_more = FALSE.
SilentReturn(tr, st, done) ==
  /\ Resume(tr) = {}
  /\ status' = st
  /\ stored' = [stored EXCEPT !.hasMore = FALSE, !.timeRange = tr,
                              !.status = st, !.completed = done]
  /\ UNCHANGED request

\* A request with a new run_id: progress is reset, the source state is kept.
NewRun(tr) ==
  /\ phase = "idle"
  /\ requests < MaxRequests
  /\ requests' = requests + 1
  /\ timeRange' = tr
  /\ completed' = {}
  /\ \/ Begin(tr)
     \/ SilentReturn(tr, "not_started", {})
  /\ UNCHANGED <<emitted, forgone>>

\* A request with the run_id of the stored state: streams with a terminal
\* status are excluded, time_ceiling and progress are kept.
Continue ==
  /\ phase = "idle"
  /\ stored.hasMore
  /\ status \notin Terminal
  /\ requests < MaxRequests
  /\ requests' = requests + 1
  /\ \/ Begin(timeRange)
     \/ SilentReturn(timeRange, status, completed)
  /\ UNCHANGED <<timeRange, completed, emitted, forgone>>

-----------------------------------------------------------------------------
(***************************************************************************)
(* Page fetches                                                            *)
(***************************************************************************)

Answered == {f.ref : f \in fetched}

\* A response arrives: fetchPageForRange mutates range.cursor in place.
FetchPageForRange(x) ==
  /\ x \in inflight \ Answered
  /\ LET page    == Page(ranges[x])
         hasMore == Reach(ranges[x]) # page
     IN  \E last \in Objects \cup {NoCursor} :
           /\ IF page = {} THEN last = NoCursor
              ELSE last \in page /\ \A i \in page : i <= last
           /\ ranges' = [ranges EXCEPT ![x].cursor =
                           IF hasMore THEN last ELSE NoCursor]
           /\ fetched' = fetched \cup
                {[ref |-> x, failure |-> "none", data |-> page,
                  hasMore |-> hasMore,
                  lastObserved |-> IF page = {} THEN NoObservation
                                   ELSE Created[last]]}
  /\ UNCHANGED <<phase, queue, inflight, event, held, seen, timeRange,
                 status, completed, stored, requests, emitted, forgone>>

\* The request fails after its retries; a skippable error skips the stream.
FetchRejects(x, failure) ==
  /\ x \in inflight \ Answered
  /\ fetched' = fetched \cup
       {[ref |-> x, failure |-> failure, data |-> {}, hasMore |-> FALSE,
         lastObserved |-> NoObservation]}
  /\ UNCHANGED <<phase, ranges, queue, inflight, event, held, seen,
                 timeRange, status, completed, stored, requests, emitted,
                 forgone>>

-----------------------------------------------------------------------------
(***************************************************************************)
(* The generator streamingSubdivide                                        *)
(***************************************************************************)

\* All ranges not yet fully fetched: in flight and queued.
SnapshotRemaining(inflightRefs, queued) == inflightRefs \cup RangeOf(queued)

\* What a response puts back on the queue: the children of a split range,
\* the range itself, or nothing when it has no more pages.
Split(f) ==
  /\ f.hasMore
  /\ f.lastObserved # NoObservation
  /\ Splits(ranges[f.ref], f.lastObserved, SubdivisionFactor)

NewRanges(f) ==
  IF Split(f)
  THEN Children(ranges[f.ref], f.lastObserved, SubdivisionFactor)
  ELSE <<>>

\* Faulty forms of Requeued: children referenced one off, an exhausted range
\* queued again.
RequeuedOneOff(f) ==
  IF Split(f) THEN [k \in 1 .. Len(NewRanges(f)) |-> Len(ranges) + k + 1]
  ELSE IF f.hasMore THEN <<f.ref>> ELSE <<>>
RequeuedAlways(f) ==
  IF Split(f) THEN [k \in 1 .. Len(NewRanges(f)) |-> Len(ranges) + k]
  ELSE <<f.ref>>

Requeued(f) ==
  IF Split(f) THEN [k \in 1 .. Len(NewRanges(f)) |-> Len(ranges) + k]
  ELSE IF f.hasMore THEN <<f.ref>> ELSE <<>>

\* The generator resumes on a response, launches new fetches first and only
\* then yields the page with its list of remaining ranges.
TakePage(f) ==
  /\ phase = "await"
  /\ f \in fetched
  /\ f.failure = "none"
  /\ LaunchNext(inflight \ {f.ref}, queue \o Requeued(f))
  /\ ranges' = ranges \o NewRanges(f)
  /\ fetched' = fetched \ {f}
  /\ event' = [ref |-> f.ref, data |-> f.data, hasMore |-> f.hasMore,
               oldest |-> f.lastObserved,
               remaining |-> SnapshotRemaining(inflight', queue')]
  /\ phase' = "records"
  /\ UNCHANGED <<held, seen, timeRange, status, completed, stored, requests,
                 emitted, forgone>>

\* Faulty form of TakeFailure: the stream ends, so it is reported complete.
TakeFailureAsComplete(f) ==
  /\ phase = "await"
  /\ f \in fetched
  /\ f.failure # "none"
  /\ status' = "completed"
  /\ phase' = "ended"
  /\ UNCHANGED <<ranges, queue, inflight, fetched, event, held, seen,
                 timeRange, completed, stored, requests, emitted, forgone>>

\* Promise.race rejects: listApiBackfill turns the error into a status and
\* goes on to the other streams; this one is over.
TakeFailure(f) ==
  /\ phase = "await"
  /\ f \in fetched
  /\ f.failure # "none"
  /\ status' = IF f.failure = "skip" THEN "skipped" ELSE "errored"
  /\ phase' = "ended"
  /\ UNCHANGED <<ranges, queue, inflight, fetched, event, held, seen,
                 timeRange, completed, stored, requests, emitted, forgone>>

\* Faulty form of Drained: nothing queued taken for nothing to do.
DrainedQueueOnly ==
  /\ phase = "await"
  /\ queue = <<>>
  /\ phase' = "final"
  /\ UNCHANGED <<ranges, queue, inflight, fetched, event, held, seen,
                 timeRange, status, completed, stored, requests, emitted,
                 forgone>>

\* Nothing in flight: the generator is done.
Drained ==
  /\ phase = "await"
  /\ inflight = {}
  /\ phase' = "final"
  /\ UNCHANGED <<ranges, queue, inflight, fetched, event, held, seen,
                 timeRange, status, completed, stored, requests, emitted,
                 forgone>>

-----------------------------------------------------------------------------
(***************************************************************************)
(* The message loop of iterateStream                                       *)
(***************************************************************************)

EmitRecord ==
  /\ phase = "records"
  /\ \E i \in event.data :
       /\ \A j \in event.data : i <= j
       /\ event' = [event EXCEPT !.data = @ \ {i}]
       /\ emitted' = emitted \cup {i}
       /\ seen' = seen \cup {i}
  /\ UNCHANGED <<phase, ranges, queue, inflight, fetched, held, timeRange,
                 status, completed, stored, requests, forgone>>

\* The state message carries event.remaining itself, not a copy of it.
EmitState ==
  /\ phase = "records"
  /\ event.data = {}
  /\ held' = [live |-> TRUE, refs |-> event.remaining]
  /\ phase' = "status"
  /\ UNCHANGED <<ranges, queue, inflight, fetched, event, seen, timeRange,
                 status, completed, stored, requests, emitted, forgone>>

\* Faulty form of CompletedHead: the boundary second counted as complete.
CompletedHeadAndBoundary ==
  LET r == ranges[event.ref]
  IN  IF ~event.hasMore THEN {[gte |-> r.gte, lt |-> r.lt]}
      ELSE IF /\ event.oldest # NoObservation
              /\ event.oldest < r.lt
           THEN {[gte |-> event.oldest, lt |-> r.lt]}
           ELSE {}

\* What the page completed: its whole range when that is exhausted, else the
\* part newer than the second of its oldest object.
CompletedHead ==
  LET r == ranges[event.ref]
  IN  IF ~event.hasMore THEN {[gte |-> r.gte, lt |-> r.lt]}
      ELSE IF /\ event.oldest # NoObservation
              /\ event.oldest + 1 < r.lt
           THEN {[gte |-> event.oldest + 1, lt |-> r.lt]}
           ELSE {}

LimitReached == BackfillLimit > 0 /\ Cardinality(seen) >= BackfillLimit

EmitRangeComplete ==
  /\ phase = "status"
  /\ completed' = IF CompletedHead = {} THEN completed
                  ELSE MergeRanges(completed \cup CompletedHead)
  /\ event' = NoEvent
  /\ IF LimitReached
     THEN /\ phase' = "final"
          /\ forgone' = forgone \cup (InScope(timeRange) \ emitted)
     ELSE /\ phase' = "await"
          /\ UNCHANGED forgone
  /\ UNCHANGED <<ranges, queue, inflight, fetched, held, seen, timeRange,
                 status, stored, requests, emitted>>

EmitFinalState ==
  /\ phase = "final"
  /\ held' = [live |-> TRUE, refs |-> {}]
  /\ phase' = "complete"
  /\ UNCHANGED <<ranges, queue, inflight, fetched, event, seen, timeRange,
                 status, completed, stored, requests, emitted, forgone>>

EmitComplete ==
  /\ phase = "complete"
  /\ status' = "completed"
  /\ phase' = "ended"
  /\ UNCHANGED <<ranges, queue, inflight, fetched, event, held, seen,
                 timeRange, completed, stored, requests, emitted, forgone>>

-----------------------------------------------------------------------------
(***************************************************************************)
(* The end of a request                                                    *)
(***************************************************************************)

\* The source state as the eof serialises it.
EndingKnown == held.live \/ stored.known
EndingAccounted == IF held.live THEN timeRange ELSE stored.accounted
EndingRemaining == IF held.live THEN Deref(held.refs) ELSE stored.remaining

\* Objects fetched by this request and not yet yielded.
Undelivered == event.data \cup UNION {f.data : f \in fetched}

\* Those of them that lie in the accounted range and in none of the ranges
\* that remain: the next request does not look for them.
Missed ==
  IF EndingKnown
  THEN (Undelivered \cap InScope(EndingAccounted))
         \ (emitted \cup ReachAll(EndingRemaining))
  ELSE {}

Discard ==
  /\ phase' = "idle"
  /\ ranges' = <<>> /\ queue' = <<>> /\ inflight' = {} /\ fetched' = {}
  /\ event' = NoEvent /\ held' = NotHeld /\ seen' = {}

\* eof: by itself once the stream has ended, or forced by a limit or an
\* abort at any message before that.
Eof ==
  /\ phase # "idle"
  /\ stored' = [known |-> EndingKnown, accounted |-> EndingAccounted,
                remaining |-> EndingRemaining, timeRange |-> timeRange,
                status |-> status, completed |-> completed,
                hasMore |-> phase # "ended"]
  /\ forgone' = forgone \cup Missed
  /\ Discard
  /\ UNCHANGED <<timeRange, status, completed, requests, emitted>>

\* The request dies without an eof: the client still has the previous state.
Crash ==
  /\ phase # "idle"
  /\ Discard
  /\ timeRange' = stored.timeRange
  /\ status' = stored.status
  /\ completed' = stored.completed
  /\ UNCHANGED <<stored, requests, emitted, forgone>>

-----------------------------------------------------------------------------
Init ==
  /\ phase = "idle"
  /\ ranges = <<>> /\ queue = <<>> /\ inflight = {} /\ fetched = {}
  /\ event = NoEvent /\ held = NotHeld /\ seen = {}
  /\ timeRange = NoInterval /\ status = "not_started" /\ completed = {}
  /\ stored = [known |-> FALSE, accounted |-> NoInterval, remaining |-> {},
               timeRange |-> NoInterval, status |-> "not_started",
               completed |-> {}, hasMore |-> FALSE]
  /\ requests = 0
  /\ emitted = {} /\ forgone = {}

\* One step of the running request.
Work ==
  \/ \E x \in inflight : FetchPageForRange(x)
  \/ \E f \in fetched : TakePage(f) \/ TakeFailure(f)
  \/ Drained
  \/ EmitRecord \/ EmitState \/ EmitRangeComplete
  \/ EmitFinalState \/ EmitComplete

Next ==
  \/ \E tr \in TimeRanges : NewRun(tr)
  \/ Continue
  \/ Work
  \/ \E x \in inflight, failure \in {"error", "skip"} :
       FetchRejects(x, failure)
  \/ Eof
  \/ Crash

Spec == Init /\ [][Next]_vars

\* The event loop keeps running a request that nobody stops, a request that
\* ended by itself gets its eof, and the caller follows up has_more.
Fairness ==
  /\ WF_vars(Work)
  /\ WF_vars(phase = "ended" /\ Eof)
  /\ WF_vars(Continue)

FairSpec == Spec /\ Fairness

-----------------------------------------------------------------------------
(***************************************************************************)
(* Properties                                                              *)
(***************************************************************************)

Refs == 1 .. Len(ranges)

Response == [ref : Refs, failure : {"none", "error", "skip"},
             data : SUBSET Objects, hasMore : BOOLEAN, lastObserved : Nat]

\* The variables keep their types and every reference points into the heap.
TypeOK ==
  /\ phase \in {"idle", "await", "records", "status", "final", "complete",
                "ended"}
  /\ ranges \in Seq(Range3)
  /\ queue \in Seq(Refs)
  /\ inflight \in SUBSET Refs
  /\ fetched \in SUBSET Response
  /\ event \in [ref : Refs \cup {0}, data : SUBSET Objects,
                hasMore : BOOLEAN, oldest : Nat, remaining : SUBSET Refs]
  /\ held \in [live : BOOLEAN, refs : SUBSET Refs]
  /\ timeRange \in Interval
  /\ status \in {"not_started", "started"} \cup Terminal
  /\ completed \in SUBSET Interval
  /\ seen \in SUBSET Objects
  /\ stored \in [known : BOOLEAN, accounted : Interval,
                 remaining : SUBSET Range3, timeRange : Interval,
                 status : {"not_started", "started"} \cup Terminal,
                 completed : SUBSET Interval, hasMore : BOOLEAN]
  /\ requests \in 0 .. MaxRequests
  /\ emitted \in SUBSET Objects
  /\ forgone \in SUBSET Objects

\* The ranges whose next page is still to come: those waiting, those in
\* flight, and those whose response says there is more or failed.
OpenRefs ==
  RangeOf(queue) \cup (inflight \ Answered)
    \cup {f.ref : f \in {g \in fetched : g.hasMore \/ g.failure # "none"}}

\* Subdivision loses nothing: while a request runs, every object of the
\* run's time_range has been emitted, is in a page the request holds, or is
\* still covered by a range of the work-queue (or was forgone before).
WorkQueueCovers ==
  phase # "idle" =>
    InScope(timeRange) \subseteq
      emitted \cup forgone \cup Undelivered \cup ReachAll(Deref(OpenRefs))

\* The checkpoint the engine holds misses at most objects that this request
\* has fetched and not yet yielded; the stored one misses nothing.
CheckpointCovers ==
  /\ EndingKnown =>
       InScope(EndingAccounted) \subseteq
         emitted \cup forgone \cup Undelivered \cup ReachAll(EndingRemaining)
  /\ stored.known =>
       InScope(stored.accounted) \subseteq
         emitted \cup forgone \cup ReachAll(stored.remaining)

\* `complete' is truthful: no object of the run's time_range is outstanding.
CompleteIsTruthful ==
  status = "completed" => InScope(timeRange) \subseteq emitted \cup forgone

\* range_complete is truthful: no object of a completed range is outstanding,
\* also when the range was split, passed through or resumed on the way.
RangeCompleteIsTruthful ==
  \A q \in completed : InScope(q) \subseteq emitted \cup forgone

\* One request never emits an object twice: children of a split are disjoint
\* up to the boundary second, which the inherited cursor halves.
EmittedOnce == [][EmitRecord => seen' # seen]_vars

\* A request that nobody cuts off and whose fetches are answered ends.
EveryRequestEnds == phase # "idle" ~> phase \in {"ended", "idle"}

\* A cut request loses nothing: whatever was fetched and not delivered is
\* fetched again by the next one, as sync-lifecycle-source-stripe.md says of
\* the checkpoint emitted after each page ("This ensures resumability").
CutLosesNothing == forgone = {}

\* A stream that started and has no terminal status yet still has more to do,
\* so the caller goes on until it has one, as sync-lifecycle.md says ("A
\* stream ends with exactly one of these").
StartedIsResumed ==
  phase = "idle" /\ status = "started" => stored.hasMore

\* The contract of a stream's backfill, which this module implements.
Contract == INSTANCE BackfillContract WITH
  scope     <- InScope(timeRange),
  delivered <- emitted,
  abandoned <- forgone,
  saved     <- [status |-> stored.status,
                scope  |-> InScope(stored.timeRange)]

ImplementsContract == Contract!Spec
=============================================================================
