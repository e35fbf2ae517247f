----------------------------- MODULE LiveEvents -----------------------------
(* From the backfill to live events: read() of the Stripe source (listing,  *)
(* then /v1/events, then the queue of a websocket), the cursor and the      *)
(* stream states it leaves behind, webhook events that the service syncs by *)
(* requests of their own, and the Postgres table that all of them write.    *)
(*                                                                          *)
(* A stream holds one object, which exists from the start. A change of the  *)
(* object is an event, its version the place of that event in `history`.    *)
(* Writes succeed: what a failed one does is the subject of SyncRun.        *)
(* Time is counted in seconds, the grain of event.created, of the Date of a *)
(* response and so of the stamp (_updated_at) of a record.                  *)
EXTENDS Naturals, Sequences, FiniteSets

CONSTANTS
    Stream,       \* streams of the catalog
    Websocket,    \* the values of config.websocket
    MaxTime,      \* bound: seconds
    MaxEvents,    \* bound: changes
    MaxRequests   \* bound: requests of the pipeline

ASSUME LiveEventsAssumption ==
    /\ IsFiniteSet(Stream) /\ Websocket \subseteq BOOLEAN
    /\ {MaxTime, MaxEvents, MaxRequests} \subseteq Nat

VARIABLES
    now,
    history,    \* Stripe: the events of the account
    table,      \* Postgres: the row of each stream's object
    stored,     \* what the client keeps of the last eof
    state,      \* syncState of the open request
    phase,      \* where read() of the open request stands
    websocket,  \* config.websocket
    request,    \* its input state, catalog, startTimestamp and the events before it
    page,       \* per stream, the list page that is on its way to the table
    events,     \* pollEvents: the events still to be processed
    latest,     \* pollEvents: latestEventCreated
    queue,      \* createInputQueue
    late,       \* pages that a request that was cut may still write
    unwritten,  \* history variable: events skipped as their stream had ended
    erased,     \* history variable: streams whose row a deletion has removed
    heard,      \* the last event that the websocket has brought
    requests

requestVars == <<websocket, state, phase, request, page, events, latest, queue, heard>>
vars == <<now, history, table, stored, requestVars, late, unwritten, erased, requests>>

-----------------------------------------------------------------------------
(* The table.                                                               *)

Copies == [version : 0 .. MaxEvents, stamp : 0 .. MaxTime]
NoRow == [version |-> 0, stamp |-> MaxTime + 1]

(* Mutant: a copy of the same second replaces.                              *)
NewerOrSame(copy, row) == copy.stamp >= row.stamp

Newer(copy, row) == copy.stamp > row.stamp

(* INSERT ... ON CONFLICT DO UPDATE ... WHERE *)
Upsert(s, copy) ==
    IF table[s] = NoRow \/ Newer(copy, table[s])
    THEN [table EXCEPT ![s] = copy] ELSE table

(* deleteMany: without regard to the stamp, and without a tombstone.        *)
Delete(s) == [table EXCEPT ![s] = NoRow]

Written(i) ==
    LET e == history[i] IN
    IF e.deleted THEN Delete(e.stream)
    ELSE Upsert(e.stream, [version |-> i, stamp |-> e.created])

Erased(i) ==
    IF history[i].deleted THEN erased \cup {history[i].stream} ELSE erased

-----------------------------------------------------------------------------
(* Stripe.                                                                  *)

Of(s) == {i \in DOMAIN history : history[i].stream = s}
Version(s) == IF Of(s) = {} THEN 0 ELSE CHOOSE i \in Of(s) : \A j \in Of(s) : j <= i
Deleted(s) == \E i \in Of(s) : history[i].deleted

Tick ==
    /\ now < MaxTime
    /\ now' = now + 1
    /\ UNCHANGED <<history, table, stored, requestVars, late, unwritten, erased, requests>>

Change(s, deleted) ==
    /\ Len(history) < MaxEvents /\ ~Deleted(s)
    /\ history' = Append(history, [stream |-> s, created |-> now, deleted |-> deleted])
    /\ UNCHANGED <<now, table, stored, requestVars, late, unwritten, erased, requests>>

-----------------------------------------------------------------------------
(* States. A stream has no state, one with an empty `remaining`, or the one *)
(* that an event leaves. `ended` are the streams with a terminal status in  *)
(* this run, `since` is a history variable: where the cursor started.       *)

NoCursor == MaxTime + 1
EmptyState ==
    [streams |-> [s \in Stream |-> "none"], cursor |-> NoCursor, since |-> NoCursor,
     ended   |-> {}]

States ==
    [streams : [Stream -> {"none", "done", "event"}], cursor : 0 .. NoCursor,
     since : 0 .. NoCursor, ended : SUBSET Stream]

(* parseSyncState: a stream state without `remaining` discards everything.  *)
ParseSyncState(input) ==
    IF \E s \in Stream : input.streams[s] = "event" THEN EmptyState ELSE input

NoRequest == [input |-> EmptyState, streams |-> {}, start |-> 0, from |-> 0]

TypeOK ==
    /\ now \in 0 .. MaxTime
    /\ history \in Seq([stream : Stream, created : 0 .. MaxTime, deleted : BOOLEAN])
    /\ table \in [Stream -> Copies \cup {NoRow}]
    /\ stored \in States /\ state \in States
    /\ phase \in {"idle", "backfill", "poll", "wait"}
    /\ request \in [input : States, streams : SUBSET Stream, start : 0 .. MaxTime,
                   from : Nat]
    /\ websocket \in BOOLEAN
    /\ page \in [Stream -> Copies \cup {NoRow}]
    /\ events \in Seq(DOMAIN history) /\ queue \in Seq(DOMAIN history)
    /\ latest \in 0 .. NoCursor
    /\ late \subseteq Stream \X Copies
    /\ unwritten \subseteq DOMAIN history /\ erased \subseteq Stream
    /\ heard \in Nat /\ requests \in Nat

-----------------------------------------------------------------------------
(* A request opens: another run, or a continuation without the streams that *)
(* have ended.                                                              *)

Open(newRun) ==
    LET input == ParseSyncState(stored)
        streams == IF newRun THEN Stream ELSE Stream \ input.ended IN
    /\ phase = "idle" /\ requests < MaxRequests
    /\ newRun \/ (requests > 0 /\ input = stored)
    /\ phase' = "backfill"
    /\ request' = [input |-> input, streams |-> streams, start |-> now,
                    from |-> Len(history)]
    /\ heard' = IF websocket THEN Len(history) ELSE 0
    /\ state' = IF newRun THEN [input EXCEPT !.ended = {}] ELSE input
    /\ requests' = requests + 1
    /\ UNCHANGED <<now, history, websocket, table, stored, page, events, latest, queue,
                   late, unwritten, erased>>

-----------------------------------------------------------------------------
(* The backfill. A later run lists objects created since the one before, so *)
(* the objects here are listed only without a state.                        *)

Reading(s) ==
    /\ phase = "backfill"
    /\ s \in request.streams \ state.ended

NothingToList(s) ==
    /\ Reading(s) /\ request.input.streams[s] = "done"
    /\ state' = [state EXCEPT !.ended = @ \cup {s}]
    /\ UNCHANGED <<websocket, now, history, table, stored, phase, request, page, events, latest,
                   queue, late, unwritten, erased, heard, requests>>

(* The response: its data and its Date.                                     *)
List(s) ==
    /\ Reading(s) /\ request.input.streams[s] = "none" /\ page[s] = NoRow
    /\ ~Deleted(s)
    /\ page' = [page EXCEPT ![s] = [version |-> Version(s), stamp |-> now]]
    /\ UNCHANGED <<websocket, now, history, table, stored, state, phase, request, events, latest,
                   queue, late, unwritten, erased, heard, requests>>

(* The page's records, its state and `complete' pass the destination.       *)
PageWritten(s) ==
    /\ Reading(s) /\ request.input.streams[s] = "none"
    /\ page[s] # NoRow \/ Deleted(s)
    /\ state' = [state EXCEPT !.streams[s] = "done", !.ended = @ \cup {s}]
    /\ table' = IF page[s] = NoRow THEN table ELSE Upsert(s, page[s])
    /\ page' = [page EXCEPT ![s] = NoRow]
    /\ UNCHANGED <<websocket, now, history, stored, phase, request, events, latest,
                   queue, late, unwritten, erased, heard, requests>>

-----------------------------------------------------------------------------
(* processStripeEvent and the destination behind it. Every event is         *)
(* followed by the state of its stream, so it is written at once.           *)

Process(i) ==
    LET s == history[i].stream IN
    IF s \in request.streams
    THEN /\ table' = Written(i) /\ erased' = Erased(i)
         /\ state' = [state EXCEPT !.streams[s] = "event"]
         /\ UNCHANGED unwritten
    ELSE /\ unwritten' = unwritten \cup {i}
         /\ UNCHANGED <<table, state, erased>>

-----------------------------------------------------------------------------
(* pollEvents.                                                              *)

AllComplete == \A s \in request.streams : request.input.streams[s] = "done"

Since(cursor) == {i \in DOMAIN history : history[i].created > cursor}

(* `created' grows along the history, so the events since a cursor are its  *)
(* last ones.                                                               *)
OldestFirst(is) ==
    LET n == Cardinality(is)
        first == Len(history) - n IN [k \in 1 .. n |-> first + k]

StartPoll ==
    LET cursor == request.input.cursor IN
    /\ phase = "backfill" /\ \A s \in request.streams : s \in state.ended
    /\ phase' = "poll"
    /\ CASE ~AllComplete ->
              /\ events' = <<>> /\ latest' = NoCursor
              /\ UNCHANGED state
         [] AllComplete /\ cursor = NoCursor ->
              /\ events' = <<>> /\ latest' = NoCursor
              /\ state' = [state EXCEPT !.cursor = request.start, !.since = request.start]
         [] AllComplete /\ cursor # NoCursor ->
              /\ events' = OldestFirst(Since(cursor))
              /\ latest' = cursor
              /\ UNCHANGED state
    /\ UNCHANGED <<websocket, now, history, table, stored, request, page, queue, late,
                   unwritten, erased, heard, requests>>

PollEvent ==
    /\ phase = "poll" /\ events # <<>>
    /\ LET i == Head(events) IN
       /\ Process(i)
       /\ latest' = IF history[i].created > latest THEN history[i].created ELSE latest
    /\ events' = Tail(events)
    /\ UNCHANGED <<websocket, now, history, stored, phase, request, page, queue, late, heard,
                   requests>>

(* Mutant: the cursor moves to the time of the poll.                        *)
CursorIsNow ==
    IF latest # NoCursor THEN [state EXCEPT !.cursor = now] ELSE state

CursorAfter ==
    IF latest # NoCursor THEN [state EXCEPT !.cursor = latest] ELSE state

Polled ==
    /\ phase = "poll" /\ events = <<>> /\ websocket
    /\ state' = CursorAfter
    /\ latest' = NoCursor
    /\ phase' = "wait"
    /\ UNCHANGED <<websocket, now, history, table, stored, request, page, events, queue,
                   late, unwritten, erased, heard, requests>>

-----------------------------------------------------------------------------
(* The websocket brings the events from its connection on. It acknowledges  *)
(* an event and pushes it; the queue is drained between pages and, at the   *)
(* end, waited for.                                                         *)

Receive ==
    /\ phase # "idle" /\ websocket /\ heard < Len(history)
    /\ heard' = heard + 1
    /\ queue' = Append(queue, heard')
    /\ UNCHANGED <<websocket, now, history, table, stored, state, phase, request, page, events,
                   latest, late, unwritten, erased, requests>>

Drain ==
    /\ phase \in {"backfill", "wait"} /\ queue # <<>>
    /\ Process(Head(queue))
    /\ queue' = Tail(queue)
    /\ UNCHANGED <<websocket, now, history, stored, phase, request, page, events, latest, late,
                   heard, requests>>

-----------------------------------------------------------------------------
(* The request ends.                                                        *)

Gone ==
    /\ phase' = "idle" /\ state' = EmptyState /\ request' = NoRequest
    /\ page' = [s \in Stream |-> NoRow]
    /\ events' = <<>> /\ latest' = NoCursor /\ queue' = <<>>
    /\ heard' = 0
    /\ UNCHANGED <<websocket, now, history, table, erased, requests>>

Eof ==
    /\ phase = "poll" /\ events = <<>> /\ ~websocket
    /\ stored' = CursorAfter
    /\ Gone
    /\ UNCHANGED <<late, unwritten>>

(* A hard limit: there is an eof, and what is on its way to the destination *)
(* may still be written.                                                    *)
HardLimit ==
    /\ phase # "idle"
    /\ stored' = state
    /\ late' = late \cup {<<s, page[s]>> : s \in {x \in Stream : page[x] # NoRow}}
    /\ Gone
    /\ UNCHANGED unwritten

(* The process dies. *)
Crash ==
    /\ phase # "idle"
    /\ Gone
    /\ UNCHANGED <<stored, late, unwritten>>

WrittenLate(copy) ==
    /\ copy \in late
    /\ table' = Upsert(copy[1], copy[2])
    /\ late' = late \ {copy}
    /\ UNCHANGED <<now, history, stored, requestVars, unwritten, erased, requests>>

(* A webhook event, which the service syncs by a request of its own: in any *)
(* order and more than once. (Websockets are for the command line.)         *)
Webhook(i) ==
    /\ i \in DOMAIN history /\ ~websocket
    /\ table' = Written(i) /\ erased' = Erased(i)
    /\ UNCHANGED <<now, history, stored, requestVars, late, unwritten, requests>>

-----------------------------------------------------------------------------

Init ==
    /\ websocket \in Websocket
    /\ now = 0 /\ history = <<>>
    /\ table = [s \in Stream |-> NoRow]
    /\ stored = EmptyState /\ state = EmptyState
    /\ phase = "idle" /\ request = NoRequest
    /\ page = [s \in Stream |-> NoRow]
    /\ events = <<>> /\ latest = NoCursor /\ queue = <<>>
    /\ late = {} /\ unwritten = {} /\ erased = {} /\ heard = 0
    /\ requests = 0

Next ==
    \/ Tick
    \/ \E s \in Stream, deleted \in BOOLEAN : Change(s, deleted)
    \/ \E newRun \in BOOLEAN : Open(newRun)
    \/ \E s \in Stream :
          \/ NothingToList(s)
          \/ List(s)
          \/ PageWritten(s)
    \/ StartPoll
    \/ PollEvent
    \/ Polled
    \/ \E i \in DOMAIN history : Webhook(i)
    \/ Receive
    \/ Drain
    \/ Eof
    \/ HardLimit
    \/ Crash
    \/ \E copy \in late : WrittenLate(copy)

Spec == Init /\ [][Next]_vars

-----------------------------------------------------------------------------
(* Properties.                                                              *)

(* Whatever order pages, events, retries and the writes of requests long    *)
(* gone reach the table in, a row is never replaced by an older version of  *)
(* its object: the stamp of a page is the Date of its response, that of an  *)
(* event its created second, and only a strictly newer stamp replaces.      *)
RowsOnlyAdvance ==
    [][ \A s \in Stream :
          table[s] # NoRow /\ table'[s] # NoRow
              => table'[s].version >= table[s].version ]_vars

(* The table is up to event i: the row holds that version of the object or   *)
(* a later one, or a deletion has removed it and it is still gone.           *)
Reflected(i) ==
    LET s == history[i].stream IN
    IF table[s] = NoRow THEN s \in erased
    ELSE ~history[i].deleted /\ table[s].version >= i

(* Two ways of the table to lose an event it was given. The row already had  *)
(* the stamp of the event's second, from an earlier event or from a page     *)
(* listed in that second: nothing replaces it but a later stamp.             *)
LostToItsSecond(i) ==
    LET row == table[history[i].stream] IN
    /\ row # NoRow /\ ~history[i].deleted
    /\ row.version < i /\ row.stamp = history[i].created

(* Or a deletion removed the row and an older copy has brought it back.      *)
Returned(s) == s \in erased /\ table[s] # NoRow

Covered(i) == Reflected(i) \/ LostToItsSecond(i) \/ Returned(history[i].stream)

FirstOfItsSecond(i) == \A j \in 1 .. i - 1 : history[j].created < history[i].created

(* The cursor a request leaves behind has no unwritten event before it,     *)
(* from where polling began: it moves only when every event of the poll has *)
(* been through the destination, although others arrive meanwhile. Granted  *)
(* are the two losses of the table, an event of a stream that had ended in  *)
(* this run, and one that comes after a poll in the very second of the      *)
(* poll's last event.                                                       *)
CursorCovers ==
    \A st \in {stored, state} : \A i \in DOMAIN history \ unwritten :
        /\ st.cursor # NoCursor /\ FirstOfItsSecond(i)
        /\ st.since < history[i].created /\ history[i].created < st.cursor
        => Covered(i)

(* While a websocket request lives, each event it has acknowledged waits in *)
(* the queue or is in the table: none falls between the pages of the        *)
(* backfill, the poll and the wait. Granted are the losses of the table and *)
(* the events of ended streams.                                             *)
ReceivedIsWritten ==
    \A i \in (request.from + 1 .. heard) \ unwritten :
        (\E k \in DOMAIN queue : queue[k] = i) \/ Covered(i)

(* Once there is a cursor, every change before it has reached the table:    *)
(* the live phase takes over where the backfill began.                      *)
LiveHandover ==
    stored.cursor # NoCursor =>
        \A i \in DOMAIN history \ unwritten :
            history[i].created < stored.cursor => Covered(i)

(* What one delivery path has taken charge of, no other needs to repeat: all *)
(* that lies before the cursor, and all that a websocket has acknowledged,   *)
(* is in the table or still in the hands of the request, but for the losses  *)
(* that the two parts name.                                                  *)
EventsCovered == TypeOK /\ CursorCovers /\ ReceivedIsWritten

(* Without the losses of the table: each event that was acknowledged and has *)
(* left the queue is in the table. (Refuted: the stamp's grain is a second.) *)
AcknowledgedIsInTable ==
    \A i \in (request.from + 1 .. heard) \ unwritten :
        (\E k \in DOMAIN queue : queue[k] = i) \/ Reflected(i)
=============================================================================
