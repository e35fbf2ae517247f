-------------------------- MODULE LiveEventsProofs --------------------------
(* Proofs about LiveEvents, for every set of streams and every bound on     *)
(* time, events and requests.                                               *)
EXTENDS LiveEvents, FiniteSetTheorems, SequenceTheorems, WellFoundedInduction, TLAPS

Seconds == 0 .. MaxTime
Cursors == 0 .. NoCursor
Event   == [stream : Stream, created : Seconds, deleted : BOOLEAN]
Rows    == Copies \cup {NoRow}
Marks   == {"none", "done", "event"}
Created(i) == history[i].created

LEMMA Parameters ==
    /\ MaxTime \in Nat /\ MaxEvents \in Nat /\ NoCursor \in Nat /\ NoCursor \notin Seconds
    /\ Seconds \subseteq Nat /\ Seconds \subseteq Cursors /\ Cursors \subseteq Nat
    /\ NoCursor \in Cursors /\ 0 \in Seconds
    /\ \A n \in Nat : n \in 0 .. NoCursor /\ n # NoCursor <=> n \in Seconds
  BY LiveEventsAssumption DEF Seconds, Cursors, NoCursor

LEMMA RowsAre ==
    /\ NoRow \notin Copies
    /\ \A copy \in Copies : /\ copy.version \in Nat /\ copy.version <= MaxEvents
                            /\ copy.stamp \in Nat /\ copy.stamp \in Seconds
    /\ \A version \in 0 .. MaxEvents, stamp \in Seconds :
          [version |-> version, stamp |-> stamp] \in Copies
  BY LiveEventsAssumption DEF NoRow, Copies, Seconds

LEMMA StateFields ==
    ASSUME NEW st \in States
    PROVE  /\ st.streams \in [Stream -> Marks] /\ st.cursor \in Cursors /\ st.since \in Cursors
           /\ st.ended \in SUBSET Stream
  BY DEF States, Marks, Cursors

(* The fields of a state, as sets that stay folded.                         *)
LEMMA StatesAre ==
    \E Streams, Sets :
       /\ Streams = [Stream -> Marks] /\ Sets = SUBSET Stream
       /\ States = [streams : Streams, cursor : Cursors, since : Cursors, ended : Sets]
  BY DEF States, Marks, Cursors

LEMMA MarkChanges ==
    ASSUME NEW st \in States, NEW s \in Stream, NEW mark \in Marks
    PROVE  /\ [st EXCEPT !.streams[s] = mark] \in States
           /\ [st EXCEPT !.streams[s] = mark].cursor = st.cursor
           /\ [st EXCEPT !.streams[s] = mark].since = st.since
<1>1. PICK Streams, Sets :
        /\ Streams = [Stream -> Marks] /\ Sets = SUBSET Stream
        /\ States = [streams : Streams, cursor : Cursors, since : Cursors, ended : Sets]
  BY StatesAre
<1> DEFINE streams == [st.streams EXCEPT ![s] = mark]
<1>2. streams \in Streams
  BY <1>1, StateFields
<1>3. [st EXCEPT !.streams[s] = mark] = [st EXCEPT !.streams = streams]
  OBVIOUS
<1> HIDE DEF streams
<1>4. /\ [st EXCEPT !.streams = streams] \in States
      /\ [st EXCEPT !.streams = streams].cursor = st.cursor
      /\ [st EXCEPT !.streams = streams].since = st.since
  <2>1. st \in [streams : Streams, cursor : Cursors, since : Cursors, ended : Sets]
    BY <1>1
  <2>2. QED
    BY <1>1, <1>2, <2>1
<1>5. QED
  BY <1>3, <1>4

LEMMA EndedChanges ==
    ASSUME NEW st \in States, NEW ended \in SUBSET Stream
    PROVE  /\ [st EXCEPT !.ended = ended] \in States
           /\ [st EXCEPT !.ended = ended].cursor = st.cursor
           /\ [st EXCEPT !.ended = ended].since = st.since
<1>1. PICK Streams, Sets :
        /\ Streams = [Stream -> Marks] /\ Sets = SUBSET Stream
        /\ States = [streams : Streams, cursor : Cursors, since : Cursors, ended : Sets]
  BY StatesAre
<1>2. st \in [streams : Streams, cursor : Cursors, since : Cursors, ended : Sets]
  BY <1>1
<1>3. QED
  BY <1>1, <1>2

Ends(st, s, mark, ended) == [st EXCEPT !.streams[s] = mark, !.ended = ended]

LEMMA EndsChange ==
    ASSUME NEW st \in States, NEW s \in Stream, NEW mark \in Marks, NEW ended \in SUBSET Stream
    PROVE  /\ Ends(st, s, mark, ended) \in States
           /\ Ends(st, s, mark, ended).cursor = st.cursor
           /\ Ends(st, s, mark, ended).since = st.since
<1>1. PICK Streams, Sets :
        /\ Streams = [Stream -> Marks] /\ Sets = SUBSET Stream
        /\ States = [streams : Streams, cursor : Cursors, since : Cursors, ended : Sets]
  BY StatesAre
<1> DEFINE streams == [st.streams EXCEPT ![s] = mark]
<1>2. streams \in Streams
  BY <1>1, StateFields
<1>3. Ends(st, s, mark, ended) = [st EXCEPT !.streams = streams, !.ended = ended]
  BY DEF Ends
<1> HIDE DEF streams
<1>4. /\ [st EXCEPT !.streams = streams, !.ended = ended] \in States
      /\ [st EXCEPT !.streams = streams, !.ended = ended].cursor = st.cursor
      /\ [st EXCEPT !.streams = streams, !.ended = ended].since = st.since
  <2>1. st \in [streams : Streams, cursor : Cursors, since : Cursors, ended : Sets]
    BY <1>1
  <2>2. QED
    BY <1>1, <1>2, <2>1
<1>5. QED
  BY <1>3, <1>4

LEMMA CursorChanges ==
    ASSUME NEW st \in States, NEW cursor \in Cursors
    PROVE  /\ [st EXCEPT !.cursor = cursor] \in States
           /\ [st EXCEPT !.cursor = cursor].cursor = cursor
           /\ [st EXCEPT !.cursor = cursor].since = st.since
<1>1. PICK Streams, Sets :
        /\ Streams = [Stream -> Marks] /\ Sets = SUBSET Stream
        /\ States = [streams : Streams, cursor : Cursors, since : Cursors, ended : Sets]
  BY StatesAre
<1>2. st \in [streams : Streams, cursor : Cursors, since : Cursors, ended : Sets]
  BY <1>1
<1>3. QED
  BY <1>1, <1>2

LEMMA CursorBegins ==
    ASSUME NEW st \in States, NEW cursor \in Cursors
    PROVE  /\ [st EXCEPT !.cursor = cursor, !.since = cursor] \in States
           /\ [st EXCEPT !.cursor = cursor, !.since = cursor].cursor = cursor
           /\ [st EXCEPT !.cursor = cursor, !.since = cursor].since = cursor
<1>1. PICK Streams, Sets :
        /\ Streams = [Stream -> Marks] /\ Sets = SUBSET Stream
        /\ States = [streams : Streams, cursor : Cursors, since : Cursors, ended : Sets]
  BY StatesAre
<1>2. st \in [streams : Streams, cursor : Cursors, since : Cursors, ended : Sets]
  BY <1>1
<1>3. QED
  BY <1>1, <1>2

LEMMA EmptyStateIs ==
    EmptyState \in States /\ EmptyState.cursor = NoCursor /\ EmptyState.since = NoCursor
<1>1. [s \in Stream |-> "none"] \in [Stream -> Marks]
  BY DEF Marks
<1>2. QED
  BY <1>1, Parameters DEF EmptyState, States, Marks, Cursors

(* Naturals: a nonempty set has a least element, and a greatest one if it   *)
(* is bounded.                                                              *)
LEMMA Least ==
    ASSUME NEW T \in SUBSET Nat, T # {}
    PROVE  \E x \in T : \A y \in T : x <= y
<1> DEFINE R == OpToRel(<, Nat)
<1>1. IsWellFoundedOn(R, Nat)
  BY NatLessThanWellFounded
<1>2. \A x, y \in Nat : y < x => <<y, x>> \in R
  BY DEF OpToRel
<1> HIDE DEF R
<1>3. PICK x \in T : \A y \in T : <<y, x>> \notin R
  BY <1>1, WFMin
<1>4. \A y \in T : ~ (y < x)
  BY <1>2, <1>3
<1>5. x \in Nat /\ \A y \in T : y \in Nat
  OBVIOUS
<1>6. \A y \in T : x <= y
  BY <1>4, <1>5
<1>7. QED
  BY <1>6

LEMMA Greatest ==
    ASSUME NEW n \in Nat, NEW T \in SUBSET (0 .. n), T # {}
    PROVE  \E x \in T : \A y \in T : y <= x
<1> DEFINE U == {n - x : x \in T}
<1>1. U \in SUBSET Nat /\ U # {}
  <2>1. \A x \in T : n - x \in Nat
    OBVIOUS
  <2>2. PICK x \in T : TRUE
    OBVIOUS
  <2>3. n - x \in U
    OBVIOUS
  <2>4. QED
    BY <2>1, <2>3
<1>2. PICK u \in U : \A v \in U : u <= v
  BY <1>1, Least
<1>3. PICK x \in T : u = n - x
  BY <1>2
<1>4. ASSUME NEW y \in T PROVE y <= x
  <2>1. n - y \in U /\ x \in Nat /\ y \in Nat
    OBVIOUS
  <2>2. n - x <= n - y
    BY <1>2, <1>3, <2>1
  <2>3. QED
    BY <2>1, <2>2
<1>5. QED
  BY <1>4

-----------------------------------------------------------------------------
(* The invariant. The history is in the order of its seconds. A copy of an  *)
(* object on its way to the table, or in it, is stamped no earlier than the *)
(* version it holds and no later than the versions after that one. A cursor *)
(* stands where polling began or at an event, and has nothing unwritten up  *)
(* to it; the cursor a poll is about to leave behind follows its events.    *)

Sorted ==
    /\ Len(history) <= MaxEvents
    /\ \A i \in DOMAIN history : Created(i) <= now
    /\ \A i, j \in DOMAIN history : i <= j => Created(i) <= Created(j)

Fits(s, copy) ==
    /\ copy.stamp <= now /\ copy.version <= Len(history)
    /\ copy.version # 0 => copy.version \in Of(s) /\ Created(copy.version) <= copy.stamp
    /\ \A j \in Of(s) : copy.version < j => copy.stamp <= Created(j)

CopiesFit ==
    /\ \A s \in Stream : /\ table[s] # NoRow => Fits(s, table[s])
                         /\ page[s] # NoRow => Fits(s, page[s])
    /\ \A copy \in late : Fits(copy[1], copy[2])

Reaches(since, cursor) ==
    /\ since <= cursor /\ cursor <= now
    /\ cursor = since \/ \E j \in DOMAIN history : Created(j) = cursor
    /\ \A i \in DOMAIN history \ unwritten :
          FirstOfItsSecond(i) /\ since < Created(i) /\ Created(i) <= cursor => Covered(i)

CursorsReach ==
    \A st \in {stored, state} : st.cursor # NoCursor => Reaches(st.since, st.cursor)

BackfillCursor ==
    phase = "backfill" =>
        state.cursor = request.input.cursor /\ state.since = request.input.since

Polling ==
    phase = "poll" =>
        /\ latest = NoCursor => events = <<>>
        /\ latest # NoCursor =>
              /\ state.cursor # NoCursor
              /\ Reaches(state.since, latest)
              /\ \A k \in DOMAIN events : /\ events[k] = events[1] + k - 1
                                          /\ latest <= Created(events[k])
              /\ events # <<>> => \A i \in 1 .. events[1] - 1 : Created(i) <= latest

Inv ==
    /\ TypeOK /\ Sorted /\ CopiesFit
    /\ CursorsReach /\ BackfillCursor /\ Polling
    /\ request.start <= now
    /\ heard <= Len(history) /\ ReceivedIsWritten

-----------------------------------------------------------------------------
(* The history and its events.                                              *)

LEMMA HistoryIs ==
    ASSUME TypeOK
    PROVE  /\ Len(history) \in Nat /\ DOMAIN history = 1 .. Len(history)
           /\ \A i \in DOMAIN history :
                 /\ i \in Nat /\ i >= 1 /\ i <= Len(history)
                 /\ history[i].stream \in Stream /\ history[i].deleted \in BOOLEAN
                 /\ Created(i) \in Seconds /\ Created(i) \in Nat
           /\ \A s : Of(s) \subseteq DOMAIN history
<1>1. history \in Seq(Event)
  BY DEF TypeOK, Event, Seconds
<1>2. /\ Len(history) \in Nat /\ DOMAIN history = 1 .. Len(history)
      /\ \A i \in DOMAIN history : history[i] \in Event
  BY <1>1
<1>3. \A e \in Event : e.stream \in Stream /\ e.deleted \in BOOLEAN /\ e.created \in Seconds
  BY DEF Event
<1>4. \A i \in DOMAIN history : i \in Nat /\ i >= 1 /\ i <= Len(history)
  BY <1>2
<1>5. \A i \in DOMAIN history : /\ history[i].stream \in Stream /\ history[i].deleted \in BOOLEAN
                                /\ Created(i) \in Seconds
  BY <1>2, <1>3 DEF Created
<1>6. \A s : Of(s) \subseteq DOMAIN history
  BY DEF Of
<1>7. QED
  BY <1>2, <1>4, <1>5, <1>6, Parameters

LEMMA SeqGrows ==
    ASSUME NEW S, NEW T, S \subseteq T, NEW q \in Seq(S)
    PROVE  q \in Seq(T)
  OBVIOUS

(* A row that moves is new, newer, or has been erased.                      *)
Moves ==
    /\ table' \in [Stream -> Rows]
    /\ erased \subseteq erased' /\ erased' \subseteq Stream
    /\ \A s \in Stream :
          \/ table'[s] = table[s]
          \/ table'[s] = NoRow /\ s \in erased'
          \/ /\ table'[s] \in Copies /\ Fits(s, table'[s])
             /\ table[s] = NoRow \/ table'[s].stamp > table[s].stamp

LEMMA Stays ==
    ASSUME TypeOK, UNCHANGED <<table, erased>>
    PROVE  Moves
  BY DEF TypeOK, Moves, Rows

LEMMA UpsertMoves ==
    ASSUME TypeOK, NEW s \in Stream, NEW copy \in Copies, Fits(s, copy), table' = Upsert(s, copy),
           UNCHANGED erased
    PROVE  /\ Moves
           /\ table'[s] \in Copies
           /\ \/ table'[s] = copy
              \/ table[s] # NoRow /\ table'[s] = table[s] /\ table[s].stamp >= copy.stamp
<1>1. table \in [Stream -> Rows] /\ copy \in Rows /\ erased' = erased /\ erased \subseteq Stream
  BY DEF TypeOK, Rows
<1>2. table[s] # NoRow => table[s] \in Copies
  BY <1>1 DEF Rows
<1>3. copy.stamp \in Nat /\ (table[s] # NoRow => table[s].stamp \in Nat)
  BY <1>2, RowsAre
<1>4. CASE table[s] = NoRow \/ Newer(copy, table[s])
  <2>1. table' = [table EXCEPT ![s] = copy]
    BY <1>4 DEF Upsert
  <2>2. table' \in [Stream -> Rows] /\ table'[s] = copy
        /\ \A x \in Stream : x # s => table'[x] = table[x]
    BY <1>1, <2>1
  <2>3. table[s] = NoRow \/ copy.stamp > table[s].stamp
    BY <1>4 DEF Newer
  <2>4. Moves
    <3>1. /\ table'[s] \in Copies /\ Fits(s, table'[s])
          /\ table[s] = NoRow \/ table'[s].stamp > table[s].stamp
      BY <2>2, <2>3
    <3>2. QED
      BY <1>1, <2>2, <3>1 DEF Moves
  <2>5. QED
    BY <2>2, <2>4
<1>5. CASE ~ (table[s] = NoRow \/ Newer(copy, table[s]))
  <2>1. table' = table
    BY <1>5 DEF Upsert
  <2>2. table[s].stamp >= copy.stamp
    BY <1>3, <1>5 DEF Newer
  <2>3. QED
    BY <1>1, <1>2, <1>5, <2>1, <2>2 DEF Moves
<1>6. QED
  BY <1>4, <1>5

(* A row is older than event i only if it is stamped no later than i.       *)
LEMMA OlderRow ==
    ASSUME TypeOK, Sorted, NEW i \in DOMAIN history, NEW row \in Copies,
           Fits(history[i].stream, row)
    PROVE  /\ row.version < i => row.stamp <= Created(i)
           /\ row.version >= i => row.stamp >= Created(i)
<1>1. /\ i \in Of(history[i].stream) /\ i \in Nat /\ i >= 1 /\ Created(i) \in Nat
      /\ row.version \in Nat /\ row.stamp \in Nat
  BY HistoryIs, RowsAre DEF Of
<1>2. row.version < i => row.stamp <= Created(i)
  BY <1>1 DEF Fits
<1>3. ASSUME row.version >= i PROVE row.stamp >= Created(i)
  <2>1. row.version \in Of(history[i].stream) /\ Created(row.version) <= row.stamp
    BY <1>1, <1>3 DEF Fits
  <2>2. row.version \in DOMAIN history /\ Created(row.version) \in Nat
    BY <2>1, HistoryIs
  <2>3. Created(i) <= Created(row.version)
    BY <1>3, <2>2 DEF Sorted
  <2>4. QED
    BY <1>1, <2>1, <2>2, <2>3
<1>4. QED
  BY <1>2, <1>3

(* What covers an event: its stream's row was erased, or is as late as it.  *)
LEMMA CoveredIs ==
    ASSUME TypeOK, Sorted, CopiesFit, NEW i \in DOMAIN history
    PROVE  LET s == history[i].stream IN
           Covered(i) <=> \/ s \in erased
                          \/ /\ table[s] # NoRow /\ ~history[i].deleted
                             /\ table[s].stamp >= Created(i)
<1> DEFINE s == history[i].stream
<1>1. s \in Stream /\ i \in Nat /\ Created(i) \in Nat /\ table[s] \in Copies \cup {NoRow}
  BY HistoryIs DEF TypeOK
<1>2. CASE s \in erased
  BY <1>2 DEF Covered, Reflected, Returned
<1>3. CASE s \notin erased /\ table[s] = NoRow
  BY <1>3 DEF Covered, Reflected, Returned, LostToItsSecond
<1>4. CASE s \notin erased /\ table[s] # NoRow
  <2>1. table[s] \in Copies /\ Fits(s, table[s])
    BY <1>1, <1>4 DEF CopiesFit
  <2>2. /\ table[s].version \in Nat /\ table[s].stamp \in Nat
        /\ table[s].version < i => table[s].stamp <= Created(i)
        /\ table[s].version >= i => table[s].stamp >= Created(i)
    BY <2>1, OlderRow, RowsAre
  <2>3. Covered(i) <=> /\ ~history[i].deleted
                       /\ \/ table[s].version >= i
                          \/ table[s].version < i /\ table[s].stamp = Created(i)
    BY <1>4 DEF Covered, Reflected, Returned, LostToItsSecond, Created
  <2>4. QED
    BY <1>1, <1>4, <2>2, <2>3
<1>5. QED
  BY <1>2, <1>3, <1>4

(* An event, once written, is covered.                                      *)
LEMMA WrittenMoves ==
    ASSUME TypeOK, Sorted, CopiesFit, NEW i \in DOMAIN history, table' = Written(i),
           erased' = Erased(i), UNCHANGED history
    PROVE  Moves /\ Covered(i)'
<1> DEFINE s == history[i].stream
           copy == [version |-> i, stamp |-> history[i].created]
<1>1. s \in Stream /\ i \in Nat /\ i \in Of(s) /\ i \in 0 .. MaxEvents /\ Created(i) \in Seconds
      /\ Created(i) \in Nat
  BY HistoryIs, Parameters DEF Sorted, Of
<1>2. erased \subseteq Stream /\ table \in [Stream -> Rows] /\ NoRow \in Rows
  BY DEF TypeOK, Rows
<1>3. CASE history[i].deleted
  <2>1. table' = [table EXCEPT ![s] = NoRow] /\ erased' = erased \cup {s}
    BY <1>3 DEF Written, Delete, Erased
  <2>2. Moves
    BY <1>1, <1>2, <2>1 DEF Moves
  <2>3. table'[s] = NoRow /\ s \in erased' /\ history'[i].stream = s
    BY <1>1, <1>2, <2>1
  <2>4. QED
    BY <2>2, <2>3 DEF Covered, Reflected
<1>4. CASE ~ history[i].deleted
  <2>1. table' = Upsert(s, copy) /\ UNCHANGED erased
    BY <1>4 DEF Written, Erased
  <2>2. copy \in Copies /\ copy.version = i /\ copy.stamp = Created(i)
    BY <1>1, RowsAre DEF Created
  <2>3. Fits(s, copy)
    <3>1. \A j \in Of(s) : i < j => Created(i) <= Created(j)
      BY HistoryIs DEF Sorted
    <3>2. Created(i) <= now /\ i <= Len(history) /\ Created(i) <= Created(i)
      BY <1>1, HistoryIs DEF Sorted
    <3>3. QED
      BY <1>1, <2>2, <3>1, <3>2 DEF Fits
  <2>4. /\ Moves /\ table'[s] \in Copies
        /\ \/ table'[s] = copy
           \/ table[s] # NoRow /\ table'[s] = table[s] /\ table[s].stamp >= Created(i)
    <3> HIDE DEF copy, s
    <3>1. QED
      BY <1>1, <2>1, <2>2, <2>3, UpsertMoves
  <2>5. CASE table'[s] = copy
    <3>1. table'[s].version = i /\ history'[i] = history[i] /\ table'[s] # NoRow
      BY <2>2, <2>5, RowsAre
    <3>2. QED
      BY <1>1, <1>4, <2>4, <3>1 DEF Covered, Reflected
  <2>6. CASE table[s] # NoRow /\ table'[s] = table[s] /\ table[s].stamp >= Created(i)
    <3>1. Covered(i)
      BY <1>4, <2>6, CoveredIs
    <3>2. QED
      BY <2>1, <2>4, <2>6, <3>1 DEF Covered, Reflected, LostToItsSecond, Returned
  <2>7. QED
    BY <2>4, <2>5, <2>6
<1>5. QED
  BY <1>3, <1>4

LEMMA ProcessMoves ==
    ASSUME TypeOK, Sorted, CopiesFit, NEW i \in DOMAIN history, Process(i), UNCHANGED history
    PROVE  /\ Moves
           /\ state' \in States /\ state'.cursor = state.cursor /\ state'.since = state.since
           /\ unwritten \subseteq unwritten' /\ unwritten' \subseteq DOMAIN history
           /\ i \in unwritten' \/ Covered(i)'
<1>1. history[i].stream \in Stream /\ state \in States /\ unwritten \subseteq DOMAIN history
  BY HistoryIs DEF TypeOK
<1>2. CASE history[i].stream \in request.streams
  <2>1. table' = Written(i) /\ erased' = Erased(i) /\ unwritten' = unwritten
        /\ state' = [state EXCEPT !.streams[history[i].stream] = "event"]
    BY <1>2 DEF Process
  <2>2. Moves /\ Covered(i)'
    BY <2>1, WrittenMoves
  <2>3. "event" \in Marks
    BY DEF Marks
  <2>4. state' \in States /\ state'.cursor = state.cursor /\ state'.since = state.since
    BY <1>1, <2>1, <2>3, MarkChanges
  <2>5. QED
    BY <1>1, <2>1, <2>2, <2>4
<1>3. CASE history[i].stream \notin request.streams
  <2>1. UNCHANGED <<table, state, erased>> /\ unwritten' = unwritten \cup {i}
    BY <1>3 DEF Process
  <2>2. QED
    BY <1>1, <2>1, Stays
<1>4. QED
  BY <1>2, <1>3

-----------------------------------------------------------------------------
(* What stays true while the history does not change.                       *)

LEMMA CoveredStays ==
    ASSUME TypeOK, Sorted, CopiesFit, Moves, UNCHANGED history
    PROVE  \A i \in DOMAIN history : Covered(i) => Covered(i)'
<1> SUFFICES ASSUME NEW i \in DOMAIN history, Covered(i) PROVE Covered(i)'
  OBVIOUS
<1> DEFINE s == history[i].stream
<1>1. s \in Stream /\ Created(i) \in Nat /\ i \in Nat /\ history'[i] = history[i]
  BY HistoryIs
<1>2. CASE s \in erased'
  BY <1>1, <1>2 DEF Covered, Reflected, Returned
<1>3. CASE s \notin erased'
  <2>1. /\ s \notin erased /\ table[s] # NoRow /\ ~history[i].deleted
        /\ table[s].stamp >= Created(i)
    BY <1>1, <1>3, CoveredIs DEF Moves
  <2>2. CASE table'[s] = table[s]
    BY <1>1, <1>3, <2>1, <2>2 DEF Covered, Reflected, Returned, LostToItsSecond
  <2>3. CASE table'[s] \in Copies /\ Fits(s, table'[s]) /\ table'[s].stamp > table[s].stamp
    <3>1. /\ table[s] \in Copies /\ table[s].stamp \in Nat
          /\ table'[s].version \in Nat /\ table'[s].stamp \in Nat /\ table'[s] # NoRow
      BY <1>1, <2>1, <2>3, RowsAre DEF TypeOK
    <3>2. table'[s].version < i => table'[s].stamp <= Created(i)
      BY <1>1, <2>3, OlderRow
    <3>3. table'[s].version >= i
      BY <1>1, <2>1, <2>3, <3>1, <3>2
    <3>4. QED
      BY <1>1, <2>1, <3>1, <3>3 DEF Covered, Reflected
  <2>4. QED
    BY <1>1, <1>3, <2>1, <2>2, <2>3 DEF Moves
<1>4. QED
  BY <1>2, <1>3

LEMMA FitsStays ==
    ASSUME UNCHANGED history, now' \in Nat, now \in Nat, now <= now'
    PROVE  \A s : \A copy \in Copies : Fits(s, copy) => Fits(s, copy)'
<1>1. \A copy \in Copies : copy.stamp \in Nat
  BY RowsAre
<1>2. QED
  BY <1>1 DEF Fits, Of, Created

LEMMA ReachesStays ==
    ASSUME TypeOK, Sorted, CopiesFit, Moves, UNCHANGED history, unwritten \subseteq unwritten',
           now' \in Nat, now <= now',
           NEW since \in Cursors, NEW cursor \in Cursors, Reaches(since, cursor)
    PROVE  Reaches(since, cursor)'
<1>1. now \in Nat /\ cursor \in Nat
  BY Parameters DEF TypeOK, Seconds
<1>2. cursor <= now'
  BY <1>1 DEF Reaches
<1>3. \A i \in DOMAIN history : FirstOfItsSecond(i)' <=> FirstOfItsSecond(i)
  BY DEF FirstOfItsSecond
<1>4. QED
  BY <1>2, <1>3, CoveredStays DEF Reaches, Created

LEMMA TableStays ==
    ASSUME TypeOK, CopiesFit, Moves, UNCHANGED history, now' \in Nat, now <= now'
    PROVE  \A s \in Stream : table'[s] # NoRow => Fits(s, table[s])'
<1>1. now \in Nat
  BY Parameters DEF TypeOK, Seconds
<1>2. ASSUME NEW s \in Stream, table'[s] # NoRow
      PROVE  table'[s] \in Copies /\ Fits(s, table'[s])
  BY <1>2 DEF Moves, CopiesFit, TypeOK
<1>3. ASSUME NEW s \in Stream, table'[s] # NoRow
      PROVE  Fits(s, table[s])'
  <2>1. table'[s] \in Copies /\ Fits(s, table'[s])
    BY <1>2, <1>3
  <2>2. table'[s].stamp \in Nat
    BY <2>1, RowsAre
  <2>3. QED
    BY <1>1, <2>1, <2>2 DEF Fits, Of, Created
<1>4. QED
  BY <1>3

-----------------------------------------------------------------------------
(* A change of an object.                                                   *)

LEMMA HistoryGrows ==
    ASSUME TypeOK, Sorted, NEW s \in Stream, NEW deleted \in BOOLEAN, Change(s, deleted)
    PROVE  /\ history' \in Seq(Event) /\ Len(history') = Len(history) + 1
           /\ Len(history') <= MaxEvents
           /\ DOMAIN history' = 1 .. Len(history) + 1 /\ DOMAIN history \subseteq DOMAIN history'
           /\ \A i \in DOMAIN history' :
                 i \in DOMAIN history \/ (i = Len(history) + 1 /\ Created(i)' = now)
           /\ \A i \in DOMAIN history : history'[i] = history[i] /\ Created(i)' = Created(i)
           /\ \A x : Of(x) \subseteq Of(x)'
           /\ \A x : \A i \in Of(x)' : i \in Of(x) \/ i = Len(history) + 1
<1> DEFINE e == [stream |-> s, created |-> now, deleted |-> deleted]
           n == Len(history) + 1
<1>1. history \in Seq(Event) /\ e \in Event /\ Len(history) \in Nat /\ e.created = now
  BY DEF TypeOK, Event, Seconds
<1>2. history' = Append(history, e) /\ Len(history) < MaxEvents
  BY DEF Change
<1> HIDE DEF e
<1>3. /\ history' \in Seq(Event) /\ Len(history') = n /\ DOMAIN history' = 1 .. n
      /\ history'[n] = e
      /\ \A i \in 1 .. Len(history) : history'[i] = history[i]
  BY <1>1, <1>2
<1>4. DOMAIN history = 1 .. Len(history) /\ MaxEvents \in Nat
  BY <1>1, Parameters
<1>5. \A i \in 1 .. n : i \in 1 .. Len(history) \/ i = n
  BY <1>1
<1>6. DOMAIN history \subseteq DOMAIN history' /\ n <= MaxEvents
  BY <1>1, <1>2, <1>3, <1>4
<1>7. \A i \in DOMAIN history : history'[i] = history[i] /\ Created(i)' = Created(i)
  BY <1>3, <1>4 DEF Created
<1>8. \A i \in DOMAIN history' : i \in DOMAIN history \/ (i = n /\ Created(i)' = now)
  <2>1. history'[n].created = now
    BY <1>1, <1>3
  <2>2. \A i \in DOMAIN history' : i \in DOMAIN history \/ i = n
    BY <1>3, <1>4, <1>5
  <2>3. QED
    BY <2>1, <2>2 DEF Created
<1>9. \A x : Of(x) \subseteq Of(x)' /\ \A i \in Of(x)' : i \in Of(x) \/ i = n
  BY <1>6, <1>7, <1>8 DEF Of
<1>10. QED
  BY <1>3, <1>6, <1>7, <1>8, <1>9

LEMMA SortedGrows ==
    ASSUME TypeOK, Sorted, NEW s \in Stream, NEW deleted \in BOOLEAN, Change(s, deleted)
    PROVE  Sorted'
<1>1. now' = now /\ now \in Nat /\ Len(history) \in Nat
      /\ DOMAIN history = 1 .. Len(history)
      /\ \A i \in DOMAIN history : Created(i) \in Nat
  BY Parameters, HistoryIs DEF Change, TypeOK, Seconds
<1>2. \A i \in DOMAIN history' : Created(i)' <= now'
  BY <1>1, HistoryGrows DEF Sorted
<1>3. ASSUME NEW i \in DOMAIN history', NEW j \in DOMAIN history', i <= j
      PROVE  Created(i)' <= Created(j)'
  <2>1. CASE j \in DOMAIN history
    <3>1. i \in DOMAIN history
      BY <1>1, <1>3, <2>1, HistoryGrows
    <3>2. QED
      BY <1>3, <2>1, <3>1, HistoryGrows DEF Sorted
  <2>2. CASE j = Len(history) + 1 /\ Created(j)' = now
    BY <1>1, <1>2, <2>2
  <2>3. QED
    BY <2>1, <2>2, HistoryGrows
<1>4. QED
  BY <1>2, <1>3, HistoryGrows DEF Sorted

LEMMA FitsGrows ==
    ASSUME TypeOK, Sorted, NEW s \in Stream, NEW deleted \in BOOLEAN, Change(s, deleted),
           NEW x, NEW copy \in Copies, Fits(x, copy)
    PROVE  Fits(x, copy)'
<1>1. /\ copy.stamp \in Nat /\ copy.version \in Nat /\ Len(history) \in Nat /\ now' = now
      /\ now \in Nat
  BY RowsAre, Parameters DEF TypeOK, Change, Seconds
<1>2. copy.stamp <= now' /\ copy.version <= Len(history')
  BY <1>1, HistoryGrows DEF Fits
<1>3. copy.version # 0 => copy.version \in Of(x)' /\ Created(copy.version)' <= copy.stamp
  <2>1. Of(x) \subseteq DOMAIN history
    BY HistoryIs
  <2>2. QED
    BY <2>1, HistoryGrows DEF Fits
<1>4. \A j \in Of(x)' : copy.version < j => copy.stamp <= Created(j)'
  <2>1. Of(x) \subseteq DOMAIN history /\ Of(x)' \subseteq DOMAIN history'
    BY HistoryIs DEF Of
  <2>2. \A j \in Of(x) : copy.version < j => copy.stamp <= Created(j)'
    BY <2>1, HistoryGrows DEF Fits
  <2>3. \A j \in Of(x)' : j = Len(history) + 1 => j \in Of(x) \/ Created(j)' = now
    <3>1. \A j \in DOMAIN history : j # Len(history) + 1
      BY <1>1, HistoryIs
    <3>2. QED
      BY <2>1, <3>1, HistoryGrows
  <2>4. QED
    BY <1>1, <2>2, <2>3, HistoryGrows DEF Fits
<1>5. QED
  BY <1>2, <1>3, <1>4 DEF Fits

LEMMA CoveredGrows ==
    ASSUME TypeOK, Sorted, NEW s \in Stream, NEW deleted \in BOOLEAN, Change(s, deleted),
           NEW i \in DOMAIN history, Covered(i)
    PROVE  Covered(i)'
<1>1. history'[i] = history[i] /\ table' = table /\ erased' = erased
  BY HistoryGrows DEF Change
<1>2. QED
  BY <1>1 DEF Covered, Reflected, LostToItsSecond, Returned

(* The new event lies before no cursor: a cursor of its second stands at an *)
(* event of that second already, or began there.                            *)
LEMMA ReachesGrows ==
    ASSUME TypeOK, Sorted, NEW s \in Stream, NEW deleted \in BOOLEAN, Change(s, deleted),
           NEW since \in Cursors, NEW cursor \in Cursors, Reaches(since, cursor)
    PROVE  Reaches(since, cursor)'
<1>1. /\ now' = now /\ unwritten' = unwritten /\ since \in Nat /\ cursor \in Nat /\ now \in Nat
      /\ Len(history) \in Nat /\ DOMAIN history = 1 .. Len(history)
      /\ \A i \in DOMAIN history : Created(i) \in Nat /\ i \in Nat
  BY Parameters, HistoryIs DEF Change, TypeOK, Seconds
<1>2. cursor = since \/ \E j \in DOMAIN history' : Created(j)' = cursor
  BY HistoryGrows DEF Reaches
<1>3. ASSUME NEW i \in DOMAIN history' \ unwritten', FirstOfItsSecond(i)',
             since < Created(i)', Created(i)' <= cursor
      PROVE  Covered(i)'
  <2>1. CASE i \in DOMAIN history
    <3>1. \A j \in 1 .. i - 1 : j \in DOMAIN history
      BY <1>1, <2>1
    <3>2. FirstOfItsSecond(i)
      BY <1>3, <2>1, <3>1, HistoryGrows DEF FirstOfItsSecond
    <3>3. Covered(i)
      BY <1>1, <1>3, <2>1, <3>2, HistoryGrows DEF Reaches
    <3>4. QED
      BY <2>1, <3>3, CoveredGrows
  <2>2. CASE i = Len(history) + 1 /\ Created(i)' = now
    <3>1. cursor = now /\ cursor # since
      BY <1>1, <1>3, <2>2 DEF Reaches
    <3>2. PICK j \in DOMAIN history : Created(j) = cursor
      BY <3>1 DEF Reaches
    <3>3. j \in 1 .. i - 1
      BY <1>1, <2>2
    <3>4. Created(j)' < Created(i)'
      BY <1>3, <3>3 DEF FirstOfItsSecond, Created
    <3>5. QED
      BY <1>1, <2>2, <3>1, <3>2, <3>4, HistoryGrows
  <2>3. QED
    BY <2>1, <2>2, HistoryGrows
<1>4. QED
  BY <1>1, <1>2, <1>3 DEF Reaches

-----------------------------------------------------------------------------
(* Types, step by step. All steps but those of time and of the objects are  *)
(* quiet: neither the clock nor the history moves.                          *)

Quiet ==
    /\ TypeOK' /\ Moves /\ UNCHANGED <<now, history>>
    /\ unwritten \subseteq unwritten'

LEMMA RequestFields ==
    ASSUME TypeOK
    PROVE  /\ request.input \in States /\ request.streams \in SUBSET Stream
           /\ request.start \in Seconds /\ request.start \in Nat /\ request.from \in Nat
           /\ request.input.cursor \in Cursors /\ request.input.since \in Cursors
           /\ stored.cursor \in Cursors /\ stored.since \in Cursors
           /\ state.cursor \in Cursors /\ state.since \in Cursors
<1>1. request \in [input : States, streams : SUBSET Stream, start : Seconds,
                   from : Nat]
      /\ stored \in States /\ state \in States
  BY DEF TypeOK, Seconds
<1>2. /\ request.input \in States /\ request.streams \in SUBSET Stream
      /\ request.start \in Seconds /\ request.from \in Nat
  BY <1>1
<1>3. QED
  BY <1>1, <1>2, StateFields, Parameters

LEMMA ChangeTypes ==
    ASSUME Inv, NEW s \in Stream, NEW deleted \in BOOLEAN, Change(s, deleted)
    PROVE  TypeOK'
<1>1. /\ history' \in Seq(Event) /\ DOMAIN history \subseteq DOMAIN history'
  BY HistoryGrows DEF Inv
<1>2. TypeOK /\ UNCHANGED <<now, table, stored, requestVars, late, unwritten, erased, requests>>
  BY DEF Inv, Change
<1>3. events' \in Seq(DOMAIN history') /\ queue' \in Seq(DOMAIN history')
  <2>1. events \in Seq(DOMAIN history) /\ queue \in Seq(DOMAIN history)
    BY <1>2 DEF TypeOK
  <2>2. events \in Seq(DOMAIN history') /\ queue \in Seq(DOMAIN history')
    BY <1>1, <2>1, SeqGrows
  <2>3. QED
    BY <1>2, <2>2 DEF requestVars
<1>4. history' \in Seq([stream : Stream, created : 0 .. MaxTime, deleted : BOOLEAN])
  BY <1>1 DEF Event, Seconds
<1>5. unwritten' \subseteq DOMAIN history'
  BY <1>1, <1>2 DEF TypeOK
<1>6. QED
  BY <1>2, <1>3, <1>4, <1>5 DEF TypeOK, requestVars

LEMMA TickTypes ==
    ASSUME Inv, Tick
    PROVE  TypeOK'
<1>1. now' \in 0 .. MaxTime
  BY Parameters DEF Inv, TypeOK, Tick
<1>2. QED
  BY <1>1 DEF Inv, TypeOK, Tick, requestVars

LEMMA OpenTypes ==
    ASSUME Inv, NEW newRun \in BOOLEAN, Open(newRun)
    PROVE  /\ Quiet
           /\ \/ /\ state'.cursor = NoCursor /\ request'.input.cursor = NoCursor
                 /\ request'.input.since = state'.since
              \/ /\ state'.cursor = stored.cursor /\ state'.since = stored.since
                 /\ request'.input.cursor = stored.cursor /\ request'.input.since = stored.since
           /\ request'.start = now /\ request'.from = Len(history)
<1> DEFINE input == ParseSyncState(stored)
           streams == IF newRun THEN Stream ELSE Stream \ input.ended
           Sets  == SUBSET Stream
           Times == 0 .. MaxTime
<1>1. TypeOK /\ stored \in States /\ now \in 0 .. MaxTime /\ requests \in Nat
      /\ Len(history) \in Nat
  BY HistoryIs DEF Inv, TypeOK
<1>2. /\ input \in States
      /\ \/ input = stored
         \/ input.cursor = NoCursor /\ input.since = NoCursor
  <2>1. input = stored \/ input = EmptyState
    BY DEF ParseSyncState
  <2> HIDE DEF input
  <2>2. QED
    BY <1>1, <2>1, EmptyStateIs
<1>3. streams \in SUBSET Stream
  OBVIOUS
<1>4. /\ request' = [input |-> input, streams |-> streams, start |-> now, from |-> Len(history)]
      /\ state' = IF newRun THEN [input EXCEPT !.ended = {}] ELSE input
      /\ phase' = "backfill" /\ heard' = IF websocket THEN Len(history) ELSE 0
      /\ requests' = requests + 1
      /\ UNCHANGED <<now, history, websocket, table, stored, page, events, latest, queue,
                      late, unwritten, erased>>
  BY DEF Open
<1> HIDE DEF input, streams
<1>5. /\ state' \in States /\ state'.cursor = input.cursor /\ state'.since = input.since
  <2>1. /\ [input EXCEPT !.ended = {}] \in States
        /\ [input EXCEPT !.ended = {}].cursor = input.cursor
        /\ [input EXCEPT !.ended = {}].since = input.since
    <3>1. {} \in SUBSET Stream
      OBVIOUS
    <3>2. QED
      BY <1>2, <3>1, EndedChanges
  <2>2. CASE newRun
    BY <1>4, <2>1, <2>2
  <2>3. CASE ~ newRun
    BY <1>2, <1>4, <2>3
  <2>4. QED
    BY <2>2, <2>3
<1>6. /\ request' \in [input : States, streams : SUBSET Stream, start : 0 .. MaxTime,
                   from : Nat]
      /\ request'.input = input /\ request'.start = now /\ request'.from = Len(history)
  <2>1. /\ [input |-> input, streams |-> streams, start |-> now, from |-> Len(history)]
             \in [input : States, streams : Sets, start : Times, from : Nat]
        /\ [input |-> input, streams |-> streams, start |-> now, from |-> Len(history)].input = input
        /\ [input |-> input, streams |-> streams, start |-> now, from |-> Len(history)].start = now
        /\ [input |-> input, streams |-> streams, start |-> now, from |-> Len(history)].from
             = Len(history)
    BY <1>1, <1>2, <1>3
  <2>2. QED
    BY <1>4, <2>1
<1>7. Moves
  BY <1>1, <1>4, Stays
<1>8. heard' \in Nat /\ requests' \in Nat
  BY <1>1, <1>4
<1>9. TypeOK'
  BY <1>1, <1>4, <1>5, <1>6, <1>8 DEF TypeOK
<1>10. QED
  BY <1>2, <1>4, <1>5, <1>6, <1>7, <1>9 DEF Quiet

SameCursor == state'.cursor = state.cursor /\ state'.since = state.since

LEMMA NothingToListTypes ==
    ASSUME Inv, NEW s \in Stream, NothingToList(s)
    PROVE  Quiet /\ SameCursor
<1>1. /\ TypeOK /\ state \in States
      /\ state' = [state EXCEPT !.ended = state.ended \cup {s}]
      /\ UNCHANGED <<websocket, now, history, table, stored, phase, request, page, events, latest,
                      queue, late, unwritten, erased, heard, requests>>
  BY DEF Inv, TypeOK, NothingToList
<1>2. state.ended \cup {s} \in SUBSET Stream
  BY <1>1, StateFields
<1>3. state' \in States /\ SameCursor
  BY <1>1, <1>2, EndedChanges DEF SameCursor
<1>4. Moves
  BY <1>1, Stays
<1>5. QED
  BY <1>1, <1>3, <1>4 DEF Quiet, TypeOK

LEMMA VersionIs ==
    ASSUME TypeOK, NEW s
    PROVE  /\ Version(s) \in Nat /\ Version(s) <= Len(history)
           /\ Version(s) # 0 => Version(s) \in Of(s)
           /\ \A j \in Of(s) : j <= Version(s)
<1>1. Of(s) \in SUBSET (0 .. Len(history)) /\ Len(history) \in Nat
  BY HistoryIs
<1>2. CASE Of(s) = {}
  BY <1>1, <1>2 DEF Version
<1>3. CASE Of(s) # {}
  <2>1. \E i \in Of(s) : \A j \in Of(s) : j <= i
    BY <1>1, <1>3, Greatest
  <2>2. Version(s) \in Of(s) /\ \A j \in Of(s) : j <= Version(s)
    BY <1>3, <2>1 DEF Version
  <2>3. QED
    BY <1>1, <2>2
<1>4. QED
  BY <1>2, <1>3

LEMMA ListTypes ==
    ASSUME Inv, NEW s \in Stream, List(s)
    PROVE  /\ Quiet /\ SameCursor
           /\ \A x \in Stream : page'[x] # NoRow => page'[x] = page[x] \/ Fits(x, page'[x])
<1> DEFINE copy == [version |-> Version(s), stamp |-> now]
<1>1. /\ TypeOK /\ now \in Seconds /\ now \in Nat /\ page \in [Stream -> Rows]
      /\ page' = [page EXCEPT ![s] = copy]
      /\ UNCHANGED <<websocket, now, history, table, stored, state, phase, request, events, latest,
                      queue, late, unwritten, erased, heard, requests>>
  BY Parameters DEF Inv, TypeOK, List, Rows, Seconds
<1>2. /\ Version(s) \in Nat /\ Version(s) <= Len(history) /\ Version(s) \in 0 .. MaxEvents
      /\ Version(s) # 0 => Version(s) \in Of(s)
      /\ \A j \in Of(s) : j <= Version(s)
  <2>1. Len(history) \in Nat /\ Len(history) <= MaxEvents
    BY HistoryIs DEF Inv, Sorted
  <2>2. QED
    BY <1>1, <2>1, VersionIs, Parameters
<1>3. copy \in Copies /\ copy.version = Version(s) /\ copy.stamp = now
  BY <1>1, <1>2, RowsAre
<1> HIDE DEF copy
<1>4. Fits(s, copy)
  <2>1. \A j \in Of(s) : j \in DOMAIN history /\ j \in Nat /\ Created(j) <= now
    BY <1>1, HistoryIs DEF Inv, Sorted
  <2>2. QED
    BY <1>1, <1>2, <1>3, <2>1 DEF Fits
<1>5. /\ page' \in [Stream -> Copies \cup {NoRow}]
      /\ page'[s] = copy /\ \A x \in Stream : x # s => page'[x] = page[x]
  BY <1>1, <1>3 DEF Rows
<1>6. \A x \in Stream : page'[x] # NoRow => page'[x] = page[x] \/ Fits(x, page'[x])
  BY <1>4, <1>5
<1>7. Moves /\ SameCursor
  BY <1>1, Stays DEF SameCursor
<1>8. TypeOK'
  BY <1>1, <1>5 DEF TypeOK
<1>9. QED
  BY <1>1, <1>6, <1>7, <1>8 DEF Quiet

LEMMA PageWrittenTypes ==
    ASSUME Inv, NEW s \in Stream, PageWritten(s)
    PROVE  /\ Quiet /\ SameCursor
           /\ \A x \in Stream : page'[x] # NoRow => page'[x] = page[x]
<1>1. /\ TypeOK /\ state \in States /\ page \in [Stream -> Rows] /\ table \in [Stream -> Rows]
      /\ state' = [state EXCEPT !.streams[s] = "done", !.ended = state.ended \cup {s}]
      /\ table' = IF page[s] = NoRow THEN table ELSE Upsert(s, page[s])
      /\ page' = [page EXCEPT ![s] = NoRow]
      /\ UNCHANGED <<websocket, now, history, stored, phase, request, events, latest, queue, late,
                      unwritten, erased, heard, requests>>
  BY DEF Inv, TypeOK, PageWritten, Rows
<1>2. state.ended \cup {s} \in SUBSET Stream /\ "done" \in Marks
  BY <1>1, StateFields DEF Marks
<1>3. state' \in States /\ SameCursor
  <2>1. state' = Ends(state, s, "done", state.ended \cup {s})
    BY <1>1 DEF Ends
  <2>2. QED
    BY <1>1, <1>2, <2>1, EndsChange DEF SameCursor
<1>4. /\ page' \in [Stream -> Copies \cup {NoRow}]
      /\ \A x \in Stream : page'[x] # NoRow => page'[x] = page[x]
  BY <1>1 DEF Rows
<1>5. Moves
  <2>1. CASE page[s] = NoRow
    BY <1>1, <2>1, Stays
  <2>2. CASE page[s] # NoRow
    <3>1. page[s] \in Copies /\ Fits(s, page[s])
      BY <1>1, <2>2 DEF Rows, Inv, CopiesFit
    <3>2. QED
      BY <1>1, <2>2, <3>1, UpsertMoves
  <2>3. QED
    BY <2>1, <2>2
<1>6. TypeOK'
  BY <1>1, <1>3, <1>4, <1>5 DEF TypeOK, Moves, Rows
<1>7. QED
  BY <1>1, <1>3, <1>4, <1>5, <1>6 DEF Quiet

(* The events since a cursor are the last ones of the history, in order.    *)
LEMMA OldestFirstIs ==
    ASSUME TypeOK, Sorted, NEW cursor \in Nat
    PROVE  LET events0 == OldestFirst(Since(cursor)) IN
           /\ events0 \in Seq(DOMAIN history)
           /\ \A k \in DOMAIN events0 : /\ events0[k] = events0[1] + k - 1
                                        /\ cursor <= Created(events0[k])
           /\ events0 # <<>> => \A i \in 1 .. events0[1] - 1 : Created(i) <= cursor
<1> DEFINE S == Since(cursor)
           len == Len(history)
           events0 == OldestFirst(S)
<1>1. /\ len \in Nat /\ DOMAIN history = 1 .. len
      /\ \A i \in 1 .. len : i \in Nat /\ Created(i) \in Nat
      /\ \A i, j \in 1 .. len : i <= j => Created(i) <= Created(j)
  BY HistoryIs DEF Sorted
<1>2. S = {i \in 1 .. len : Created(i) > cursor}
  BY <1>1 DEF Since, Created
<1>3. CASE S = {}
  <2>1. Cardinality(S) = 0
    BY <1>3, FS_EmptySet
  <2>2. events0 = [k \in 1 .. 0 |-> len - 0 + k]
    BY <2>1 DEF OldestFirst
  <2>3. events0 = <<>>
    BY <2>2
  <2>4. QED
    BY <2>3
<1>4. CASE S # {}
  <2>1. S \in SUBSET Nat
    BY <1>1, <1>2
  <2>2. PICK m \in S : \A i \in S : m <= i
    BY <1>4, <2>1, Least
  <2>3. m \in 1 .. len /\ m \in Nat /\ Created(m) > cursor
    BY <1>1, <1>2, <2>2
  <2>4. S = m .. len
    <3>1. ASSUME NEW i \in m .. len PROVE i \in S
      <4>1. i \in 1 .. len /\ m <= i
        BY <1>1, <2>3
      <4>2. Created(m) <= Created(i) /\ Created(m) \in Nat /\ Created(i) \in Nat
        BY <1>1, <2>3, <4>1
      <4>3. QED
        BY <1>2, <2>3, <4>1, <4>2
    <3>2. ASSUME NEW i \in S PROVE i \in m .. len
      BY <1>1, <1>2, <2>2, <2>3
    <3>3. QED
      BY <3>1, <3>2
  <2>5. Cardinality(S) = len - m + 1
    <3>1. m \in Int /\ len \in Int /\ m <= len
      BY <1>1, <2>3
    <3>2. Cardinality(m .. len) = IF m > len THEN 0 ELSE len - m + 1
      BY <3>1, FS_Interval
    <3>3. QED
      BY <2>4, <3>1, <3>2
  <2>6. events0 = [k \in 1 .. len - m + 1 |-> m - 1 + k]
    <3>1. events0 = [k \in 1 .. Cardinality(S) |-> (len - Cardinality(S)) + k]
      BY DEF OldestFirst
    <3>2. len - Cardinality(S) = m - 1
      BY <1>1, <2>3, <2>5
    <3>3. QED
      BY <2>5, <3>1, <3>2
  <2>7. len - m + 1 \in Nat
    BY <1>1, <2>3
  <2> HIDE DEF events0, S
  <2>8. /\ DOMAIN events0 = 1 .. len - m + 1
        /\ \A k \in 1 .. len - m + 1 : events0[k] = m - 1 + k /\ m - 1 + k \in m .. len
    BY <1>1, <2>3, <2>6, <2>7
  <2>9. events0 \in Seq(DOMAIN history)
    <3>1. \A k \in 1 .. len - m + 1 : m - 1 + k \in DOMAIN history
      BY <1>1, <2>3, <2>8
    <3>2. QED
      BY <2>6, <2>7, <3>1
  <2>10. events0[1] = m
    BY <1>1, <2>3, <2>8
  <2>11. ASSUME NEW k \in DOMAIN events0
         PROVE  events0[k] = events0[1] + k - 1 /\ cursor <= Created(events0[k])
    <3>1. k \in 1 .. len - m + 1 /\ k \in Nat /\ len - m + 1 \in Nat
      BY <2>7, <2>8, <2>11
    <3>2. events0[k] \in S /\ events0[k] = m - 1 + k /\ events0[k] \in 1 .. len
      BY <1>2, <2>4, <2>8, <3>1
    <3>3. Created(events0[k]) > cursor /\ Created(events0[k]) \in Nat
      BY <1>1, <1>2, <3>2
    <3>4. QED
      BY <2>3, <2>10, <3>1, <3>2, <3>3
  <2>12. ASSUME NEW i \in 1 .. events0[1] - 1 PROVE Created(i) <= cursor
    <3>1. i \in 1 .. len /\ i \in Nat /\ i < m
      BY <1>1, <2>3, <2>10
    <3>2. i \notin S
      BY <2>2, <2>3, <3>1
    <3>3. QED
      BY <1>1, <1>2, <3>1, <3>2
  <2>13. QED
    BY <2>9, <2>11, <2>12 DEF events0, S
<1>5. QED
  BY <1>3, <1>4

LEMMA StartPollTypes ==
    ASSUME Inv, StartPoll
    PROVE  /\ Quiet /\ phase' = "poll"
           /\ \/ SameCursor
              \/ state'.cursor = request.start /\ state'.since = request.start
           /\ \/ latest' = NoCursor /\ events' = <<>>
              \/ /\ latest' = state.cursor /\ latest' # NoCursor /\ SameCursor
                 /\ events' = OldestFirst(Since(latest'))
<1>1. /\ TypeOK /\ Sorted /\ phase = "backfill" /\ phase' = "poll" /\ state \in States
      /\ state.cursor = request.input.cursor
      /\ UNCHANGED <<websocket, now, history, table, stored, request, page, queue, late,
                      unwritten, erased, heard, requests>>
  BY DEF Inv, TypeOK, StartPoll, BackfillCursor
<1>2. Moves
  BY <1>1, Stays
<1>3. request.start \in Cursors /\ state.cursor \in Cursors
  BY <1>1, RequestFields, Parameters
<1>4. CASE events' = <<>> /\ latest' = NoCursor /\ UNCHANGED state
  <2>1. latest' \in 0 .. NoCursor /\ events' \in Seq(DOMAIN history)
    BY <1>4, Parameters
  <2>2. TypeOK'
    BY <1>1, <1>4, <2>1 DEF TypeOK
  <2>3. QED
    BY <1>1, <1>2, <1>4, <2>2 DEF Quiet, SameCursor
<1>5. CASE /\ events' = <<>> /\ latest' = NoCursor
           /\ state' = [state EXCEPT !.cursor = request.start, !.since = request.start]
  <2>1. latest' \in 0 .. NoCursor /\ events' \in Seq(DOMAIN history)
    BY <1>5, Parameters
  <2>2. /\ state' \in States
        /\ state'.cursor = request.start /\ state'.since = request.start
    BY <1>1, <1>3, <1>5, CursorBegins
  <2>3. TypeOK'
    BY <1>1, <2>1, <2>2 DEF TypeOK
  <2>4. QED
    BY <1>1, <1>2, <1>5, <2>2, <2>3 DEF Quiet
<1>6. CASE /\ state.cursor # NoCursor /\ UNCHANGED state
           /\ events' = OldestFirst(Since(state.cursor)) /\ latest' = state.cursor
  <2>1. state.cursor \in Nat
    BY <1>3, Parameters
  <2>2. events' \in Seq(DOMAIN history)
    BY <1>1, <1>6, <2>1, OldestFirstIs
  <2>3. latest' \in 0 .. NoCursor
    BY <1>3, <1>6 DEF Cursors
  <2>4. TypeOK'
    BY <1>1, <1>6, <2>2, <2>3 DEF TypeOK
  <2>5. QED
    BY <1>1, <1>2, <1>6, <2>4 DEF Quiet, SameCursor
<1>7. QED
  BY <1>1, <1>4, <1>5, <1>6 DEF StartPoll

LEMMA PollEventTypes ==
    ASSUME Inv, PollEvent, NEW head, head = events[1]
    PROVE  /\ Quiet /\ SameCursor /\ phase = "poll" /\ phase' = "poll" /\ events # <<>>
           /\ head \in DOMAIN history /\ events' = Tail(events)
           /\ head \in unwritten' \/ Covered(head)'
           /\ latest' = IF Created(head) > latest THEN Created(head) ELSE latest
           /\ UNCHANGED <<page, queue, late, heard, request, stored>>
<1>1. /\ TypeOK /\ Sorted /\ CopiesFit /\ phase = "poll" /\ events # <<>> /\ events' = Tail(events)
      /\ Process(head)
      /\ latest' = IF Created(head) > latest THEN Created(head) ELSE latest
      /\ UNCHANGED <<websocket, now, history, stored, phase, request, page, queue, late, heard,
                      requests>>
  BY DEF Inv, PollEvent, Created, Process
<1>2. events \in Seq(DOMAIN history) /\ latest \in Cursors
  BY <1>1 DEF TypeOK, Cursors
<1>3. head \in DOMAIN history /\ events' \in Seq(DOMAIN history)
  BY <1>1, <1>2
<1>4. latest' \in 0 .. NoCursor
  BY <1>1, <1>2, <1>3, HistoryIs, Parameters DEF Cursors
<1>5. /\ Moves
      /\ state' \in States /\ state'.cursor = state.cursor /\ state'.since = state.since
      /\ unwritten \subseteq unwritten' /\ unwritten' \subseteq DOMAIN history
      /\ head \in unwritten' \/ Covered(head)'
  BY <1>1, <1>3, ProcessMoves
<1>6. TypeOK'
  BY <1>1, <1>3, <1>4, <1>5 DEF TypeOK, Moves, Rows
<1>7. QED
  BY <1>1, <1>3, <1>5, <1>6 DEF Quiet, SameCursor

LEMMA CursorAfterIs ==
    ASSUME TypeOK
    PROVE  /\ CursorAfter \in States /\ CursorAfter.since = state.since
           /\ CursorAfter.cursor = IF latest # NoCursor THEN latest ELSE state.cursor
<1>1. state \in States /\ latest \in Cursors
  BY DEF TypeOK, Cursors
<1>2. QED
  BY <1>1, CursorChanges DEF CursorAfter

LEMMA PolledTypes ==
    ASSUME Inv, Polled
    PROVE  /\ Quiet /\ state' = CursorAfter /\ phase = "poll" /\ phase' = "wait"
           /\ UNCHANGED <<page, queue, late, heard, request, stored>>
<1>1. /\ TypeOK /\ state' = CursorAfter /\ latest' = NoCursor /\ phase = "poll" /\ phase' = "wait"
      /\ UNCHANGED <<websocket, now, history, table, stored, request, page, events, queue,
                      late, unwritten, erased, heard, requests>>
  BY DEF Inv, Polled
<1>2. state' \in States /\ latest' \in 0 .. NoCursor
  BY <1>1, CursorAfterIs, Parameters
<1>3. Moves
  BY <1>1, Stays
<1>4. QED
  BY <1>1, <1>2, <1>3 DEF Quiet, TypeOK

LEMMA ReceiveTypes ==
    ASSUME Inv, Receive
    PROVE  /\ Quiet /\ heard' = heard + 1 /\ heard' <= Len(history)
           /\ queue' = Append(queue, heard')
           /\ UNCHANGED <<page, late, request, stored, state, events, latest, phase, unwritten>>
<1>1. /\ TypeOK /\ heard < Len(history) /\ heard' = heard + 1 /\ queue' = Append(queue, heard')
      /\ UNCHANGED <<websocket, now, history, table, stored, state, phase, request, page, events,
                      latest, late, unwritten, erased, requests>>
  BY DEF Inv, Receive
<1>2. heard \in Nat /\ queue \in Seq(DOMAIN history)
  BY <1>1 DEF TypeOK
<1>3. heard' \in DOMAIN history /\ heard' \in Nat /\ heard' <= Len(history)
  BY <1>1, <1>2, HistoryIs
<1>4. queue' \in Seq(DOMAIN history)
  BY <1>1, <1>2, <1>3
<1>5. Moves
  BY <1>1, Stays
<1>6. QED
  BY <1>1, <1>3, <1>4, <1>5 DEF Quiet, TypeOK

LEMMA DrainTypes ==
    ASSUME Inv, Drain, NEW head, head = queue[1]
    PROVE  /\ Quiet /\ SameCursor /\ phase # "poll" /\ phase' = phase
           /\ queue # <<>> /\ queue' = Tail(queue)
           /\ head \in DOMAIN history
           /\ head \in unwritten' \/ Covered(head)'
           /\ UNCHANGED <<page, late, request, stored, events, latest, heard>>
<1>1. /\ TypeOK /\ Sorted /\ CopiesFit /\ queue # <<>> /\ queue' = Tail(queue) /\ Process(head)
      /\ phase # "poll"
      /\ UNCHANGED <<websocket, now, history, stored, phase, request, page, events, latest, late,
                      heard, requests>>
  BY DEF Inv, Drain, Process
<1>2. queue \in Seq(DOMAIN history)
  BY <1>1 DEF TypeOK
<1>3. head \in DOMAIN history /\ queue' \in Seq(DOMAIN history)
  BY <1>1, <1>2
<1>4. /\ Moves
      /\ state' \in States /\ state'.cursor = state.cursor /\ state'.since = state.since
      /\ unwritten \subseteq unwritten' /\ unwritten' \subseteq DOMAIN history
      /\ head \in unwritten' \/ Covered(head)'
  BY <1>1, <1>3, ProcessMoves
<1>5. TypeOK'
  BY <1>1, <1>3, <1>4 DEF TypeOK, Moves, Rows
<1>6. QED
  BY <1>1, <1>3, <1>4, <1>5 DEF Quiet, SameCursor

LEMMA GoneTypes ==
    ASSUME Inv, Gone, UNCHANGED unwritten, stored' \in States,
           late' \subseteq Stream \X Copies
    PROVE  /\ Quiet /\ state'.cursor = NoCursor /\ phase' = "idle" /\ heard' = 0
           /\ UNCHANGED unwritten /\ request'.start = 0
           /\ \A s \in Stream : page'[s] = NoRow
<1>1. /\ TypeOK /\ phase' = "idle" /\ state' = EmptyState /\ request' = NoRequest
      /\ page' = [s \in Stream |-> NoRow]
      /\ events' = <<>> /\ latest' = NoCursor /\ queue' = <<>> /\ heard' = 0
      /\ UNCHANGED <<websocket, now, history, table, erased, requests>>
  BY DEF Inv, Gone
<1>2. state' \in States /\ state'.cursor = NoCursor
  BY <1>1, EmptyStateIs
<1>3. request' \in [input : States, streams : SUBSET Stream, start : 0 .. MaxTime,
                   from : Nat]
      /\ request'.start = 0
  <2> DEFINE Sets == SUBSET Stream
             Times == 0 .. MaxTime
  <2>1. EmptyState \in States /\ {} \in Sets /\ 0 \in Times
    BY EmptyStateIs, Parameters DEF Seconds
  <2> HIDE DEF Sets, Times
  <2>2. /\ [input |-> EmptyState, streams |-> {}, start |-> 0, from |-> 0]
             \in [input : States, streams : Sets, start : Times, from : Nat]
        /\ [input |-> EmptyState, streams |-> {}, start |-> 0, from |-> 0].start = 0
    BY <2>1
  <2>3. QED
    BY <1>1, <2>2 DEF NoRequest, Sets, Times
<1>4. page' \in [Stream -> Copies \cup {NoRow}] /\ \A s \in Stream : page'[s] = NoRow
  BY <1>1
<1>5. Moves
  BY <1>1, Stays
<1>6. /\ latest' \in 0 .. NoCursor /\ heard' \in Nat /\ events' \in Seq(DOMAIN history)
      /\ queue' \in Seq(DOMAIN history)
  BY <1>1, Parameters
<1>7. TypeOK'
  BY <1>1, <1>2, <1>3, <1>4, <1>6 DEF TypeOK
<1>8. QED
  BY <1>1, <1>2, <1>3, <1>4, <1>5, <1>7 DEF Quiet

LEMMA EofTypes ==
    ASSUME Inv, Eof
    PROVE  /\ Quiet /\ state'.cursor = NoCursor /\ phase' = "idle" /\ heard' = 0
           /\ UNCHANGED unwritten /\ request'.start = 0 /\ phase = "poll"
           /\ stored' = CursorAfter /\ UNCHANGED late
           /\ \A s \in Stream : page'[s] = NoRow
<1>1. Gone /\ stored' = CursorAfter /\ UNCHANGED <<late, unwritten>> /\ TypeOK /\ phase = "poll"
  BY DEF Eof, Inv
<1>2. stored' \in States /\ late' \subseteq Stream \X Copies
  BY <1>1, CursorAfterIs DEF TypeOK
<1>3. QED
  BY <1>1, <1>2, GoneTypes

LEMMA HardLimitTypes ==
    ASSUME Inv, HardLimit
    PROVE  /\ Quiet /\ state'.cursor = NoCursor /\ phase' = "idle" /\ heard' = 0
           /\ UNCHANGED unwritten /\ request'.start = 0
           /\ stored' = state
           /\ \A copy \in late' : Fits(copy[1], copy[2])
           /\ \A s \in Stream : page'[s] = NoRow
<1>1. /\ Gone /\ stored' = state /\ UNCHANGED unwritten /\ TypeOK /\ CopiesFit
      /\ late' = late \cup {<<s, page[s]>> : s \in {x \in Stream : page[x] # NoRow}}
  BY DEF HardLimit, Inv
<1>2. \A s \in Stream : page[s] # NoRow => page[s] \in Copies /\ Fits(s, page[s])
  BY <1>1 DEF TypeOK, CopiesFit
<1>3. stored' \in States /\ late' \subseteq Stream \X Copies
  BY <1>1, <1>2 DEF TypeOK
<1>4. \A copy \in late' : Fits(copy[1], copy[2])
  <2>1. ASSUME NEW copy \in late' PROVE Fits(copy[1], copy[2])
    <3>1. CASE copy \in late
      BY <1>1, <3>1 DEF CopiesFit
    <3>2. CASE copy \notin late
      <4>1. PICK s \in Stream : page[s] # NoRow /\ copy = <<s, page[s]>>
        BY <1>1, <3>2
      <4>2. copy[1] = s /\ copy[2] = page[s]
        BY <4>1
      <4>3. QED
        BY <1>2, <4>1, <4>2
    <3>3. QED
      BY <3>1, <3>2
  <2>2. QED
    BY <2>1
<1>5. QED
  BY <1>1, <1>3, <1>4, GoneTypes

LEMMA CrashTypes ==
    ASSUME Inv, Crash
    PROVE  /\ Quiet /\ state'.cursor = NoCursor /\ phase' = "idle" /\ heard' = 0
           /\ UNCHANGED unwritten /\ request'.start = 0
           /\ UNCHANGED <<stored, late>>
           /\ \A s \in Stream : page'[s] = NoRow
<1>1. Gone /\ UNCHANGED <<stored, late, unwritten>> /\ TypeOK
  BY DEF Crash, Inv
<1>2. stored' \in States /\ late' \subseteq Stream \X Copies
  BY <1>1 DEF TypeOK
<1>3. QED
  BY <1>1, <1>2, GoneTypes

LEMMA WebhookTypes ==
    ASSUME Inv, NEW i \in DOMAIN history, Webhook(i)
    PROVE  Quiet
<1>1. /\ TypeOK /\ Sorted /\ CopiesFit /\ table' = Written(i)
      /\ erased' = Erased(i)
      /\ UNCHANGED <<now, history, stored, requestVars, late, unwritten, requests>>
      /\ UNCHANGED history
  BY DEF Webhook, Inv
<1>2. Moves
  BY <1>1, WrittenMoves
<1>3. QED
  BY <1>1, <1>2 DEF Quiet, TypeOK, Moves, Rows, requestVars

LEMMA WrittenLateTypes ==
    ASSUME Inv, NEW copy \in late, WrittenLate(copy)
    PROVE  Quiet
<1>1. /\ TypeOK /\ CopiesFit /\ table' = Upsert(copy[1], copy[2]) /\ late' = late \ {copy}
      /\ UNCHANGED <<now, history, stored, requestVars, unwritten, erased, requests>>
  BY DEF WrittenLate, Inv
<1>2. copy[1] \in Stream /\ copy[2] \in Copies /\ Fits(copy[1], copy[2])
  BY <1>1 DEF TypeOK, CopiesFit
<1>3. Moves
  BY <1>1, <1>2, UpsertMoves
<1>4. QED
  BY <1>1, <1>3 DEF Quiet, TypeOK, Moves, Rows, requestVars

-----------------------------------------------------------------------------
(* The invariant, step by step: first the parts a quiet step keeps whatever *)
(* it is.                                                                   *)

LEMMA QuietKeeps ==
    ASSUME Inv, Quiet,
           \A s \in Stream : page'[s] # NoRow => page'[s] = page[s] \/ Fits(s, page'[s]),
           \A copy \in late' : copy \in late \/ Fits(copy[1], copy[2])
    PROVE  Sorted' /\ CopiesFit'
<1>1. /\ TypeOK /\ TypeOK' /\ CopiesFit /\ Moves /\ UNCHANGED <<now, history>>
      /\ now \in Nat /\ now' \in Nat /\ now <= now'
  BY Parameters DEF Inv, Quiet, TypeOK, Seconds
<1>2. Sorted'
  BY <1>1 DEF Inv, Sorted, Created
<1>3. \A s \in Stream : table'[s] # NoRow => Fits(s, table[s])'
  BY <1>1, TableStays
<1>4. \A s \in Stream : page'[s] # NoRow => page'[s] \in Copies /\ Fits(s, page'[s])
  BY <1>1 DEF CopiesFit, TypeOK
<1>5. \A s \in Stream : page'[s] # NoRow => Fits(s, page[s])'
  BY <1>1, <1>4 DEF Fits, Of, Created
<1>6. \A copy \in late' : Fits(copy[1], copy[2])'
  BY <1>1 DEF CopiesFit, Fits, Of, Created
<1>7. QED
  BY <1>2, <1>3, <1>5, <1>6 DEF CopiesFit

LEMMA QuietReaches ==
    ASSUME Inv, Quiet, NEW since \in Cursors, NEW cursor \in Cursors, Reaches(since, cursor)
    PROVE  Reaches(since, cursor)'
<1>1. /\ TypeOK /\ Sorted /\ CopiesFit /\ Moves /\ UNCHANGED history
      /\ unwritten \subseteq unwritten' /\ now' = now
  BY DEF Inv, Quiet
<1>2. now' \in Nat /\ now <= now'
  BY <1>1, Parameters DEF TypeOK, Seconds
<1>3. QED
  BY <1>1, <1>2, ReachesStays

LEMMA CursorsKept ==
    ASSUME Inv, Quiet,
           \/ state'.cursor = NoCursor
           \/ SameCursor
           \/ Reaches(state.since, state.cursor)',
           \/ UNCHANGED stored
           \/ stored' = state
           \/ stored'.cursor = NoCursor
           \/ Reaches(stored.since, stored.cursor)'
    PROVE  CursorsReach'
<1>1. TypeOK /\ CursorsReach
  BY DEF Inv
<1>2. ASSUME state'.cursor # NoCursor PROVE Reaches(state.since, state.cursor)'
  <2>1. CASE SameCursor
    <3>1. PICK since \in Cursors, cursor \in Cursors : since = state.since /\ cursor = state.cursor
      BY <1>1, RequestFields
    <3>2. Reaches(since, cursor)
      BY <1>1, <1>2, <2>1, <3>1 DEF CursorsReach, SameCursor
    <3>3. Reaches(since, cursor)'
      BY <3>2, QuietReaches
    <3>4. QED
      BY <2>1, <3>1, <3>3 DEF SameCursor, Reaches
  <2>2. QED
    BY <1>2, <2>1
<1>3. ASSUME stored'.cursor # NoCursor PROVE Reaches(stored.since, stored.cursor)'
  <2>1. ASSUME NEW old \in {stored, state}, stored' = old PROVE Reaches(stored.since, stored.cursor)'
    <3>1. PICK since \in Cursors, cursor \in Cursors :
            since = stored'.since /\ cursor = stored'.cursor
      BY <1>1, <2>1, RequestFields
    <3>2. Reaches(since, cursor)
      BY <1>1, <1>3, <2>1, <3>1 DEF CursorsReach
    <3>3. Reaches(since, cursor)'
      BY <3>2, QuietReaches
    <3>4. QED
      BY <3>1, <3>3 DEF Reaches
  <2>2. CASE UNCHANGED stored
    BY <2>1, <2>2
  <2>3. CASE stored' = state
    BY <2>1, <2>3
  <2>4. QED
    BY <1>3, <2>2, <2>3
<1>4. QED
  BY <1>2, <1>3 DEF CursorsReach

LEMMA PollingKept ==
    ASSUME Inv, Quiet, SameCursor, UNCHANGED <<phase, events, latest>>
    PROVE  Polling'
<1> SUFFICES ASSUME phase = "poll"
             PROVE  /\ latest = NoCursor => events = <<>>
                    /\ latest # NoCursor =>
                          /\ state'.cursor # NoCursor
                          /\ Reaches(state.since, latest)'
                          /\ \A k \in DOMAIN events : /\ events[k] = events[1] + k - 1
                                                      /\ latest <= Created(events[k])'
                          /\ events # <<>> => \A i \in 1 .. events[1] - 1 : Created(i)' <= latest
  BY DEF Polling, Created
<1>1. TypeOK /\ Polling /\ UNCHANGED history /\ state'.since = state.since
      /\ state'.cursor = state.cursor
  BY DEF Inv, Quiet, SameCursor
<1>2. ASSUME latest # NoCursor PROVE Reaches(state.since, latest)'
  <2>1. PICK since \in Cursors, cursor \in Cursors : since = state.since /\ cursor = latest
    BY <1>1, RequestFields DEF TypeOK, Cursors
  <2>2. Reaches(since, cursor)
    BY <1>1, <1>2, <2>1 DEF Polling
  <2>3. Reaches(since, cursor)'
    BY <2>2, QuietReaches
  <2>4. QED
    BY <1>1, <2>1, <2>3 DEF Reaches
<1>3. QED
  BY <1>1, <1>2 DEF Polling, Created

(* What has been heard since the request opened is in the history.          *)
LEMMA HeardAre ==
    ASSUME TypeOK, NEW n \in Nat, n <= Len(history)
    PROVE  /\ \A i \in request.from + 1 .. n : i \in DOMAIN history
           /\ \A i \in request.from + 1 .. n + 1 : i \in request.from + 1 .. n \/ i = n + 1
<1>1. request.from \in Nat /\ DOMAIN history = 1 .. Len(history) /\ Len(history) \in Nat
  BY RequestFields, HistoryIs
<1>2. QED
  BY <1>1

LEMMA HeardKept ==
    ASSUME Inv, Quiet, UNCHANGED <<heard, queue, request>>
    PROVE  ReceivedIsWritten'
<1>1. /\ TypeOK /\ Sorted /\ CopiesFit /\ Moves /\ UNCHANGED history /\ ReceivedIsWritten
      /\ heard <= Len(history) /\ unwritten \subseteq unwritten'
  BY DEF Inv, Quiet
<1>2. \A i \in DOMAIN history : Covered(i) => Covered(i)'
  BY <1>1, CoveredStays
<1>3. \A i \in request.from + 1 .. heard : i \in DOMAIN history
  BY <1>1, HeardAre DEF TypeOK
<1>4. QED
  BY <1>1, <1>2, <1>3 DEF ReceivedIsWritten

LEMMA ReceiveKeeps ==
    ASSUME Inv, Receive
    PROVE  ReceivedIsWritten'
<1>1. /\ TypeOK /\ Sorted /\ CopiesFit /\ Moves /\ UNCHANGED history /\ ReceivedIsWritten
      /\ heard \in Nat /\ heard <= Len(history) /\ heard' = heard + 1
      /\ queue \in Seq(DOMAIN history) /\ queue' = Append(queue, heard')
      /\ UNCHANGED <<request, unwritten>>
  BY ReceiveTypes DEF Inv, Quiet, TypeOK
<1>2. \A i \in DOMAIN history : Covered(i) => Covered(i)'
  BY <1>1, CoveredStays
<1>3. \A i \in request.from + 1 .. heard' : i \in request.from + 1 .. heard \/ i = heard'
  BY <1>1, HeardAre
<1>4. \A i \in request.from + 1 .. heard : i \in DOMAIN history
  BY <1>1, HeardAre
<1>5. /\ DOMAIN queue \subseteq DOMAIN queue' /\ \A k \in DOMAIN queue : queue'[k] = queue[k]
      /\ \E k \in DOMAIN queue' : queue'[k] = heard'
  <2>1. Len(queue) \in Nat /\ Len(queue') = Len(queue) + 1
        /\ DOMAIN queue = 1 .. Len(queue) /\ DOMAIN queue' = 1 .. Len(queue')
        /\ queue'[Len(queue) + 1] = heard'
        /\ \A k \in 1 .. Len(queue) : queue'[k] = queue[k]
    BY <1>1
  <2>2. Len(queue) + 1 \in DOMAIN queue' /\ DOMAIN queue \subseteq DOMAIN queue'
    BY <2>1
  <2>3. QED
    BY <2>1, <2>2
<1>6. ASSUME NEW i \in (request.from + 1 .. heard') \ unwritten'
      PROVE  (\E k \in DOMAIN queue' : queue'[k] = i) \/ Covered(i)'
  <2>1. CASE i = heard'
    BY <1>5, <2>1
  <2>2. CASE i \in request.from + 1 .. heard
    <3>1. (\E k \in DOMAIN queue : queue[k] = i) \/ Covered(i)
      BY <1>1, <1>6, <2>2 DEF ReceivedIsWritten
    <3>2. QED
      BY <1>2, <1>4, <1>5, <2>2, <3>1
  <2>3. QED
    BY <1>3, <2>1, <2>2
<1>7. QED
  BY <1>1, <1>6 DEF ReceivedIsWritten

LEMMA DrainKeeps ==
    ASSUME Inv, Drain
    PROVE  ReceivedIsWritten'
<1>1. PICK head : head = queue[1]
  OBVIOUS
<1>2. /\ Quiet /\ queue # <<>> /\ queue' = Tail(queue)
      /\ head \in unwritten' \/ Covered(head)'
      /\ UNCHANGED <<request, heard>>
  BY <1>1, DrainTypes
<1>3. /\ TypeOK /\ Sorted /\ CopiesFit /\ Moves /\ UNCHANGED history /\ ReceivedIsWritten
      /\ heard \in Nat /\ heard <= Len(history) /\ unwritten \subseteq unwritten'
      /\ queue \in Seq(DOMAIN history)
  BY <1>2 DEF Inv, Quiet, TypeOK
<1>4. \A i \in DOMAIN history : Covered(i) => Covered(i)'
  BY <1>3, CoveredStays
<1>5. \A i \in request.from + 1 .. heard : i \in DOMAIN history
  BY <1>3, HeardAre
<1>6. \A k \in DOMAIN queue : k = 1 \/ (k - 1 \in DOMAIN queue' /\ queue'[k - 1] = queue[k])
  BY <1>2, <1>3
<1>7. ASSUME NEW i \in (request.from + 1 .. heard) \ unwritten'
      PROVE  (\E k \in DOMAIN queue' : queue'[k] = i) \/ Covered(i)'
  <2>1. (\E k \in DOMAIN queue : queue[k] = i) \/ Covered(i)
    BY <1>3, <1>7 DEF ReceivedIsWritten
  <2>2. CASE Covered(i)
    BY <1>4, <1>5, <1>7, <2>2
  <2>3. CASE \E k \in DOMAIN queue : queue[k] = i
    <3>1. PICK k \in DOMAIN queue : queue[k] = i
      BY <2>3
    <3>2. CASE k = 1
      BY <1>1, <1>2, <1>7, <3>1, <3>2
    <3>3. CASE k # 1
      BY <1>6, <3>1, <3>3
    <3>4. QED
      BY <3>2, <3>3
  <2>4. QED
    BY <2>1, <2>2, <2>3
<1>8. QED
  BY <1>2, <1>3, <1>7 DEF ReceivedIsWritten

(* Polling begins where the last cursor stands, and reads what follows it.  *)
LEMMA StartPollKeeps ==
    ASSUME Inv, StartPoll
    PROVE  CursorsReach' /\ Polling'
<1>1. /\ Quiet /\ phase' = "poll" /\ UNCHANGED <<stored, now, history>>
      /\ TypeOK /\ Sorted /\ CursorsReach /\ request.start \in Nat /\ request.start <= now
      /\ state.cursor \in Cursors /\ state.since \in Cursors
  BY StartPollTypes, RequestFields DEF StartPoll, Inv, Quiet
<1>2. ASSUME state'.cursor = request.start, state'.since = request.start
      PROVE  Reaches(state.since, state.cursor)'
  <2>1. \A i \in DOMAIN history' :
          ~ (state'.since < Created(i)' /\ Created(i)' <= state'.cursor)
    BY <1>1, <1>2, HistoryIs DEF Created
  <2>2. state'.since <= state'.cursor /\ state'.cursor <= now'
    BY <1>1, <1>2
  <2>3. QED
    BY <1>2, <2>1, <2>2 DEF Reaches
<1>3. CursorsReach'
  BY <1>1, <1>2, StartPollTypes, CursorsKept
<1>4. CASE latest' = NoCursor /\ events' = <<>>
  BY <1>3, <1>4 DEF Polling
<1>5. CASE /\ latest' = state.cursor /\ latest' # NoCursor /\ SameCursor
           /\ events' = OldestFirst(Since(latest'))
  <2>1. PICK since \in Cursors, cursor \in Cursors : since = state.since /\ cursor = state.cursor
    BY <1>1
  <2>2. Reaches(since, cursor)
    BY <1>1, <1>5, <2>1 DEF CursorsReach
  <2>3. Reaches(since, cursor)'
    BY <1>1, <2>2, QuietReaches
  <2>4. cursor \in Nat
    BY Parameters
  <2>5. events' = OldestFirst(Since(cursor))
    BY <1>5, <2>1
  <2>6. /\ \A k \in DOMAIN events' : /\ events'[k] = events'[1] + k - 1
                                     /\ cursor <= Created(events'[k])
        /\ events' # <<>> => \A i \in 1 .. events'[1] - 1 : Created(i) <= cursor
    BY <1>1, <2>4, <2>5, OldestFirstIs
  <2>7. state'.cursor # NoCursor /\ state'.since = since /\ latest' = cursor
    BY <1>5, <2>1 DEF SameCursor
  <2>8. \A k \in DOMAIN events' : latest' <= history'[events'[k]].created
    BY <1>1, <2>6, <2>7 DEF Created
  <2>9. Reaches(state.since, latest)'
    BY <2>3, <2>7 DEF Reaches
  <2>10. QED
    BY <1>1, <1>3, <1>5, <2>6, <2>7, <2>8, <2>9 DEF Polling, Created
<1>6. QED
  BY <1>3, <1>4, <1>5, StartPollTypes

(* An event of the poll moves the cursor to its second, and there is no     *)
(* event in between.                                                        *)
LEMMA PollEventKeeps ==
    ASSUME Inv, PollEvent
    PROVE  CursorsReach' /\ Polling'
<1>1. PICK head : head = events[1]
  OBVIOUS
<1>2. /\ Quiet /\ SameCursor /\ phase = "poll" /\ phase' = "poll" /\ events # <<>>
      /\ head \in DOMAIN history /\ events' = Tail(events)
      /\ head \in unwritten' \/ Covered(head)'
      /\ latest' = IF Created(head) > latest THEN Created(head) ELSE latest
      /\ UNCHANGED <<stored, now, history>>
  BY <1>1, PollEventTypes DEF Quiet
<1>3. CursorsReach'
  BY <1>2, CursorsKept
<1>4. /\ TypeOK /\ Sorted /\ Polling /\ events \in Seq(DOMAIN history) /\ latest \in Cursors
      /\ unwritten \subseteq unwritten' /\ now \in Nat
      /\ state.since \in Cursors /\ state'.since = state.since /\ state'.cursor = state.cursor
  BY <1>2, RequestFields, Parameters DEF Inv, Quiet, TypeOK, SameCursor, Cursors, Seconds
<1>5. latest # NoCursor
  BY <1>2, <1>4 DEF Polling
<1>6. /\ state.cursor # NoCursor
      /\ Reaches(state.since, latest)
      /\ \A k \in DOMAIN events : /\ events[k] = head + k - 1
                                  /\ latest <= Created(events[k])
      /\ \A i \in 1 .. head - 1 : Created(i) <= latest
  BY <1>1, <1>2, <1>4, <1>5 DEF Polling
<1>7. /\ DOMAIN history = 1 .. Len(history) /\ Len(history) \in Nat
      /\ \A i \in DOMAIN history : i \in Nat /\ Created(i) \in Nat /\ Created(i) <= now
      /\ \A i, j \in DOMAIN history : i <= j => Created(i) <= Created(j)
      /\ latest \in Nat /\ head \in Nat /\ Created(head) \in Seconds
  BY <1>2, <1>4, HistoryIs, Parameters DEF Sorted
<1>8. latest' = Created(head) /\ latest <= Created(head) /\ latest' # NoCursor
  <2>1. 1 \in DOMAIN events
    BY <1>2, <1>4
  <2>2. latest <= Created(head)
    BY <1>1, <1>6, <2>1
  <2>3. QED
    BY <1>2, <1>7, <2>2, Parameters
<1>9. PICK since \in Cursors, cursor \in Cursors : since = state.since /\ cursor = latest
  BY <1>4
<1>10. Reaches(since, cursor)'
  BY <1>2, <1>6, <1>9, QuietReaches DEF Reaches
<1>11. Reaches(state.since, latest)'
  <2>1. since \in Nat /\ cursor \in Nat
    BY Parameters
  <2>2. since <= Created(head) /\ Created(head) <= now'
    BY <1>2, <1>6, <1>7, <1>8, <1>9, <2>1 DEF Reaches
  <2>3. ASSUME NEW i \in DOMAIN history \ unwritten', FirstOfItsSecond(i)',
               since < Created(i), Created(i) <= Created(head)
        PROVE  Covered(i)'
    <3>1. CASE Created(i) <= cursor
      BY <1>2, <1>10, <2>3, <3>1 DEF Reaches, Created
    <3>2. CASE ~ (Created(i) <= cursor)
      <4>1. i \in 1 .. Len(history) /\ ~ (i \in 1 .. head - 1) /\ Created(i) \in Nat /\ i \in Nat
        BY <1>6, <1>7, <1>9, <3>2
      <4>2. head <= i
        BY <1>7, <4>1
      <4>3. Created(head) = Created(i)
        BY <1>2, <1>7, <2>3, <4>1, <4>2
      <4>4. ~ (head \in 1 .. i - 1)
        BY <1>2, <1>7, <2>3, <4>1, <4>3 DEF FirstOfItsSecond, Created
      <4>5. head = i
        BY <1>2, <1>7, <4>1, <4>2, <4>4
      <4>6. QED
        BY <1>2, <2>3, <4>5
    <3>3. QED
      BY <3>1, <3>2
  <2>4. QED
    BY <1>2, <1>4, <1>8, <1>9, <2>2, <2>3 DEF Reaches, Created
<1>12. \A k \in DOMAIN events' : /\ k \in Nat /\ k + 1 \in DOMAIN events
                                 /\ events'[k] = events[k + 1] /\ events[k + 1] \in DOMAIN history
  BY <1>2, <1>4
<1>13. ASSUME NEW k \in DOMAIN events'
       PROVE  /\ events'[k] = head + k
              /\ latest' <= Created(events'[k])
  <2>1. events'[k] = head + (k + 1) - 1 /\ k \in Nat
    BY <1>6, <1>12
  <2>2. events'[k] \in DOMAIN history /\ head <= events'[k] /\ events'[k] = head + k
    BY <1>7, <1>12, <2>1
  <2>3. Created(head) <= Created(events'[k])
    BY <1>2, <1>7, <2>2
  <2>4. QED
    BY <1>8, <2>2, <2>3
<1>14. ASSUME events' # <<>>
       PROVE  events'[1] = head + 1 /\ \A k \in DOMAIN events' : events'[k] = events'[1] + k - 1
  <2>1. 1 \in DOMAIN events'
    BY <1>2, <1>4, <1>14
  <2>2. events'[1] = head + 1
    BY <1>13, <2>1
  <2>3. QED
    BY <1>7, <1>12, <1>13, <2>2
<1>15. ASSUME NEW i \in 1 .. head PROVE Created(i) <= latest'
  BY <1>2, <1>7, <1>8, <1>15
<1>16. QED
  <2>1. \A k \in DOMAIN events' : /\ events'[k] = events'[1] + k - 1
                                  /\ latest' <= history'[events'[k]].created
    <3>1. ASSUME NEW k \in DOMAIN events' PROVE events' # <<>>
      BY <3>1
    <3>2. QED
      BY <1>2, <1>13, <1>14, <3>1 DEF Created
  <2>2. events' # <<>> => \A i \in 1 .. events'[1] - 1 : history'[i].created <= latest'
    <3>1. ASSUME events' # <<>> PROVE events'[1] - 1 = head
      BY <1>7, <1>14, <3>1
    <3>2. QED
      BY <1>2, <1>15, <3>1 DEF Created
  <2>3. QED
    BY <1>3, <1>4, <1>6, <1>8, <1>11, <2>1, <2>2 DEF Polling, Created

LEMMA LatestIsReached ==
    ASSUME Inv, Quiet, phase = "poll", latest # NoCursor
    PROVE  \A since, cursor \in Cursors :
              since = state.since /\ cursor = latest => Reaches(since, cursor)'
<1>1. ASSUME NEW since \in Cursors, NEW cursor \in Cursors, since = state.since, cursor = latest
      PROVE  Reaches(since, cursor)'
  <2>1. Reaches(since, cursor)
    BY <1>1 DEF Inv, Polling
  <2>2. QED
    BY <2>1, QuietReaches
<1>2. QED
  BY <1>1

LEMMA PolledKeeps ==
    ASSUME Inv, Polled
    PROVE  CursorsReach'
<1>1. /\ Quiet /\ state' = CursorAfter /\ phase = "poll" /\ UNCHANGED stored /\ TypeOK
  BY PolledTypes DEF Inv
<1>2. CASE latest = NoCursor
  BY <1>1, <1>2, CursorAfterIs, CursorsKept DEF SameCursor
<1>3. CASE latest # NoCursor
  <2>1. PICK since \in Cursors, cursor \in Cursors : since = state.since /\ cursor = latest
    BY <1>1, RequestFields DEF TypeOK, Cursors
  <2>2. Reaches(since, cursor)'
    BY <1>1, <1>3, <2>1, LatestIsReached
  <2>3. state'.since = since /\ state'.cursor = cursor
    BY <1>1, <1>3, <2>1, CursorAfterIs
  <2>4. Reaches(state.since, state.cursor)'
    BY <2>2, <2>3 DEF Reaches
  <2>5. QED
    BY <1>1, <2>4, CursorsKept
<1>4. QED
  BY <1>2, <1>3

LEMMA EofKeeps ==
    ASSUME Inv, Eof
    PROVE  CursorsReach'
<1>1. /\ Quiet /\ stored' = CursorAfter /\ phase = "poll" /\ state'.cursor = NoCursor /\ TypeOK
      /\ CursorsReach
  BY EofTypes DEF Inv
<1>2. CASE latest = NoCursor
  <2>1. stored' = state
    BY <1>1, <1>2 DEF CursorAfter
  <2>2. QED
    BY <1>1, <2>1, CursorsKept
<1>3. CASE latest # NoCursor
  <2>1. PICK since \in Cursors, cursor \in Cursors : since = state.since /\ cursor = latest
    BY <1>1, RequestFields DEF TypeOK, Cursors
  <2>2. Reaches(since, cursor)'
    BY <1>1, <1>3, <2>1, LatestIsReached
  <2>3. stored'.since = since /\ stored'.cursor = cursor
    BY <1>1, <1>3, <2>1, CursorAfterIs
  <2>4. Reaches(stored.since, stored.cursor)'
    BY <2>2, <2>3 DEF Reaches
  <2>5. QED
    BY <1>1, <2>4, CursorsKept
<1>4. QED
  BY <1>2, <1>3

LEMMA OpenKeeps ==
    ASSUME Inv, NEW newRun \in BOOLEAN, Open(newRun)
    PROVE  CursorsReach' /\ BackfillCursor' /\ ReceivedIsWritten' /\ heard' <= Len(history)
<1>1. /\ Quiet /\ TypeOK /\ Sorted /\ CursorsReach /\ request'.from = Len(history)
      /\ heard' = IF websocket THEN Len(history) ELSE 0
      /\ UNCHANGED <<stored, unwritten, queue, history, now>>
      /\ \/ /\ state'.cursor = NoCursor /\ request'.input.cursor = NoCursor
            /\ request'.input.since = state'.since
         \/ /\ state'.cursor = stored.cursor /\ state'.since = stored.since
            /\ request'.input.cursor = stored.cursor /\ request'.input.since = stored.since
  BY OpenTypes DEF Inv, Open
<1>2. ASSUME state'.cursor = stored.cursor, state'.since = stored.since, state'.cursor # NoCursor
      PROVE  Reaches(state.since, state.cursor)'
  <2>1. PICK since \in Cursors, cursor \in Cursors : since = stored.since /\ cursor = stored.cursor
    BY <1>1, RequestFields
  <2>2. Reaches(since, cursor)
    BY <1>1, <1>2, <2>1 DEF CursorsReach
  <2>3. Reaches(since, cursor)'
    BY <1>1, <2>2, QuietReaches
  <2>4. QED
    BY <1>2, <2>1, <2>3 DEF Reaches
<1>3. CursorsReach'
  BY <1>1, <1>2, CursorsKept
<1>4. BackfillCursor'
  BY <1>1 DEF BackfillCursor
<1>5. Len(history) \in Nat /\ heard' <= Len(history) /\ heard' \in Nat
  BY <1>1, HistoryIs
<1>6. request'.from + 1 .. heard' = {}
  BY <1>1, <1>5
<1>7. ReceivedIsWritten'
  BY <1>6 DEF ReceivedIsWritten
<1>8. QED
  BY <1>3, <1>4, <1>5, <1>7

LEMMA GoneKeeps ==
    ASSUME TypeOK', heard' = 0
    PROVE  ReceivedIsWritten'
<1>1. request'.from \in Nat
  <2>1. request' \in [input : States, streams : SUBSET Stream, start : 0 .. MaxTime,
                      from : Nat]
    BY DEF TypeOK
  <2>2. QED
    BY <2>1
<1>2. request'.from + 1 .. heard' = {}
  BY <1>1
<1>3. QED
  BY <1>2 DEF ReceivedIsWritten

LEMMA TickKeeps ==
    ASSUME Inv, Tick
    PROVE  Inv'
<1>1. /\ TypeOK /\ now \in Nat /\ now' = now + 1
      /\ UNCHANGED <<history, table, stored, websocket, state, phase, request, page, events,
                      latest, queue, heard, late, unwritten, erased, requests>>
  BY Parameters DEF Inv, TypeOK, Tick, requestVars, Seconds
<1>2. now' \in Nat /\ now <= now' /\ Moves
  BY <1>1, Stays
<1>3. TypeOK'
  BY TickTypes
<1>4. Sorted'
  BY <1>1, HistoryIs DEF Inv, Sorted, Created
<1>5. CopiesFit'
  <2>1. CopiesFit
    BY DEF Inv
  <2>2. \A s \in Stream : table'[s] # NoRow => Fits(s, table[s])'
    BY <1>1, <1>2, <2>1, TableStays
  <2>3. \A s \in Stream : page[s] # NoRow => page[s] \in Copies /\ Fits(s, page[s])
    BY <1>1, <2>1 DEF CopiesFit, TypeOK
  <2>4. \A s \in Stream : page'[s] # NoRow => Fits(s, page[s])'
    <3>1. \A s \in Stream : page[s] # NoRow => page[s].stamp \in Nat
      BY <2>3, RowsAre
    <3>2. QED
      BY <1>1, <1>2, <2>3, <3>1 DEF Fits, Of, Created
  <2>5. \A copy \in late' : Fits(copy[1], copy[2])'
    <3>1. \A copy \in late : copy[2] \in Copies /\ copy[2].stamp \in Nat /\ Fits(copy[1], copy[2])
      BY <1>1, <2>1, RowsAre DEF CopiesFit, TypeOK
    <3>2. QED
      BY <1>1, <1>2, <3>1 DEF Fits, Of, Created
  <2>6. QED
    BY <2>2, <2>4, <2>5 DEF CopiesFit
<1>6. \A since, cursor \in Cursors : Reaches(since, cursor) => Reaches(since, cursor)'
  <2>1. Sorted /\ CopiesFit /\ unwritten \subseteq unwritten'
    BY <1>1 DEF Inv
  <2>2. QED
    BY <1>1, <1>2, <2>1, ReachesStays
<1>7. CursorsReach'
  BY <1>1, <1>6, RequestFields DEF Inv, CursorsReach, Reaches
<1>8. Polling'
  <2>1. latest \in Cursors /\ Polling
    BY <1>1 DEF TypeOK, Cursors, Inv
  <2>2. QED
    BY <1>1, <1>6, <2>1, RequestFields DEF Polling, Created, Reaches
<1>9. BackfillCursor' /\ request'.start <= now' /\ heard' <= Len(history')
  BY <1>1, RequestFields DEF Inv, BackfillCursor
<1>10. ReceivedIsWritten'
  BY <1>1 DEF Inv, ReceivedIsWritten, Covered, Reflected, LostToItsSecond,
                Returned
<1>11. QED
  BY <1>3, <1>4, <1>5, <1>7, <1>8, <1>9, <1>10 DEF Inv

LEMMA ChangeKeeps ==
    ASSUME Inv, NEW s \in Stream, NEW deleted \in BOOLEAN, Change(s, deleted)
    PROVE  Inv'
<1>1. /\ TypeOK /\ Sorted /\ CopiesFit
      /\ UNCHANGED <<now, table, stored, websocket, state, phase, request, page, events,
                      latest, queue, heard, late, unwritten, erased, requests>>
  BY DEF Inv, Change, requestVars
<1>2. TypeOK' /\ Sorted'
  BY <1>1, ChangeTypes, SortedGrows
<1>3. \A x : \A copy \in Copies : Fits(x, copy) => Fits(x, copy)'
  BY <1>1, FitsGrows
<1>4. CopiesFit'
  <2>1. /\ \A x \in Stream : /\ table[x] # NoRow => table[x] \in Copies /\ Fits(x, table[x])
                             /\ page[x] # NoRow => page[x] \in Copies /\ Fits(x, page[x])
        /\ \A copy \in late : copy[2] \in Copies /\ Fits(copy[1], copy[2])
    BY <1>1 DEF TypeOK, CopiesFit
  <2>2. QED
    BY <1>1, <1>3, <2>1 DEF CopiesFit, Fits, Of, Created
<1>5. \A since, cursor \in Cursors : Reaches(since, cursor) => Reaches(since, cursor)'
  BY <1>1, ReachesGrows
<1>6. CursorsReach'
  BY <1>1, <1>5, RequestFields DEF Inv, CursorsReach, Reaches
<1>7. Polling'
  <2>1. latest \in Cursors /\ Polling /\ events \in Seq(DOMAIN history)
    BY <1>1 DEF TypeOK, Cursors, Inv
  <2>2. ASSUME phase = "poll", latest # NoCursor
        PROVE  Reaches(state.since, latest)'
    BY <1>1, <1>5, <2>1, <2>2, RequestFields DEF Polling, Reaches
  <2>3. \A k \in DOMAIN events : events[k] \in DOMAIN history
    BY <2>1
  <2>4. events # <<>> => \A i \in 1 .. events[1] - 1 : i \in DOMAIN history
    BY <1>1, <2>1, HistoryIs
  <2>5. \A i \in DOMAIN history : history'[i].created = history[i].created
    BY <1>1, HistoryGrows
  <2>6. QED
    BY <1>1, <2>1, <2>2, <2>3, <2>4, <2>5 DEF Polling, Created
<1>8. /\ heard \in Nat /\ heard <= Len(history) /\ Len(history) \in Nat
      /\ Len(history') = Len(history) + 1
  BY <1>1, HistoryIs, HistoryGrows DEF Inv, TypeOK
<1>9. BackfillCursor' /\ request'.start <= now' /\ heard' <= Len(history')
  BY <1>1, <1>8 DEF Inv, BackfillCursor
<1>10. ReceivedIsWritten'
  <2>1. \A i \in request.from + 1 .. heard : i \in DOMAIN history
    BY <1>1, <1>8, HeardAre
  <2>2. \A i \in DOMAIN history : Covered(i) => Covered(i)'
    BY <1>1, CoveredGrows
  <2>3. ASSUME NEW i \in (request.from + 1 .. heard) \ unwritten
        PROVE  (\E k \in DOMAIN queue : queue[k] = i) \/ Covered(i)'
    <3>1. i \in DOMAIN history /\ ReceivedIsWritten
      BY <2>1, <2>3 DEF Inv
    <3>2. QED
      BY <2>2, <3>1 DEF ReceivedIsWritten
  <2>4. QED
    BY <1>1, <2>3 DEF ReceivedIsWritten
<1>11. QED
  BY <1>2, <1>4, <1>6, <1>7, <1>9, <1>10 DEF Inv

-----------------------------------------------------------------------------

(* What is left to show of a quiet step.                                    *)
Kept ==
    /\ Quiet
    /\ \A s \in Stream : page'[s] # NoRow => page'[s] = page[s] \/ Fits(s, page'[s])
    /\ \A copy \in late' : copy \in late \/ Fits(copy[1], copy[2])
    /\ CursorsReach' /\ BackfillCursor' /\ Polling'
    /\ request'.start <= now' /\ heard' <= Len(history')
    /\ ReceivedIsWritten'

LEMMA KeptIsEnough ==
    ASSUME Inv, Kept
    PROVE  Quiet /\ Inv'
  BY QuietKeeps DEF Inv, Quiet, Kept

Reads ==
    \/ \E s \in Stream : NothingToList(s) \/ List(s) \/ PageWritten(s)
    \/ StartPoll \/ PollEvent \/ Polled \/ Receive \/ Drain

LEMMA ReadsKeep ==
    ASSUME Inv, Reads
    PROVE  Kept
<1>1. /\ BackfillCursor /\ Polling /\ ReceivedIsWritten /\ heard <= Len(history)
      /\ request.start <= now /\ TypeOK
  BY DEF Inv
<1>2. ASSUME NEW s \in Stream, NothingToList(s) PROVE Kept
  <2>1. /\ Quiet /\ SameCursor
        /\ UNCHANGED <<now, history, stored, phase, request, page, events, latest, queue, late, heard>>
    BY <1>2, NothingToListTypes DEF NothingToList
  <2>2. CursorsReach' /\ Polling' /\ ReceivedIsWritten'
    BY <2>1, CursorsKept, PollingKept, HeardKept
  <2>3. QED
    BY <1>1, <2>1, <2>2 DEF Kept, BackfillCursor, SameCursor
<1>3. ASSUME NEW s \in Stream, List(s) PROVE Kept
  <2>1. /\ Quiet /\ SameCursor
        /\ \A x \in Stream : page'[x] # NoRow => page'[x] = page[x] \/ Fits(x, page'[x])
        /\ UNCHANGED <<now, history, stored, phase, request, events, latest, queue, late, heard>>
    BY <1>3, ListTypes DEF List
  <2>2. CursorsReach' /\ Polling' /\ ReceivedIsWritten'
    BY <2>1, CursorsKept, PollingKept, HeardKept
  <2>3. QED
    BY <1>1, <2>1, <2>2 DEF Kept, BackfillCursor, SameCursor
<1>4. ASSUME NEW s \in Stream, PageWritten(s) PROVE Kept
  <2>1. /\ Quiet /\ SameCursor
        /\ \A x \in Stream : page'[x] # NoRow => page'[x] = page[x]
        /\ UNCHANGED <<now, history, stored, phase, request, events, latest, queue, late, heard>>
    BY <1>4, PageWrittenTypes DEF PageWritten
  <2>2. CursorsReach' /\ Polling' /\ ReceivedIsWritten'
    BY <2>1, CursorsKept, PollingKept, HeardKept
  <2>3. QED
    BY <1>1, <2>1, <2>2 DEF Kept, BackfillCursor, SameCursor
<1>5. CASE StartPoll
  <2>1. /\ Quiet /\ phase' = "poll"
        /\ UNCHANGED <<now, history, stored, request, page, queue, late, heard>>
    BY <1>5, StartPollTypes DEF StartPoll
  <2>2. CursorsReach' /\ Polling' /\ ReceivedIsWritten'
    BY <1>5, <2>1, StartPollKeeps, HeardKept
  <2>3. QED
    BY <1>1, <2>1, <2>2 DEF Kept, BackfillCursor
<1>6. CASE PollEvent
  <2>1. /\ Quiet /\ phase' = "poll"
        /\ UNCHANGED <<now, history, stored, request, page, queue, late, heard>>
    BY <1>6, PollEventTypes DEF Quiet
  <2>2. CursorsReach' /\ Polling' /\ ReceivedIsWritten'
    BY <1>6, <2>1, PollEventKeeps, HeardKept
  <2>3. QED
    BY <1>1, <2>1, <2>2 DEF Kept, BackfillCursor
<1>7. CASE Polled
  <2>1. /\ Quiet /\ phase' = "wait"
        /\ UNCHANGED <<now, history, stored, request, page, queue, late, heard>>
    BY <1>7, PolledTypes DEF Quiet
  <2>2. CursorsReach' /\ Polling' /\ ReceivedIsWritten'
    BY <1>7, <2>1, PolledKeeps, HeardKept DEF Polling
  <2>3. QED
    BY <1>1, <2>1, <2>2 DEF Kept, BackfillCursor
<1>8. CASE Receive
  <2>1. /\ Quiet /\ heard' <= Len(history)
        /\ UNCHANGED <<now, history, stored, state, phase, request, page, events, latest, late>>
    BY <1>8, ReceiveTypes DEF Quiet
  <2>2. CursorsReach' /\ Polling' /\ ReceivedIsWritten'
    BY <1>8, <2>1, ReceiveKeeps, CursorsKept, PollingKept DEF SameCursor
  <2>3. QED
    BY <1>1, <2>1, <2>2 DEF Kept, BackfillCursor
<1>9. CASE Drain
  <2>1. /\ Quiet /\ SameCursor
        /\ UNCHANGED <<now, history, stored, phase, request, page, events, latest, late, heard>>
    BY <1>9, DrainTypes DEF Quiet
  <2>2. CursorsReach' /\ Polling' /\ ReceivedIsWritten'
    BY <1>9, <2>1, DrainKeeps, CursorsKept, PollingKept
  <2>3. QED
    BY <1>1, <2>1, <2>2 DEF Kept, BackfillCursor, SameCursor
<1>10. QED
  BY <1>2, <1>3, <1>4, <1>5, <1>6, <1>7, <1>8, <1>9 DEF Reads

LEMMA EndsKeep ==
    ASSUME Inv, Eof \/ HardLimit \/ Crash
    PROVE  Kept
<1>1. /\ TypeOK /\ now \in Nat /\ Len(history) \in Nat
  BY HistoryIs, Parameters DEF Inv, TypeOK, Seconds
<1>2. CASE Eof
  <2>1. CursorsReach'
    BY <1>2, EofKeeps
  <2>2. QED
    BY <1>1, <1>2, <2>1, EofTypes, GoneKeeps DEF Kept, Quiet, BackfillCursor, Polling
<1>3. CASE HardLimit
  <2>1. CursorsReach'
    BY <1>3, HardLimitTypes, CursorsKept
  <2>2. QED
    BY <1>1, <1>3, <2>1, HardLimitTypes, GoneKeeps DEF Kept, Quiet, BackfillCursor, Polling
<1>4. CASE Crash
  <2>1. CursorsReach'
    BY <1>4, CrashTypes, CursorsKept
  <2>2. QED
    BY <1>1, <1>4, <2>1, CrashTypes, GoneKeeps DEF Kept, Quiet, BackfillCursor, Polling
<1>5. QED
  BY <1>2, <1>3, <1>4

LEMMA OthersKeep ==
    ASSUME Inv,
           \/ UNCHANGED vars
           \/ \E i \in DOMAIN history : Webhook(i)
           \/ \E copy \in late : WrittenLate(copy)
    PROVE  Kept
<1>1. /\ BackfillCursor /\ Polling /\ ReceivedIsWritten /\ heard <= Len(history)
      /\ request.start <= now /\ TypeOK
  BY DEF Inv
<1>2. /\ Quiet
      /\ late' \subseteq late
      /\ UNCHANGED <<now, history, stored, state, phase, request, page, events, latest, queue, heard>>
  <2>1. CASE UNCHANGED vars
    BY <1>1, <2>1, Stays DEF Quiet, TypeOK, vars, requestVars
  <2>2. CASE \E i \in DOMAIN history : Webhook(i)
    BY <2>2, WebhookTypes DEF Webhook, requestVars
  <2>3. CASE \E copy \in late : WrittenLate(copy)
    BY <2>3, WrittenLateTypes DEF WrittenLate, requestVars
  <2>4. QED
    BY <2>1, <2>2, <2>3
<1>3. CursorsReach' /\ Polling' /\ ReceivedIsWritten'
  BY <1>2, CursorsKept, PollingKept, HeardKept DEF SameCursor
<1>4. QED
  BY <1>1, <1>2, <1>3 DEF Kept, BackfillCursor

LEMMA OpensKeep ==
    ASSUME Inv, NEW newRun \in BOOLEAN, Open(newRun)
    PROVE  Kept
<1>1. /\ Quiet /\ request'.start = now /\ phase' = "backfill" /\ now \in Nat
      /\ UNCHANGED <<now, history, page, late>>
  BY OpenTypes, Parameters DEF Open, Inv, TypeOK, Seconds
<1>2. CursorsReach' /\ BackfillCursor' /\ ReceivedIsWritten' /\ heard' <= Len(history)
  BY OpenKeeps
<1>3. QED
  BY <1>1, <1>2 DEF Kept, Polling

LEMMA StepKeeps ==
    ASSUME Inv, [Next]_vars
    PROVE  /\ Inv'
           /\ Moves \/ UNCHANGED table
<1>1. CASE Tick
  BY <1>1, TickKeeps DEF Tick
<1>2. ASSUME NEW s \in Stream, NEW deleted \in BOOLEAN, Change(s, deleted)
      PROVE  Inv' /\ UNCHANGED table
  BY <1>2, ChangeKeeps DEF Change
<1>3. CASE \E newRun \in BOOLEAN : Open(newRun)
  BY <1>3, OpensKeep, KeptIsEnough DEF Quiet
<1>4. CASE Reads
  BY <1>4, ReadsKeep, KeptIsEnough DEF Quiet
<1>5. CASE Eof \/ HardLimit \/ Crash
  BY <1>5, EndsKeep, KeptIsEnough DEF Quiet
<1>6. CASE \/ UNCHANGED vars
           \/ \E i \in DOMAIN history : Webhook(i)
           \/ \E copy \in late : WrittenLate(copy)
  BY <1>6, OthersKeep, KeptIsEnough DEF Quiet
<1>7. QED
  BY <1>1, <1>2, <1>3, <1>4, <1>5, <1>6 DEF Next, Reads

(* Websocket is a choice of the configuration: the values it may take are   *)
(* Booleans by assumption.                                                  *)
LEMMA InitInv ==
    ASSUME Init
    PROVE  Inv
<1>1. /\ websocket \in BOOLEAN /\ now = 0 /\ history = <<>>
      /\ table = [s \in Stream |-> NoRow] /\ page = [s \in Stream |-> NoRow]
      /\ stored = EmptyState /\ state = EmptyState /\ phase = "idle" /\ request = NoRequest
      /\ events = <<>> /\ latest = NoCursor /\ queue = <<>>
      /\ late = {} /\ unwritten = {} /\ erased = {} /\ heard = 0 /\ requests = 0
  BY LiveEventsAssumption DEF Init
<1>2. request \in [input : States, streams : SUBSET Stream, start : 0 .. MaxTime,
                   from : Nat]
      /\ request.start = 0
  <2> DEFINE Sets == SUBSET Stream
             Times == 0 .. MaxTime
  <2>1. EmptyState \in States /\ {} \in Sets /\ 0 \in Times
    BY EmptyStateIs, Parameters DEF Seconds
  <2> HIDE DEF Sets, Times
  <2>2. /\ [input |-> EmptyState, streams |-> {}, start |-> 0, from |-> 0]
             \in [input : States, streams : Sets, start : Times, from : Nat]
        /\ [input |-> EmptyState, streams |-> {}, start |-> 0, from |-> 0].start = 0
    BY <2>1
  <2>3. QED
    BY <1>1, <2>2 DEF NoRequest, Sets, Times
<1>3. Len(history) = 0 /\ DOMAIN history = {} /\ MaxEvents >= 0 /\ now \in 0 .. MaxTime
      /\ history \in Seq([stream : Stream, created : 0 .. MaxTime, deleted : BOOLEAN])
      /\ events \in Seq(DOMAIN history) /\ queue \in Seq(DOMAIN history)
      /\ latest \in 0 .. NoCursor
  BY <1>1, Parameters
<1>4. TypeOK
  BY <1>1, <1>2, <1>3, EmptyStateIs DEF TypeOK
<1>5. Sorted
  BY <1>3 DEF Sorted
<1>6. CopiesFit
  BY <1>1 DEF CopiesFit
<1>7. CursorsReach /\ BackfillCursor /\ Polling
  BY <1>1, EmptyStateIs DEF CursorsReach, BackfillCursor, Polling
<1>8. ReceivedIsWritten
  <2>1. request.from \in Nat
    BY <1>2
  <2>2. request.from + 1 .. heard = {}
    BY <1>1, <2>1
  <2>3. QED
    BY <2>2 DEF ReceivedIsWritten
<1>9. QED
  BY <1>1, <1>2, <1>3, <1>4, <1>5, <1>6, <1>7, <1>8 DEF Inv

THEOREM InvHolds == Spec => []Inv
<1>1. Inv /\ [Next]_vars => Inv'
  BY StepKeeps
<1>2. QED
  BY InitInv, <1>1, PTL DEF Spec

(* What a path took charge of is in the table, at its version or a later    *)
(* one: what lies before a cursor, and what the websocket has acknowledged  *)
(* and the queue no longer holds. Not so, and no more than that, events of  *)
(* ended streams, an event of the second the row was already stamped with,  *)
(* those of an object whose deletion an older copy has undone, and, for a   *)
(* cursor, later events of one second.                                      *)
THEOREM EventsAreCovered == Spec => []EventsCovered
<1>1. Inv => EventsCovered
  <2> SUFFICES ASSUME Inv PROVE CursorCovers
    BY DEF EventsCovered, Inv
  <2>1. TypeOK /\ CursorsReach
    BY DEF Inv
  <2>2. \A i \in DOMAIN history : Created(i) \in Nat
    BY <2>1, HistoryIs
  <2>3. \A st \in {stored, state} : st.cursor \in Nat
    BY <2>1, RequestFields, Parameters
  <2>4. QED
    BY <2>1, <2>2, <2>3 DEF CursorsReach, Reaches, CursorCovers, Created
<1>2. QED
  BY InvHolds, <1>1, PTL

(* A row only moves on to later versions of its object: a copy that         *)
(* replaces it is stamped later than the row, hence is not of a version     *)
(* that the row's own succeeds.                                             *)
THEOREM RowsAdvance == Spec => RowsOnlyAdvance
<1>1. ASSUME Inv, [Next]_vars, NEW s \in Stream, table[s] # NoRow, table'[s] # NoRow
      PROVE  table'[s].version >= table[s].version
  <2>1. table[s] \in Copies /\ Fits(s, table[s]) /\ TypeOK
    BY <1>1 DEF Inv, TypeOK, CopiesFit
  <2>2. table[s].version \in Nat /\ table[s].stamp \in Nat
    BY <2>1, RowsAre
  <2>3. CASE table'[s] = table[s]
    BY <2>2, <2>3
  <2>4. CASE table'[s] \in Copies /\ Fits(s, table'[s]) /\ table'[s].stamp > table[s].stamp
    <3>1. table'[s].version \in Nat /\ table'[s].stamp \in Nat
      BY <2>4, RowsAre
    <3>2. SUFFICES ASSUME table'[s].version < table[s].version PROVE FALSE
      BY <2>2, <3>1
    <3>3. table[s].version \in Of(s) /\ Created(table[s].version) <= table[s].stamp
      BY <2>1, <2>2, <3>1, <3>2 DEF Fits
    <3>4. table'[s].stamp <= Created(table[s].version)
      BY <2>4, <3>2, <3>3 DEF Fits
    <3>5. Created(table[s].version) \in Nat
      BY <2>1, <3>3, HistoryIs
    <3>6. QED
      BY <2>2, <2>4, <3>1, <3>3, <3>4, <3>5
  <2>5. QED
    BY <1>1, <2>3, <2>4, StepKeeps DEF Moves
<1>2. Inv /\ [Next]_vars
        => [\A s \in Stream : table[s] # NoRow /\ table'[s] # NoRow
                                => table'[s].version >= table[s].version]_vars
  BY <1>1
<1>3. QED
  BY InvHolds, <1>2, PTL DEF Spec, RowsOnlyAdvance
=============================================================================
