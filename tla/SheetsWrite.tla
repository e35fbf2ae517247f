---------------------------- MODULE SheetsWrite ----------------------------
(***************************************************************************)
(* The Google Sheets destination's write() for one stream, one tab.        *)
(*                                                                         *)
(* A request buffers what the source sends: upserts, deduplicated by key,  *)
(* deletes, and states held back until the end.  When the source is done   *)
(* flushAll reads the tab (the refresh), plans updates, appends and moves  *)
(* from what it read, and sends them as one batchUpdate; only then are the *)
(* states passed on.  Every call can fail or be answered too late, and a   *)
(* hard limit abandons a request without stopping the flush it is in the   *)
(* middle of.                                                              *)
(*                                                                         *)
(* A row is a key with the version of the object it shows; the other       *)
(* columns, the layout of a cell and the quota of cells are abstracted, a  *)
(* refused batch being one of the ways Apply fails.  The source delivers   *)
(* every version of every object any number of times, in any order.        *)
(***************************************************************************)
EXTENDS Integers, FiniteSets, SequencesExt

CONSTANTS
    Key,            \* the objects of the stream, by primary key
    MaxVersion,     \* bound: changes to one object
    MaxBatch,       \* bound: records in one request
    MaxRequests     \* bound: write() calls

ASSUME SheetsAssumption ==
    /\ IsFiniteSet(Key)
    /\ {MaxVersion, MaxBatch, MaxRequests} \subseteq Nat \ {0}

VARIABLES
    gone,       \* the objects a delete was delivered for, so far
    sheet,      \* the tab, row 1 first, without trailing blank rows
    reading,    \* the current request is still consuming the source
    batch,      \* what it has buffered
    flushes,    \* the flush of the current request, and an abandoned one
    accounted,  \* the newest version of each object that a passed-on state covers
    clean,      \* no flush so far went unread or met an abandoned one
    requests

destination == <<gone, sheet, reading, batch, flushes, accounted, clean, requests>>

Versions == 1 .. MaxVersion
Row      == [key : Key, version : Versions]
Header   == [key |-> "header", version |-> 0]
Blank    == [key |-> "blank", version |-> 0]
IsData(row) == row.version > 0

-----------------------------------------------------------------------------
(* The tab and what the API does with it.                                  *)

\* values.get omits trailing blank rows
LastRow(s) ==
    LET used == {i \in DOMAIN s : s[i] # Blank}
    IN  IF used = {} THEN 0 ELSE Max(used)

Trimmed(s) == SubSeq(s, 1, LastRow(s))

\* a function, and another one where it says nothing
Over(f, g) == [x \in DOMAIN f \cup DOMAIN g |-> IF x \in DOMAIN f THEN f[x] ELSE g[x]]

\* one batchUpdate: the updates, then the appended block over whatever is there
Cells(plan) ==
    Over([i \in plan.start .. plan.start + Len(plan.appends) - 1 |->
              plan.appends[i - plan.start + 1]], plan.updates)

Overwritten(s, cells) ==
    [i \in 1 .. Max(DOMAIN cells \cup {Len(s)}) |->
        IF i \in DOMAIN cells THEN cells[i] ELSE IF i <= Len(s) THEN s[i] ELSE Blank]

Paste(s, plan) == Trimmed(Overwritten(s, Cells(plan)))

RowsOf(s, k) == {i \in 2 .. Len(s) : IsData(s[i]) /\ s[i].key = k}

-----------------------------------------------------------------------------
(* The batch of a request.                                                 *)

EmptyBatch == [appends |-> <<>>, deletes |-> {}]

Pending(b, k) == {i \in DOMAIN b.appends : b.appends[i].key = k}

\* a record of a key already buffered replaces it only if it is strictly newer
Upserted(b, row) ==
    IF Pending(b, row.key) = {}
    THEN [b EXCEPT !.appends = Append(@, row)]
    ELSE [b EXCEPT !.appends = [i \in DOMAIN @ |->
            IF @[i].key = row.key /\ row.version > @[i].version THEN row ELSE @[i]]]

\* what the request asks to be there once its states are passed on
Covers(b) ==
    [k \in Key |-> IF Pending(b, k) = {} THEN 0
                   ELSE b.appends[CHOOSE i \in Pending(b, k) : TRUE].version]

-----------------------------------------------------------------------------
(* The plan flushAll makes of a batch and the rows it read.                *)

\* the last row of a key wins in the row map
RowMap(read, k) == Max(RowsOf(read, k))
OnSheet(read, k) == RowsOf(read, k) # {}

\* Mutant: an update is not compared with the row it replaces.
ConvertedStale(read, b) ==
    LET known == {i \in DOMAIN b.appends : OnSheet(read, b.appends[i].key)}
        target(i) == RowMap(read, b.appends[i].key)
    IN  [r \in {target(i) : i \in known} |->
            b.appends[CHOOSE i \in known : target(i) = r]]

Converted(read, b) ==
    LET newer == {i \in DOMAIN b.appends :
                      /\ OnSheet(read, b.appends[i].key)
                      /\ b.appends[i].version > read[RowMap(read, b.appends[i].key)].version}
        target(i) == RowMap(read, b.appends[i].key)
    IN  [r \in {target(i) : i \in newer} |->
            b.appends[CHOOSE i \in newer : target(i) = r]]

\* a number's place in a set of them, and the number at a place
Rank(n, S)  == Cardinality({m \in S : m <= n})
Nth(S, rank) == CHOOSE n \in S : Rank(n, S) = rank

\* new keys; one deleted in the same batch cancels out
New(read, b) == {i \in DOMAIN b.appends : /\ ~OnSheet(read, b.appends[i].key)
                                          /\ b.appends[i].key \notin b.deletes}
Remaining(read, b) ==
    [rank \in 1 .. Cardinality(New(read, b)) |-> b.appends[Nth(New(read, b), rank)]]

DeletedRows(read, b) == {RowMap(read, k) : k \in {d \in b.deletes : OnSheet(read, d)}}

Filled(read, holes, donors) == [r \in holes |-> read[Nth(donors, Rank(r, holes))]]

\* Mutant: a deleted row of the tail may be taken for a survivor.
MovedFromAny(read, holes, deleted) ==
    LET tail == Len(read) - Cardinality(holes) + 1 .. Len(read)
    IN  Over([r \in tail |-> Blank], Filled(read, holes \ tail, tail))

\* rows taken from the bottom of the tab fill the holes left by deletes
Moved(read, holes, deleted) ==
    LET tail == Len(read) - Cardinality(holes) + 1 .. Len(read)
    IN  Over([r \in tail |-> Blank], Filled(read, holes \ tail, tail \ deleted))

\* Mutant: a delete does not clear a row that the batch also updates.
PlannedUpdatesLast(read, b) ==
    [updates |-> Over(Converted(read, b), Moved(read, DeletedRows(read, b), DeletedRows(read, b))),
     appends |-> Remaining(read, b),
     start   |-> Len(read) + 1]

\* new keys go first into the deleted rows, the rest to the bottom
Planned(read, b) ==
    LET deleted == DeletedRows(read, b)
        new     == Remaining(read, b)
        slots   == {r \in deleted : Rank(r, deleted) <= Len(new)}
        donated == [r \in slots |-> new[Rank(r, deleted)]]
    IN  [updates |-> Over(Moved(read, deleted \ slots, deleted), Over(donated, Converted(read, b))),
         appends |-> SubSeq(new, Cardinality(deleted) + 1, Len(new)),
         start   |-> Len(read) + 1]

\* the refresh failed: no deduplication, and deletes resolve to no row; the
\* rows are counted by a probe of the first column when there is one to append
PlannedUnread(b, count) == [updates |-> <<>>, appends |-> b.appends, start |-> count + 1]

-----------------------------------------------------------------------------
NoFlush == [at |-> "none"]
Slot    == {"current", "abandoned"}

Flushing(s) == flushes[s].at # "none"
Idle == ~reading /\ ~Flushing("current")

WriteInit ==
    /\ gone = {}
    /\ sheet = <<Header>>
    /\ reading = FALSE /\ batch = EmptyBatch
    /\ flushes = [s \in Slot |-> NoFlush]
    /\ accounted = [k \in Key |-> 0]
    /\ clean = TRUE
    /\ requests = 0

\* a write() call.  What one does on a tab that lost its header is left out.
Start ==
    /\ Idle /\ requests < MaxRequests /\ sheet[1] = Header
    /\ requests' = requests + 1
    /\ reading' = TRUE /\ batch' = EmptyBatch
    /\ UNCHANGED <<gone, sheet, flushes, accounted, clean>>

Buffer(b) ==
    /\ reading /\ Len(batch.appends) + Cardinality(batch.deletes) < MaxBatch
    /\ b # batch
    /\ batch' = b
    /\ UNCHANGED <<sheet, reading, flushes, accounted, clean, requests>>

Upsert ==
    \E row \in Row : Buffer(Upserted(batch, row)) /\ UNCHANGED gone

DeleteRecord ==
    \E k \in Key : /\ Buffer([batch EXCEPT !.deletes = @ \cup {k}])
                   /\ gone' = gone \cup {k}

\* a record the tab's rules reject: the batch is dropped, no state goes out
Reject ==
    /\ reading /\ reading' = FALSE /\ batch' = EmptyBatch
    /\ UNCHANGED <<gone, sheet, flushes, accounted, clean, requests>>

\* the source is done: flushAll begins, the tab is about to be read
Drained ==
    /\ reading /\ reading' = FALSE /\ batch' = EmptyBatch
    /\ flushes' = [flushes EXCEPT !["current"] = [at |-> "refresh", batch |-> batch]]
    /\ clean' = (clean /\ ~Flushing("abandoned"))
    /\ UNCHANGED <<gone, sheet, accounted, requests>>

Refresh(s) ==
    LET b == flushes[s].batch
    IN  /\ flushes[s].at = "refresh" /\ b # EmptyBatch
        /\ flushes' = [flushes EXCEPT ![s] =
              [at |-> "apply", batch |-> b, plan |-> Planned(sheet, b)]]
        /\ UNCHANGED <<gone, sheet, reading, batch, accounted, clean, requests>>

\* the refresh failed, and the probe that counts the rows may fail as well
RefreshFails(s) ==
    LET b == flushes[s].batch
    IN  /\ flushes[s].at = "refresh" /\ b # EmptyBatch
        /\ \E count \in {0, Len(sheet)} :
              flushes' = [flushes EXCEPT ![s] =
                  [at |-> "apply", batch |-> b, plan |-> PlannedUnread(b, count)]]
        /\ clean' = FALSE
        /\ UNCHANGED <<gone, sheet, reading, batch, accounted, requests>>

\* the flush is over; only the current request's states are still wanted
Finish(s) ==
    /\ flushes' = [flushes EXCEPT ![s] = NoFlush]
    /\ accounted' = IF s = "abandoned" THEN accounted
                    ELSE [k \in Key |-> Max({accounted[k], Covers(flushes[s].batch)[k]})]

NothingToFlush(s) ==
    /\ flushes[s].at = "refresh" /\ flushes[s].batch = EmptyBatch
    /\ Finish(s)
    /\ UNCHANGED <<gone, sheet, reading, batch, clean, requests>>

Apply(s) ==
    /\ flushes[s].at = "apply"
    /\ sheet' = Paste(sheet, flushes[s].plan)
    /\ Finish(s)
    /\ UNCHANGED <<gone, reading, batch, clean, requests>>

\* applied, but the answer was an error of the server: withRetry sends it again
ApplyRetried(s) ==
    /\ flushes[s].at = "apply"
    /\ sheet' = Paste(sheet, flushes[s].plan)
    /\ UNCHANGED <<gone, reading, batch, flushes, accounted, clean, requests>>

\* refused, or out of retries: no state is passed on
ApplyFails(s) ==
    /\ flushes[s].at = "apply"
    /\ flushes' = [flushes EXCEPT ![s] = NoFlush]
    /\ UNCHANGED <<gone, sheet, reading, batch, accounted, clean, requests>>

\* the hard limit returns the generator: a batch still being read is dropped,
\* a flush that has begun goes on by itself
HardLimit ==
    /\ ~Idle /\ reading' = FALSE /\ batch' = EmptyBatch
    /\ IF Flushing("current")
       THEN /\ ~Flushing("abandoned")
            /\ flushes' = [s \in Slot |-> IF s = "current" THEN NoFlush ELSE flushes["current"]]
       ELSE UNCHANGED flushes
    /\ UNCHANGED <<gone, sheet, accounted, clean, requests>>

Crash ==
    /\ flushes' = [s \in Slot |-> NoFlush] /\ flushes' # flushes
    /\ reading' = FALSE /\ batch' = EmptyBatch
    /\ UNCHANGED <<gone, sheet, accounted, clean, requests>>

WriteNext ==
    \/ Start \/ Upsert \/ DeleteRecord \/ Reject \/ Drained
    \/ \E s \in Slot :
          \/ Refresh(s) \/ RefreshFails(s) \/ NothingToFlush(s)
          \/ Apply(s) \/ ApplyRetried(s) \/ ApplyFails(s)
    \/ HardLimit \/ Crash

WriteSpec == WriteInit /\ [][WriteNext]_destination

-----------------------------------------------------------------------------
(* Correctness.                                                            *)

Batch == [appends : BoundedSeq(Row, MaxBatch), deletes : SUBSET Key]

PlanOK(plan) ==
    /\ DOMAIN plan.updates \subseteq Nat \ {0, 1}
    /\ \A r \in DOMAIN plan.updates : plan.updates[r] \in Row \cup {Blank}
    /\ plan.appends \in BoundedSeq(Row, MaxBatch)
    /\ plan.start \in Nat \ {0}

\* The state is well typed: in particular every flush that is about to be
\* applied writes only below the header row it read, one cell per row.
WriteTyped ==
    /\ gone \subseteq Key
    /\ \A i \in DOMAIN sheet : sheet[i] \in Row \cup {Header, Blank}
    /\ reading \in BOOLEAN /\ clean \in BOOLEAN
    /\ batch \in Batch
    /\ \A s \in Slot : \/ flushes[s] = NoFlush
                       \/ flushes[s].batch \in Batch /\ flushes[s].at = "refresh"
                       \/ flushes[s].batch \in Batch /\ flushes[s].at = "apply" /\ PlanOK(flushes[s].plan)
    /\ accounted \in [Key -> 0 .. MaxVersion]
    /\ requests \in 0 .. MaxRequests

\* However records are redelivered, retried, deleted and moved, an object never
\* has two rows, as long as every flush read the tab and none ran beside an
\* abandoned one (flushAll's row map against batchUpdate's retries and moves).
OneRowPerKey == clean => \A k \in Key : Cardinality(RowsOf(sheet, k)) <= 1

\* Under the same condition the tab stays one gap-free block under its header:
\* filling deleted rows from the new keys and from the bottom of the tab never
\* leaves a hole, and no block of appended rows starts beyond or inside it.
Compact == clean => sheet[1] = Header /\ \A i \in 2 .. Len(sheet) : IsData(sheet[i])

\* Under the same condition an object covered by a state that was passed on is
\* on the tab until it is deleted in Stripe: no move, no donated slot and no
\* late batchUpdate loses its row.
RowsKept ==
    clean => \A k \in Key \ gone : accounted[k] > 0 => OnSheet(sheet, k)

\* What the comment on bufferedStates says, "checkpoints only advance once
\* records are durable": the row shows at least the version the state covers.
\* It does not hold: a row moved into a hole is copied as it was read, before
\* the updates of the same batch.
DurableRecords ==
    clean => \A k \in Key \ gone :
                accounted[k] > 0 => \E i \in RowsOf(sheet, k) : sheet[i].version >= accounted[k]

\* Under the same condition no step replaces the row of an object by an older
\* version of it, in whatever order its versions are delivered.
RowsNeverRegress ==
    [][clean' => \A k \in Key : \A i \in RowsOf(sheet, k) : \A j \in RowsOf(sheet', k) :
                    sheet'[j].version >= sheet[i].version]_destination

\* Under the same condition a batchUpdate removes every object its batch
\* deletes, also when the same batch updates, re-adds or moves it.
DeletesReachSheet ==
    [][\A s \in Slot :
          clean /\ flushes[s].at = "apply" /\ sheet' # sheet
             => \A k \in flushes[s].batch.deletes : ~OnSheet(sheet', k)]_destination

\* The tab as a table: one block under its header, one row for each object, none
\* missing, whatever batches, retries and abandoned flushes came before.
TabSound == WriteTyped /\ OneRowPerKey /\ Compact /\ RowsKept
=============================================================================
