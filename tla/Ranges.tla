------------------------------- MODULE Ranges -------------------------------
(***************************************************************************)
(* The pure range algebra of the backfill: what packages/protocol          *)
(* (binary-subdivision.ts), packages/source-stripe (src-list-api.ts) and   *)
(* apps/engine (progress/ranges.ts) compute on half-open ranges of         *)
(* `created' seconds.                                                      *)
(*                                                                         *)
(* Times are Unix seconds: the code keeps ISO strings and converts them    *)
(* with toUnixSeconds / toIso before every computation, and all its string *)
(* comparisons are between strings of that one format, so they order as    *)
(* the numbers do.                                                         *)
(*                                                                         *)
(* A pagination cursor is the id of the last object of a page.  Objects    *)
(* are named by their position in the newest-first list, so a cursor is    *)
(* that position; NoCursor (JavaScript null) is 0.                         *)
(***************************************************************************)
EXTENDS Naturals, Sequences, FiniteSets

NoCursor == 0

\* An interval { gte, lt }: gte inclusive, lt exclusive.
Interval == [gte : Nat, lt : Nat]

\* A range of the work-queue and of the persisted `remaining' list.
Range3 == [gte : Nat, lt : Nat, cursor : Nat]

Fresh(gte, lt) == [gte |-> gte, lt |-> lt, cursor |-> NoCursor]

Smaller(a, b) == IF a < b THEN a ELSE b
Larger(a, b)  == IF a > b THEN a ELSE b

InInterval(second, interval) == interval.gte <= second /\ second < interval.lt

-----------------------------------------------------------------------------
(***************************************************************************)
(* Subdivision of a range of which one page has been fetched.  newEnd is   *)
(* the created second of the oldest object of that page, n the subdivision *)
(* factor.                                                                 *)
(***************************************************************************)

MinSegmentSeconds == 30

SegmentCount(range, newEnd, n) == Smaller(n, newEnd - range.gte)

SegmentDuration(range, newEnd, n) ==
  (newEnd - range.gte) \div SegmentCount(range, newEnd, n)

\* FALSE: the range passes through unchanged and its cursor paginates it.
Splits(range, newEnd, n) ==
  /\ range.cursor # NoCursor
  /\ newEnd > range.gte
  /\ SegmentDuration(range, newEnd, n) >= MinSegmentSeconds

\* Faulty forms of Segment, for the mutation runs: without the boundary
\* second, and without the inherited cursor.
SegmentWithoutBoundary(range, newEnd, n, i) ==
  LET d      == SegmentDuration(range, newEnd, n)
      segGte == range.gte + d * (i - 1)
  IN  IF i = SegmentCount(range, newEnd, n)
      THEN [gte |-> segGte, lt |-> newEnd, cursor |-> range.cursor]
      ELSE Fresh(segGte, Smaller(newEnd, segGte + d))
SegmentWithoutCursor(range, newEnd, n, i) ==
  LET d      == SegmentDuration(range, newEnd, n)
      segGte == range.gte + d * (i - 1)
  IN  IF i = SegmentCount(range, newEnd, n)
      THEN Fresh(segGte, newEnd + 1)
      ELSE Fresh(segGte, Smaller(newEnd, segGte + d))

\* The i-th child.  The newest one reaches one second past newEnd and keeps
\* the cursor, for the objects of that second the page did not hold.
Segment(range, newEnd, n, i) ==
  LET d      == SegmentDuration(range, newEnd, n)
      segGte == range.gte + d * (i - 1)
  IN  IF i = SegmentCount(range, newEnd, n)
      THEN [gte |-> segGte, lt |-> newEnd + 1, cursor |-> range.cursor]
      ELSE Fresh(segGte, Smaller(newEnd, segGte + d))

Children(range, newEnd, n) ==
  [i \in 1 .. SegmentCount(range, newEnd, n) |-> Segment(range, newEnd, n, i)]

\* subdivideRanges on one range, as a list of range values.
SubdivideRange(range, newEnd, n) ==
  IF Splits(range, newEnd, n) THEN Children(range, newEnd, n) ELSE <<range>>

-----------------------------------------------------------------------------
(***************************************************************************)
(* Reconciliation of the persisted ranges with a changed time_range.       *)
(***************************************************************************)

\* Faulty form of Overlaps: drops the ranges that overlap only partially.
Contained(range, incoming) ==
  range.gte >= incoming.gte /\ range.lt <= incoming.lt

Overlaps(range, incoming) ==
  range.lt > incoming.gte /\ range.gte < incoming.lt

\* Trimming below loses the cursor, trimming above keeps it.
Trim(range, incoming) ==
  [gte    |-> Larger(range.gte, incoming.gte),
   lt     |-> Smaller(range.lt, incoming.lt),
   cursor |-> IF range.gte < incoming.gte THEN NoCursor ELSE range.cursor]

UncoveredBelow(accounted, incoming) ==
  IF incoming.gte < accounted.gte
  THEN {Fresh(incoming.gte, accounted.gte)} ELSE {}

UncoveredAbove(accounted, incoming) ==
  IF incoming.lt > accounted.lt
  THEN {Fresh(accounted.lt, incoming.lt)} ELSE {}

\* The order of the list decides only which page is fetched first, so the
\* persisted ranges are a set here.
ReconcileRanges(remaining, accounted, incoming) ==
       {Trim(r, incoming) : r \in {q \in remaining : Overlaps(q, incoming)}}
  \cup UncoveredBelow(accounted, incoming)
  \cup UncoveredAbove(accounted, incoming)

-----------------------------------------------------------------------------
(***************************************************************************)
(* The progress bar's set of completed ranges: overlapping or adjacent     *)
(* intervals are fused.  The code sorts by gte and folds; the result is    *)
(* the set of maximal runs of intervals in which each one starts no later  *)
(* than the furthest end seen before it.                                   *)
(***************************************************************************)

\* s starts a run: every interval that sorts before it ends before it starts.
StartsRun(s, intervals) ==
  \A q \in intervals : q.gte < s => q.lt < s

MergeRanges(intervals) ==
  LET starts == {s \in {q.gte : q \in intervals} : StartsRun(s, intervals)}
      run(s) == {q \in intervals :
                   q.gte >= s /\ \A t \in starts : t <= q.gte => t <= s}
      ends(s) == {e \in {q.lt : q \in run(s)} : \A q \in run(s) : q.lt <= e}
  IN  UNION {{[gte |-> s, lt |-> e] : e \in ends(s)} : s \in starts}

=============================================================================
