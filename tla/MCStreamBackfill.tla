-------------------------- MODULE MCStreamBackfill --------------------------
(* Instances of StreamBackfill for TLC: small streams on ranges of some    *)
(* two hundred seconds, so that MinSegmentSeconds decides as it does in    *)
(* production: some ranges split, some pass through, some are exhausted by *)
(* their first page.                                                       *)
EXTENDS StreamBackfill

\* Two objects in one second at a page boundary, and older ones far enough
\* apart for a split.
TwoInOneSecond == <<190, 190, 100, 20>>

\* Two objects in one second, and objects on both sides of a floor and a
\* ceiling that move.
Straddling == <<190, 190, 145, 20>>

OneRange == {[gte |-> 0, lt |-> 200]}

\* A new run may shrink the range or grow it again, on both sides.
MovingRanges == {[gte |-> 50, lt |-> 150], [gte |-> 0, lt |-> 200]}

ASSUME MeetAssumption == TimeRangesMeet
=============================================================================
