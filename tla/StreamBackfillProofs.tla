------------------------ MODULE StreamBackfillProofs ------------------------
(***************************************************************************)
(* Proofs about StreamBackfill, for every stream, page size, concurrency,  *)
(* subdivision factor, backfill_limit and set of time ranges.  The facts   *)
(* about the range algebra of Ranges, for every range, page and            *)
(* subdivision factor, come first.                                         *)
(***************************************************************************)
EXTENDS StreamBackfill, FiniteSetTheorems, SequenceTheorems, WellFoundedInduction, TLAPS

\* A quotient times its divisor falls short by less than the divisor.
LEMMA DivisionBounds ==
  ASSUME NEW a \in Nat, NEW b \in Nat \ {0}
  PROVE  /\ a \div b \in Nat
         /\ b * (a \div b) <= a
         /\ a < b * (a \div b) + b
  OBVIOUS

\* A range that ends past its gte has at least one segment.
LEMMA SegmentCountType ==
  ASSUME NEW range \in Range3, NEW newEnd \in Nat, NEW n \in Nat \ {0},
         newEnd > range.gte
  PROVE  /\ SegmentCount(range, newEnd, n) \in Nat \ {0}
         /\ newEnd - range.gte \in Nat
         /\ SegmentDuration(range, newEnd, n) \in Nat
<1>1. /\ SegmentCount(range, newEnd, n) \in Nat \ {0}
      /\ newEnd - range.gte \in Nat
  BY DEF SegmentCount, Smaller, Range3
<1>2. QED
  BY <1>1, DivisionBounds DEF SegmentDuration

\* Every child of a split is a range.
LEMMA SegmentType ==
  ASSUME NEW range \in Range3, NEW newEnd \in Nat, NEW n \in Nat \ {0},
         newEnd > range.gte,
         NEW i \in 1 .. SegmentCount(range, newEnd, n)
  PROVE  Segment(range, newEnd, n, i) \in Range3
<1> DEFINE d == SegmentDuration(range, newEnd, n)
<1>1. d \in Nat /\ i - 1 \in Nat
  BY SegmentCountType
<1>2. range.gte + d * (i - 1) \in Nat
  <2> HIDE DEF d
  <2>1. d * (i - 1) \in Nat
    BY <1>1
  <2>2. QED
    BY <2>1 DEF Range3
<1>3. range.cursor \in Nat /\ NoCursor \in Nat
  BY DEF Range3, NoCursor
<1>4. QED
  BY <1>1, <1>2, <1>3 DEF Segment, Fresh, Smaller, Range3

\* The children of a split are a sequence of ranges.
LEMMA ChildrenType ==
  ASSUME NEW range \in Range3, NEW newEnd \in Nat, NEW n \in Nat \ {0},
         Splits(range, newEnd, n)
  PROVE  /\ Children(range, newEnd, n) \in Seq(Range3)
         /\ Len(Children(range, newEnd, n)) = SegmentCount(range, newEnd, n)
<1>1. newEnd > range.gte
  BY DEF Splits
<1>2. \A i \in 1 .. SegmentCount(range, newEnd, n) :
        Segment(range, newEnd, n, i) \in Range3
  BY <1>1, SegmentType
<1>3. SegmentCount(range, newEnd, n) \in Nat
  BY <1>1, SegmentCountType
<1>4. QED
  BY <1>2, <1>3 DEF Children

\* Multiplication by a natural number is monotonic.
LEMMA TimesMonotonic ==
  ASSUME NEW d \in Nat, NEW a \in Nat, NEW b \in Nat, a <= b
  PROVE  /\ d * a \in Nat
         /\ d * b \in Nat
         /\ d * a <= d * b
  OBVIOUS

(***************************************************************************)
(* The children of a split range cover every second from its gte up to and *)
(* including the boundary second newEnd: the rounding of the segment       *)
(* length leaves no gap, because the newest child takes what is left over. *)
(***************************************************************************)
THEOREM SegmentsCover ==
  ASSUME NEW range \in Range3, NEW newEnd \in Nat, NEW n \in Nat \ {0},
         Splits(range, newEnd, n),
         NEW s \in Nat, range.gte <= s, s <= newEnd
  PROVE  \E k \in 1 .. SegmentCount(range, newEnd, n) :
           InInterval(s, Segment(range, newEnd, n, k))
<1> DEFINE c == SegmentCount(range, newEnd, n)
           d == SegmentDuration(range, newEnd, n)
           len == newEnd - range.gte
           q == (s - range.gte) \div d
<1>1. /\ range.gte \in Nat /\ newEnd > range.gte
      /\ c \in Nat \ {0} /\ d \in Nat \ {0} /\ len \in Nat
  <2>1. range.gte \in Nat /\ newEnd > range.gte
    BY DEF Range3, Splits
  <2>2. c \in Nat \ {0} /\ len \in Nat /\ d \in Nat
    BY <2>1, SegmentCountType
  <2>3. d >= 30
    BY DEF Splits, MinSegmentSeconds
  <2>4. QED
    BY <2>1, <2>2, <2>3
<1>2. c * d <= len
  <2>1. d = len \div c
    BY DEF SegmentDuration
  <2> HIDE DEF c, d, len
  <2>2. QED
    BY <1>1, <2>1, DivisionBounds
<1>3. /\ q \in Nat
      /\ d * q <= s - range.gte
      /\ s - range.gte < d * q + d
  <2>1. s - range.gte \in Nat
    BY <1>1
  <2> HIDE DEF d
  <2>2. QED
    BY <1>1, <2>1, DivisionBounds
<1>4. CASE q + 1 < c
  <2>1. /\ d * (q + 1) = d * q + d
        /\ d * (q + 1) <= d * c
        /\ d * q \in Nat
    <3> HIDE DEF c, d, q
    <3>1. d * (q + 1) <= d * c /\ d * q \in Nat
      BY <1>1, <1>3, <1>4, TimesMonotonic
    <3>2. d * (q + 1) = d * q + d
      BY <1>1, <1>3
    <3>3. QED
      BY <3>1, <3>2
  <2>2. d * c = c * d
    BY <1>1
  <2>3. range.gte + d * q + d <= newEnd
    <3> HIDE DEF c, d, q
    <3>1. QED
      BY <1>1, <1>2, <2>1, <2>2
  <2>4. Segment(range, newEnd, n, q + 1) =
          Fresh(range.gte + d * q, Smaller(newEnd, range.gte + d * q + d))
    <3>1. q + 1 # c /\ (q + 1) - 1 = q
      BY <1>3, <1>4
    <3>2. QED
      BY <3>1, Zenon DEF Segment
  <2>5. InInterval(s, Segment(range, newEnd, n, q + 1))
    <3> HIDE DEF c, d, q
    <3>1. range.gte + d * q <= s /\ s < range.gte + d * q + d
      BY <1>1, <1>3, <2>1
    <3>2. Smaller(newEnd, range.gte + d * q + d) >= range.gte + d * q + d
      BY <1>1, <2>1, <2>3 DEF Smaller
    <3>3. Smaller(newEnd, range.gte + d * q + d) \in Nat
      BY <1>1, <2>1 DEF Smaller
    <3>4. s < Smaller(newEnd, range.gte + d * q + d)
      BY <1>1, <2>1, <3>1, <3>2, <3>3
    <3>5. QED
      BY <2>4, <3>1, <3>4 DEF InInterval, Fresh
  <2>6. q + 1 \in 1 .. c
    BY <1>1, <1>3, <1>4
  <2>7. QED
    BY <2>5, <2>6
<1>5. CASE ~(q + 1 < c)
  <2>1. d * (c - 1) <= d * q /\ d * (c - 1) \in Nat
    <3> HIDE DEF c, d, q
    <3>1. c - 1 \in Nat /\ c - 1 <= q
      BY <1>1, <1>3, <1>5
    <3>2. QED
      BY <1>1, <1>3, <3>1, TimesMonotonic
  <2>2. Segment(range, newEnd, n, c) =
          [gte |-> range.gte + d * (c - 1), lt |-> newEnd + 1,
           cursor |-> range.cursor]
    BY Zenon DEF Segment
  <2>3. InInterval(s, Segment(range, newEnd, n, c))
    <3> HIDE DEF c, d, q
    <3>1. range.gte + d * (c - 1) <= s
      BY <1>1, <1>3, <2>1
    <3>2. QED
      BY <2>2, <3>1 DEF InInterval
  <2>4. c \in 1 .. c
    BY <1>1
  <2>5. QED
    BY <2>3, <2>4
<1>6. QED
  BY <1>4, <1>5

\* A child either starts afresh or inherits the cursor of its parent.
LEMMA SegmentCursor ==
  ASSUME NEW range, NEW newEnd, NEW n, NEW k
  PROVE  Segment(range, newEnd, n, k).cursor \in {NoCursor, range.cursor}
  BY DEF Segment, Fresh

\* Reconciled ranges are ranges, and finitely many.
LEMMA ReconcileType ==
  ASSUME NEW remaining \in SUBSET Range3, NEW accounted \in Interval,
         NEW incoming \in Interval
  PROVE  ReconcileRanges(remaining, accounted, incoming) \in SUBSET Range3
<1>1. \A r \in Range3 : Trim(r, incoming) \in Range3
  BY DEF Trim, Larger, Smaller, NoCursor, Range3, Interval
<1>2. UncoveredBelow(accounted, incoming) \in SUBSET Range3
  BY DEF UncoveredBelow, Fresh, NoCursor, Range3, Interval
<1>3. UncoveredAbove(accounted, incoming) \in SUBSET Range3
  BY DEF UncoveredAbove, Fresh, NoCursor, Range3, Interval
<1>4. QED
  BY <1>1, <1>2, <1>3 DEF ReconcileRanges

\* Finitely many persisted ranges reconcile to finitely many.
LEMMA ReconcileFinite ==
  ASSUME NEW remaining, IsFiniteSet(remaining), NEW accounted, NEW incoming
  PROVE  IsFiniteSet(ReconcileRanges(remaining, accounted, incoming))
<1> DEFINE kept == {q \in remaining : Overlaps(q, incoming)}
           trimmed == {Trim(r, incoming) : r \in kept}
           f == [r \in kept |-> Trim(r, incoming)]
<1>1. IsFiniteSet(kept)
  BY FS_Subset
<1>2. f \in Surjection(kept, trimmed)
  BY DEF Surjection
<1>3. IsFiniteSet(trimmed)
  BY <1>1, <1>2, FS_Surjection
<1>4. /\ IsFiniteSet(UncoveredBelow(accounted, incoming))
      /\ IsFiniteSet(UncoveredAbove(accounted, incoming))
  BY FS_Singleton, FS_EmptySet DEF UncoveredBelow, UncoveredAbove
<1>5. IsFiniteSet(trimmed \cup UncoveredBelow(accounted, incoming))
  BY <1>3, <1>4, FS_Union
<1>6. IsFiniteSet((trimmed \cup UncoveredBelow(accounted, incoming))
                    \cup UncoveredAbove(accounted, incoming))
  BY <1>4, <1>5, FS_Union
<1>7. QED
  BY <1>6 DEF ReconcileRanges

(***************************************************************************)
(* reconcileRanges keeps what is open: a second of the new time_range that *)
(* a persisted range stands for is in a reconciled range whose cursor is   *)
(* the old one or none, so nothing past the old cursor is skipped.         *)
(***************************************************************************)
THEOREM ReconcileKeepsOpen ==
  ASSUME NEW remaining \in SUBSET Range3, NEW accounted \in Interval,
         NEW incoming \in Interval,
         NEW r \in remaining, NEW s \in Nat,
         InInterval(s, r), InInterval(s, incoming)
  PROVE  \E t \in ReconcileRanges(remaining, accounted, incoming) :
           InInterval(s, t) /\ t.cursor \in {NoCursor, r.cursor}
<1>1. r \in Range3
  OBVIOUS
<1>2. Overlaps(r, incoming)
  BY <1>1 DEF Overlaps, InInterval, Range3, Interval
<1>3. InInterval(s, Trim(r, incoming))
  BY <1>1 DEF Trim, InInterval, Larger, Smaller, Range3, Interval
<1>4. Trim(r, incoming).cursor \in {NoCursor, r.cursor}
  BY DEF Trim
<1>5. Trim(r, incoming) \in ReconcileRanges(remaining, accounted, incoming)
  BY <1>2 DEF ReconcileRanges
<1>6. QED
  BY <1>3, <1>4, <1>5

(***************************************************************************)
(* reconcileRanges adds what was never accounted for: a second of the new  *)
(* time_range outside the accounted one is in a fresh range.               *)
(***************************************************************************)
THEOREM ReconcileAddsUncovered ==
  ASSUME NEW remaining \in SUBSET Range3, NEW accounted \in Interval,
         NEW incoming \in Interval,
         NEW s \in Nat, ~InInterval(s, accounted), InInterval(s, incoming)
  PROVE  \E t \in ReconcileRanges(remaining, accounted, incoming) :
           InInterval(s, t) /\ t.cursor = NoCursor
<1>1. CASE s < accounted.gte
  <2>1. incoming.gte < accounted.gte
    BY <1>1 DEF InInterval, Interval
  <2>2. Fresh(incoming.gte, accounted.gte) \in
          ReconcileRanges(remaining, accounted, incoming)
    BY <2>1 DEF ReconcileRanges, UncoveredBelow
  <2>3. QED
    BY <1>1, <2>2 DEF InInterval, Fresh
<1>2. CASE ~(s < accounted.gte)
  <2>1. accounted.lt <= s /\ incoming.lt > accounted.lt
    BY <1>2 DEF InInterval, Interval
  <2>2. Fresh(accounted.lt, incoming.lt) \in
          ReconcileRanges(remaining, accounted, incoming)
    BY <2>1 DEF ReconcileRanges, UncoveredAbove
  <2>3. QED
    BY <2>1, <2>2 DEF InInterval, Fresh
<1>3. QED
  BY <1>1, <1>2

\* What a child of a split stands for lies within its parent: not past the
\* boundary second, which only the child that keeps the cursor contains.
LEMMA SegmentInside ==
  ASSUME NEW range \in Range3, NEW newEnd \in Nat, NEW n \in Nat \ {0},
         Splits(range, newEnd, n),
         NEW k \in 1 .. SegmentCount(range, newEnd, n),
         NEW s \in Nat, InInterval(s, Segment(range, newEnd, n, k))
  PROVE  /\ range.gte <= s
         /\ \/ s < newEnd
            \/ s = newEnd /\ Segment(range, newEnd, n, k).cursor = range.cursor
<1> DEFINE c == SegmentCount(range, newEnd, n)
           d == SegmentDuration(range, newEnd, n)
<1>1. /\ range.gte \in Nat
      /\ c \in Nat \ {0} /\ d \in Nat /\ k - 1 \in Nat
  <2>1. range.gte \in Nat /\ newEnd > range.gte
    BY DEF Range3, Splits
  <2>2. QED
    BY <2>1, SegmentCountType
<1>2. d * (k - 1) \in Nat
  <2> HIDE DEF d
  <2>1. QED
    BY <1>1
<1>3. CASE k = c
  <2>1. Segment(range, newEnd, n, k) =
          [gte |-> range.gte + d * (k - 1), lt |-> newEnd + 1,
           cursor |-> range.cursor]
    BY <1>3, Zenon DEF Segment
  <2> HIDE DEF c, d
  <2>2. QED
    BY <1>1, <1>2, <2>1 DEF InInterval
<1>4. CASE k # c
  <2>1. Segment(range, newEnd, n, k) =
          Fresh(range.gte + d * (k - 1),
                Smaller(newEnd, range.gte + d * (k - 1) + d))
    BY <1>4, Zenon DEF Segment
  <2> HIDE DEF c, d
  <2>2. QED
    BY <1>1, <1>2, <2>1 DEF InInterval, Fresh, Smaller
<1>5. QED
  BY <1>3, <1>4

(***************************************************************************)
(* The children of a split are disjoint: no second, so no object, is       *)
(* fetched through two of them.                                            *)
(***************************************************************************)
THEOREM SegmentsDisjoint ==
  ASSUME NEW range \in Range3, NEW newEnd \in Nat, NEW n \in Nat \ {0},
         Splits(range, newEnd, n), NEW s \in Nat,
         NEW j \in 1 .. SegmentCount(range, newEnd, n),
         NEW k \in 1 .. SegmentCount(range, newEnd, n),
         InInterval(s, Segment(range, newEnd, n, j)),
         InInterval(s, Segment(range, newEnd, n, k))
  PROVE  j = k
<1> DEFINE c == SegmentCount(range, newEnd, n)
           d == SegmentDuration(range, newEnd, n)
<1>1. range.gte \in Nat /\ c \in Nat \ {0} /\ d \in Nat
  <2>1. range.gte \in Nat /\ newEnd > range.gte
    BY DEF Range3, Splits
  <2>2. QED
    BY <2>1, SegmentCountType
<1>2. ASSUME NEW i \in 1 .. c, NEW h \in 1 .. c, i < h,
             InInterval(s, Segment(range, newEnd, n, i))
      PROVE  ~InInterval(s, Segment(range, newEnd, n, h))
  <2>1. /\ i - 1 \in Nat /\ h - 1 \in Nat
        /\ i # c /\ i <= h - 1
    BY <1>1, <1>2
  <2>2. /\ d * (i - 1) \in Nat /\ d * (h - 1) \in Nat
        /\ d * (i - 1) + d <= d * (h - 1)
    <3> HIDE DEF c, d
    <3>1. d * i <= d * (h - 1) /\ d * (h - 1) \in Nat
      BY <1>1, <2>1, TimesMonotonic
    <3>2. d * i = d * (i - 1) + d /\ d * (i - 1) \in Nat
      BY <1>1, <2>1
    <3>3. QED
      BY <3>1, <3>2
  <2>3. Segment(range, newEnd, n, i) =
          Fresh(range.gte + d * (i - 1),
                Smaller(newEnd, range.gte + d * (i - 1) + d))
    BY <2>1, Zenon DEF Segment
  <2>4. Segment(range, newEnd, n, h).gte = range.gte + d * (h - 1)
    BY Zenon DEF Segment, Fresh
  <2>5. s < range.gte + d * (i - 1) + d
    <3> HIDE DEF c, d
    <3>1. s < Smaller(newEnd, range.gte + d * (i - 1) + d)
      BY <1>2, <2>3 DEF InInterval, Fresh
    <3>2. QED
      BY <1>1, <2>2, <3>1 DEF Smaller
  <2>6. QED
    <3> HIDE DEF c, d
    <3>1. s < range.gte + d * (h - 1)
      BY <1>1, <2>2, <2>5
    <3>2. QED
      BY <1>1, <2>2, <2>4, <3>1 DEF InInterval
<1>3. j \in Nat /\ k \in Nat
  BY <1>1
<1>4. QED
  BY <1>2, <1>3

\* Where a reconciled range comes from: a persisted one, of which it is a
\* part, or the seconds that were not accounted for.
LEMMA ReconcileOrigin ==
  ASSUME NEW remaining \in SUBSET Range3, NEW accounted \in Interval,
         NEW incoming \in Interval,
         NEW t \in ReconcileRanges(remaining, accounted, incoming)
  PROVE  \/ \E r \in remaining :
              /\ t = Trim(r, incoming)
              /\ t.cursor \in {NoCursor, r.cursor}
              /\ \A s \in Nat : InInterval(s, t) =>
                   InInterval(s, r) /\ InInterval(s, incoming)
         \/ /\ t \in UncoveredBelow(accounted, incoming)
            /\ t.cursor = NoCursor
            /\ \A s \in Nat : InInterval(s, t) =>
                 s < accounted.gte /\ incoming.gte <= s
         \/ /\ t \in UncoveredAbove(accounted, incoming)
            /\ t.cursor = NoCursor
            /\ \A s \in Nat : InInterval(s, t) =>
                 accounted.lt <= s /\ s < incoming.lt
<1>1. ASSUME NEW r \in remaining, t = Trim(r, incoming)
      PROVE  /\ t.cursor \in {NoCursor, r.cursor}
             /\ \A s \in Nat : InInterval(s, t) =>
                  InInterval(s, r) /\ InInterval(s, incoming)
  <2>1. r \in Range3
    OBVIOUS
  <2>2. t.cursor \in {NoCursor, r.cursor}
    BY <1>1 DEF Trim
  <2>3. ASSUME NEW s \in Nat, InInterval(s, t)
        PROVE  InInterval(s, r) /\ InInterval(s, incoming)
    BY <1>1, <2>1, <2>3
    DEF Trim, InInterval, Larger, Smaller, Range3, Interval
  <2>4. QED
    BY <2>2, <2>3
<1>2. ASSUME t \in UncoveredBelow(accounted, incoming)
      PROVE  /\ t.cursor = NoCursor
             /\ \A s \in Nat : InInterval(s, t) =>
                  s < accounted.gte /\ incoming.gte <= s
  BY <1>2 DEF UncoveredBelow, Fresh, InInterval
<1>3. ASSUME t \in UncoveredAbove(accounted, incoming)
      PROVE  /\ t.cursor = NoCursor
             /\ \A s \in Nat : InInterval(s, t) =>
                  accounted.lt <= s /\ s < incoming.lt
  BY <1>3 DEF UncoveredAbove, Fresh, InInterval
<1>4. \/ \E r \in remaining : t = Trim(r, incoming)
      \/ t \in UncoveredBelow(accounted, incoming)
      \/ t \in UncoveredAbove(accounted, incoming)
  BY DEF ReconcileRanges
<1>5. QED
  BY <1>1, <1>2, <1>3, <1>4

(***************************************************************************)
(* Two time ranges that meet leave no second of a reconciled range outside *)
(* the new time_range.                                                     *)
(***************************************************************************)
LEMMA ReconcileInside ==
  ASSUME NEW remaining \in SUBSET Range3, NEW accounted \in Interval,
         NEW incoming \in Interval,
         accounted.gte <= incoming.lt, incoming.gte <= accounted.lt,
         NEW t \in ReconcileRanges(remaining, accounted, incoming),
         NEW s \in Nat, InInterval(s, t)
  PROVE  InInterval(s, incoming)
<1>1. /\ accounted.gte \in Nat /\ accounted.lt \in Nat
      /\ incoming.gte \in Nat /\ incoming.lt \in Nat
  BY DEF Interval
<1>2. CASE InInterval(s, incoming)
  BY <1>2
<1>3. CASE s < accounted.gte /\ incoming.gte <= s
  BY <1>1, <1>3 DEF InInterval
<1>4. CASE accounted.lt <= s /\ s < incoming.lt
  BY <1>1, <1>4 DEF InInterval
<1>5. QED
  BY <1>2, <1>3, <1>4, ReconcileOrigin

(***************************************************************************)
(* reconcileRanges keeps ranges disjoint: a second that at most one        *)
(* persisted range contains, and none unless it is accounted for, is in at *)
(* most one reconciled range.                                              *)
(***************************************************************************)
THEOREM ReconcileDisjoint ==
  ASSUME NEW remaining \in SUBSET Range3, NEW accounted \in Interval,
         NEW incoming \in Interval, accounted.gte <= accounted.lt,
         NEW s \in Nat,
         \A r, q \in remaining : InInterval(s, r) /\ InInterval(s, q) => r = q,
         \A r \in remaining : InInterval(s, r) => InInterval(s, accounted),
         NEW t \in ReconcileRanges(remaining, accounted, incoming),
         NEW u \in ReconcileRanges(remaining, accounted, incoming),
         InInterval(s, t), InInterval(s, u)
  PROVE  t = u
<1>1. accounted.gte \in Nat /\ accounted.lt \in Nat
  BY DEF Interval
<1>2. CASE InInterval(s, accounted)
  <2>1. ~(s < accounted.gte) /\ ~(accounted.lt <= s)
    BY <1>1, <1>2 DEF InInterval
  <2>2. PICK r \in remaining : t = Trim(r, incoming) /\ InInterval(s, r)
    BY <2>1, ReconcileOrigin
  <2>3. PICK q \in remaining : u = Trim(q, incoming) /\ InInterval(s, q)
    BY <2>1, ReconcileOrigin
  <2>4. QED
    BY <2>2, <2>3
<1>3. CASE ~InInterval(s, accounted)
  <2>1. \/ t \in UncoveredBelow(accounted, incoming) /\ s < accounted.gte
        \/ t \in UncoveredAbove(accounted, incoming) /\ accounted.lt <= s
    BY <1>3, ReconcileOrigin
  <2>2. \/ u \in UncoveredBelow(accounted, incoming) /\ s < accounted.gte
        \/ u \in UncoveredAbove(accounted, incoming) /\ accounted.lt <= s
    BY <1>3, ReconcileOrigin
  <2>3. ~(s < accounted.gte /\ accounted.lt <= s)
    BY <1>1
  <2>4. QED
    BY <2>1, <2>2, <2>3 DEF UncoveredBelow, UncoveredAbove
<1>4. QED
  BY <1>2, <1>3

(***************************************************************************)
(* Merging yields intervals whose ends are ends of given intervals.        *)
(***************************************************************************)
LEMMA MergeType ==
  ASSUME NEW intervals \in SUBSET Interval
  PROVE  MergeRanges(intervals) \in SUBSET Interval
<1>1. \A q \in intervals : q.gte \in Nat /\ q.lt \in Nat
  BY DEF Interval
<1>2. ASSUME NEW x \in MergeRanges(intervals)
      PROVE  \E p, q \in intervals : x = [gte |-> p.gte, lt |-> q.lt]
  BY DEF MergeRanges
<1>3. QED
  BY <1>1, <1>2 DEF Interval

\* A set of natural numbers has a least element.
LEMMA NatHasLeast ==
  ASSUME NEW T \in SUBSET Nat, T # {}
  PROVE  \E g \in T : \A h \in T : g <= h
<1>1. PICK g \in T : \A h \in T : <<h, g>> \notin OpToRel(<, Nat)
  BY WFMin, NatLessThanWellFounded
<1>2. \A h \in T : ~(h < g)
  BY <1>1 DEF OpToRel
<1>3. QED
  BY <1>2

(***************************************************************************)
(* mergeRanges invents nothing: a second of a merged interval is in one of *)
(* the given ones.  If it were not, the first interval that starts after   *)
(* it would start a run of its own, and the two sides would not be fused.  *)
(***************************************************************************)
THEOREM MergeInside ==
  ASSUME NEW intervals \in SUBSET Interval, NEW m \in MergeRanges(intervals),
         NEW s \in Nat, InInterval(s, m)
  PROVE  \E q \in intervals : InInterval(s, q)
<1> DEFINE starts == {b \in {q.gte : q \in intervals} : StartsRun(b, intervals)}
           run(b) == {q \in intervals :
                        q.gte >= b /\ \A t \in starts : t <= q.gte => t <= b}
           ends(b) == {e \in {q.lt : q \in run(b)} : \A q \in run(b) : q.lt <= e}
<1>1. \A q \in intervals : q.gte \in Nat /\ q.lt \in Nat
  BY DEF Interval
<1>0. PICK a \in starts : m \in {[gte |-> a, lt |-> e] : e \in ends(a)}
  BY Zenon DEF MergeRanges
<1>2. PICK e \in ends(a) : m = [gte |-> a, lt |-> e]
  BY <1>0
<1>3. a \in Nat
  BY <1>1
<1>4. PICK z \in run(a) : z.lt = e
  OBVIOUS
<1>5. z \in intervals /\ \A t \in starts : t <= z.gte => t <= a
  OBVIOUS
<1>6. a <= s /\ s < z.lt
  BY <1>2, <1>4 DEF InInterval
<1>7. SUFFICES ASSUME \A q \in intervals : ~InInterval(s, q)
               PROVE  FALSE
  OBVIOUS
<1>8. s < z.gte
  BY <1>1, <1>5, <1>6, <1>7 DEF InInterval
<1> DEFINE later == {q.gte : q \in {p \in intervals : s < p.gte}}
<1>9. z.gte \in later /\ later \in SUBSET Nat
  BY <1>1, <1>5, <1>8
<1>10. PICK g \in later : \A h \in later : g <= h
  BY <1>9, NatHasLeast
<1>11. g \in Nat /\ s < g /\ g <= z.gte
  BY <1>9, <1>10
<1>12. StartsRun(g, intervals)
  <2>1. ASSUME NEW q \in intervals, q.gte < g
        PROVE  q.lt < g
    <3>1. ~(s < q.gte)
      <4>1. s < q.gte => q.gte \in later
        OBVIOUS
      <4>2. QED
        BY <1>1, <1>10, <1>11, <2>1, <4>1
    <3>2. ~(s < q.lt)
      BY <1>1, <1>7, <3>1 DEF InInterval
    <3>3. QED
      BY <1>1, <1>11, <3>2
  <2>2. QED
    BY <2>1 DEF StartsRun
<1>13. g \in starts
  BY <1>12
<1>14. g <= a
  BY <1>5, <1>11, <1>13
<1>15. QED
  BY <1>3, <1>6, <1>11, <1>14

-----------------------------------------------------------------------------
(* The backfill.                                                           *)

Injective(s) == \A j, k \in DOMAIN s : j # k => s[j] # s[k]

\* The elements of a sequence over S are in S.
LEMMA RangeType ==
  ASSUME NEW S, NEW s \in Seq(S)
  PROVE  RangeOf(s) \subseteq S
<1>1. DOMAIN s = 1 .. Len(s) /\ \A k \in 1 .. Len(s) : s[k] \in S
  BY LenProperties, ElementOfSeq
<1>2. QED
  BY <1>1 DEF RangeOf

\* A sequence over a set is a sequence over every larger one.
LEMMA SeqMonotone ==
  ASSUME NEW S, NEW T, S \subseteq T, NEW s \in Seq(S)
  PROVE  s \in Seq(T)
<1>1. Len(s) \in Nat /\ s \in [1 .. Len(s) -> S]
  BY LenProperties
<1>2. s \in [1 .. Len(s) -> T]
  BY <1>1
<1>3. QED
  BY <1>1, <1>2

\* The first n elements of a sequence are at most n.
LEMMA PrefixFinite ==
  ASSUME NEW S, NEW s \in Seq(S), NEW n \in Nat, n <= Len(s)
  PROVE  /\ IsFiniteSet({s[k] : k \in 1 .. n})
         /\ Cardinality({s[k] : k \in 1 .. n}) <= n
<1> DEFINE f == [k \in 1 .. n |-> s[k]]
           T == {s[k] : k \in 1 .. n}
<1>1. f \in Surjection(1 .. n, T)
  BY DEF Surjection
<1>2. IsFiniteSet(1 .. n) /\ Cardinality(1 .. n) = n
  BY FS_Interval
<1>3. IsFiniteSet(T) /\ Cardinality(T) <= Cardinality(1 .. n)
  BY <1>1, <1>2, FS_Surjection
<1>4. QED
  BY <1>2, <1>3

(***************************************************************************)
(* Filling the free slots from the front of the queue: at most Concurrency *)
(* fetches are in flight, nothing is fetched twice or lost, and a queue    *)
(* waits only while something is in flight.                                *)
(***************************************************************************)
LEMMA LaunchFacts ==
  ASSUME NEW S, NEW s \in Seq(S), Injective(s),
         NEW others, IsFiniteSet(others), Cardinality(others) <= Concurrency,
         RangeOf(s) \cap others = {},
         LaunchNext(others, s)
  PROVE  /\ queue' \in Seq(S)
         /\ Injective(queue')
         /\ RangeOf(queue') \cap inflight' = {}
         /\ inflight' \cup RangeOf(queue') = others \cup RangeOf(s)
         /\ IsFiniteSet(inflight')
         /\ Cardinality(inflight') <= Concurrency
         /\ queue' # <<>> => inflight' # {}
<1>0. PICK n, q :
        /\ n = Smaller(Concurrency - Cardinality(others), Len(s))
        /\ q = SubSeq(s, n + 1, Len(s))
        /\ inflight' = others \cup {s[k] : k \in 1 .. n}
        /\ queue' = q
  BY DEF LaunchNext
<1> DEFINE I == others \cup {s[k] : k \in 1 .. n}
<1>1. /\ Concurrency \in Nat \ {0}
      /\ Cardinality(others) \in Nat
      /\ Len(s) \in Nat
      /\ DOMAIN s = 1 .. Len(s)
  BY ParameterAssumption, FS_CardinalityType, LenProperties
<1> DEFINE free == Concurrency - Cardinality(others)
<1>n. n \in Nat /\ n <= Len(s) /\ (n = Len(s) \/ n = free) /\ n <= free
  <2> DEFINE len == Len(s)
  <2>1. free \in Nat /\ len \in Nat
    BY <1>1
  <2>2. n = IF free < len THEN free ELSE len
    BY <1>0 DEF Smaller
  <2> HIDE DEF free, len
  <2>3. n \in Nat /\ n <= len /\ n <= free /\ (n = len \/ n = free)
    BY <2>1, <2>2
  <2>4. QED
    BY <2>3 DEF len
<1>2. n \in Nat /\ n <= Len(s)
  BY <1>n
<1>3. /\ q \in Seq(S)
      /\ Len(q) = Len(s) - n
      /\ DOMAIN q = 1 .. Len(s) - n
      /\ \A i \in 1 .. Len(s) - n : q[i] = s[n + i]
  <2>1. \A i \in n + 1 .. Len(s) : s[i] \in S
    BY <1>1, <1>2, ElementOfSeq
  <2>2. n + 1 \in Int /\ Len(s) \in Int
    BY <1>1, <1>2
  <2>3. /\ q \in Seq(S)
        /\ Len(q) = IF n + 1 <= Len(s) THEN Len(s) - (n + 1) + 1 ELSE 0
        /\ \A i \in 1 .. Len(s) - (n + 1) + 1 : q[i] = s[(n + 1) + i - 1]
    BY <1>0, <2>1, <2>2, SubSeqProperties
  <2>4. Len(q) = Len(s) - n /\ Len(s) - (n + 1) + 1 = Len(s) - n
    <3> DEFINE len == Len(s)
               lenq == Len(q)
    <3>1. len \in Nat /\ n <= len
      BY <1>1, <1>2
    <3>2. lenq = IF n + 1 <= len THEN len - (n + 1) + 1 ELSE 0
      BY <2>3
    <3> HIDE DEF len, lenq
    <3>3. lenq = len - n /\ len - (n + 1) + 1 = len - n
      BY <1>2, <3>1, <3>2
    <3>4. QED
      BY <3>3 DEF len, lenq
  <2>5. \A i \in 1 .. Len(s) - n : (n + 1) + i - 1 = n + i
    BY <1>2
  <2>6. QED
    BY <2>3, <2>4, <2>5, LenProperties
<1>4. \A i \in DOMAIN q : n + i \in DOMAIN s /\ n + i \notin 1 .. n
  BY <1>1, <1>2, <1>3
<1>5. Injective(q)
  <2>1. \A j, k \in DOMAIN q : j # k => n + j # n + k
    BY <1>2, <1>3
  <2>2. QED
    BY <1>3, <1>4, <2>1 DEF Injective
<1>6. 1 .. n \subseteq DOMAIN s
  BY <1>1, <1>2
<1>7. RangeOf(q) \cap I = {}
  <2>1. \A i \in DOMAIN q : q[i] \in RangeOf(s)
    BY <1>3, <1>4 DEF RangeOf
  <2>2. ASSUME NEW i \in DOMAIN q, NEW k \in 1 .. n
        PROVE  q[i] # s[k]
    <3>1. q[i] = s[n + i] /\ n + i \in DOMAIN s /\ k \in DOMAIN s
      BY <1>3, <1>4, <1>6
    <3>2. n + i # k
      BY <1>4
    <3>3. QED
      BY <3>1, <3>2 DEF Injective
  <2>3. ASSUME NEW i \in DOMAIN q
        PROVE  q[i] \notin I
    BY <2>1, <2>2
  <2>4. QED
    BY <2>3 DEF RangeOf
<1>8. I \cup RangeOf(q) = others \cup RangeOf(s)
  <2>1. ASSUME NEW k \in DOMAIN s
        PROVE  s[k] \in I \cup RangeOf(q)
    <3>1. CASE k \in 1 .. n
      BY <3>1
    <3>2. CASE k \notin 1 .. n
      <4>1. k - n \in DOMAIN q /\ n + (k - n) = k
        BY <1>1, <1>2, <1>3, <3>2
      <4>2. q[k - n] = s[k]
        BY <1>3, <4>1
      <4>3. QED
        BY <4>1, <4>2 DEF RangeOf
    <3>3. QED
      BY <3>1, <3>2
  <2>2. \A i \in DOMAIN q : q[i] \in RangeOf(s)
    BY <1>3, <1>4 DEF RangeOf
  <2>3. \A k \in 1 .. n : s[k] \in RangeOf(s)
    BY <1>6 DEF RangeOf
  <2>4. others \cup RangeOf(s) \subseteq I \cup RangeOf(q)
    BY <2>1 DEF RangeOf
  <2>5. RangeOf(q) \subseteq RangeOf(s)
    BY <2>2 DEF RangeOf
  <2>6. QED
    BY <2>3, <2>4, <2>5
<1>9. IsFiniteSet(I) /\ Cardinality(I) <= Concurrency
  <2> DEFINE T == {s[k] : k \in 1 .. n}
  <2>1. IsFiniteSet(T) /\ Cardinality(T) <= n
    BY <1>2, PrefixFinite
  <2>2. /\ IsFiniteSet(I)
        /\ Cardinality(I) =
             Cardinality(others) + Cardinality(T) - Cardinality(others \cap T)
    BY <2>1, FS_Union
  <2>3. IsFiniteSet(others \cap T)
    BY FS_Subset
  <2>4. Cardinality(T) \in Nat /\ Cardinality(others \cap T) \in Nat
    BY <2>1, <2>3, FS_CardinalityType
  <2>5. n <= Concurrency - Cardinality(others)
    BY <1>n
  <2> HIDE DEF T
  <2>6. Cardinality(I) <= Concurrency
    BY <1>1, <1>2, <2>1, <2>2, <2>4, <2>5
  <2>7. QED
    BY <2>2, <2>6
<1>10. q # <<>> => I # {}
  <2>1. SUFFICES ASSUME q # <<>>, others = {}
                 PROVE  1 \in 1 .. n
    OBVIOUS
  <2>2. Len(q) # 0
    BY <1>3, <2>1, EmptySeq
  <2>3. n = Concurrency - Cardinality(others)
    BY <1>1, <1>n, <1>3, <2>2
  <2>4. Cardinality(others) = 0
    BY <2>1, FS_EmptySet
  <2>5. QED
    BY <1>1, <2>3, <2>4
<1>11. QED
  BY <1>0, <1>2, <1>3, <1>5, <1>7, <1>8, <1>9, <1>10

-----------------------------------------------------------------------------
(***************************************************************************)
(* The bookkeeping invariant: types, and what the queue, the in-flight map *)
(* and the responses have to do with each other.                           *)
(***************************************************************************)
InflightBounded ==
  IsFiniteSet(inflight) /\ Cardinality(inflight) <= Concurrency

\* Every response belongs to a range in flight, which has only one.
ResponsesPending ==
  /\ \A f \in fetched : f.ref \in inflight
  /\ \A f, g \in fetched : f.ref = g.ref => f = g

\* No range waits twice, or waits while it is fetched.
QueueDistinct == Injective(queue) /\ RangeOf(queue) \cap inflight = {}

QueueWaits == queue # <<>> => inflight # {}

IdleEmpty ==
  phase = "idle" =>
    /\ ranges = <<>> /\ queue = <<>> /\ inflight = {} /\ fetched = {}
    /\ event = NoEvent /\ held = NotHeld /\ seen = {}

\* The loop works on the page of a range, which it has yielded completely when
\* it goes on.
EventDrained ==
  /\ phase # "records" => event.data = {}
  /\ phase \in {"records", "status"} => event.ref \in Refs

\* The oldest object of a page with successors is the cursor of its range.
ResponseCursor ==
  \A f \in fetched :
    f.hasMore /\ f.lastObserved # NoObservation =>
      /\ ranges[f.ref].cursor \in Objects
      /\ f.lastObserved = Created[ranges[f.ref].cursor]

Bookkeeping ==
  /\ TypeOK
  /\ InflightBounded
  /\ IsFiniteSet(stored.remaining)
  /\ ResponsesPending
  /\ QueueDistinct
  /\ QueueWaits
  /\ IdleEmpty
  /\ EventDrained
  /\ ResponseCursor

\* Objects are positive numbers, and older ones have no later second.
LEMMA ObjectsType ==
  /\ Len(Created) \in Nat
  /\ Objects \subseteq Nat \ {0}
  /\ \A i \in Objects : Created[i] \in Nat \ {0}
  /\ \A i, j \in Objects : i <= j => Created[j] <= Created[i]
<1>1. Created \in Seq(Nat \ {0}) /\ Len(Created) \in Nat
  BY CreatedAssumption
<1>2. \A i \in Objects : Created[i] \in Nat \ {0}
  BY <1>1 DEF Objects
<1>3. \A i, j \in Objects : i < j => Created[i] >= Created[j]
  BY CreatedAssumption
<1>4. Objects \subseteq Nat \ {0}
  BY <1>1 DEF Objects
<1>5. ASSUME NEW i \in Objects, NEW j \in Objects, i <= j
      PROVE  Created[j] <= Created[i]
  <2>1. CASE i = j
    BY <1>2, <2>1
  <2>2. CASE i < j
    BY <1>2, <1>3, <2>2
  <2>3. QED
    BY <1>4, <1>5, <2>1, <2>2
<1>6. QED
  BY <1>1, <1>2, <1>4, <1>5

\* A page holds objects in reach, and those are objects.
LEMMA ReachType ==
  ASSUME NEW r
  PROVE  Page(r) \subseteq Reach(r) /\ Reach(r) \subseteq Objects
  BY DEF Page, Reach

\* What is in scope of an interval are objects.
LEMMA ScopeType ==
  ASSUME NEW tr
  PROVE  InScope(tr) \subseteq Objects
  BY DEF InScope

\* A request starts from finitely many ranges.
LEMMA ResumeType ==
  ASSUME Bookkeeping, NEW tr \in Interval
  PROVE  Resume(tr) \in SUBSET Range3 /\ IsFiniteSet(Resume(tr))
<1>1. Fresh(tr.gte, tr.lt) \in Range3
  BY DEF Fresh, Interval, Range3, NoCursor
<1>2. /\ stored.remaining \in SUBSET Range3
      /\ stored.accounted \in Interval
      /\ IsFiniteSet(stored.remaining)
  BY DEF Bookkeeping, TypeOK
<1>3. /\ ReconcileRanges(stored.remaining, stored.accounted, tr)
           \in SUBSET Range3
      /\ IsFiniteSet(ReconcileRanges(stored.remaining, stored.accounted, tr))
  BY <1>2, ReconcileType, ReconcileFinite
<1>4. IsFiniteSet({Fresh(tr.gte, tr.lt)})
  BY FS_Singleton
<1>5. QED
  BY <1>1, <1>2, <1>3, <1>4 DEF Resume

(***************************************************************************)
(* Starting a request puts a reference to every resumed range on the queue *)
(* or in flight.                                                           *)
(***************************************************************************)
LEMMA BeginFacts ==
  ASSUME Bookkeeping, NEW tr \in Interval, Begin(tr)
  PROVE  /\ ranges' \in Seq(Range3)
         /\ RangeOf(ranges') = Resume(tr)
         /\ queue' \in Seq(Refs')
         /\ inflight' \in SUBSET Refs'
         /\ inflight' \cup RangeOf(queue') = Refs'
         /\ InflightBounded'
         /\ QueueDistinct'
         /\ QueueWaits'
<1> DEFINE m == Cardinality(Resume(tr))
<1>1. PICK s \in [1 .. m -> Resume(tr)] :
        /\ RangeOf(s) = Resume(tr)
        /\ ranges' = s
        /\ LaunchNext({}, [k \in DOMAIN s |-> k])
  BY DEF Begin
<1>2. m \in Nat
  BY ResumeType, FS_CardinalityType
<1>3. /\ ranges' \in Seq(Range3)
      /\ Len(ranges') = m
      /\ Refs' = 1 .. m
  BY <1>1, <1>2, ResumeType DEF Refs
<1> DEFINE t == [k \in 1 .. m |-> k]
<1>4. /\ t \in Seq(1 .. m)
      /\ RangeOf(t) = 1 .. m
      /\ Injective(t)
  BY <1>2 DEF RangeOf, Injective
<1>5. LaunchNext({}, t)
  <2>1. [k \in DOMAIN (ranges') |-> k] = t
    BY <1>1
  <2>2. QED
    BY <1>1, <2>1
<1>6. IsFiniteSet({}) /\ Cardinality({}) <= Concurrency
  BY FS_EmptySet, ParameterAssumption
<1> HIDE DEF t, m
<1>7. RangeOf(t) \cap {} = {}
  OBVIOUS
<1>9. /\ queue' \in Seq(1 .. m)
      /\ Injective(queue')
      /\ RangeOf(queue') \cap inflight' = {}
      /\ inflight' \cup RangeOf(queue') = {} \cup RangeOf(t)
      /\ IsFiniteSet(inflight')
      /\ Cardinality(inflight') <= Concurrency
      /\ queue' # <<>> => inflight' # {}
  BY <1>4, <1>5, <1>6, <1>7, LaunchFacts, Zenon
<1>10. QED
  BY <1>1, <1>3, <1>4, <1>9 DEF InflightBounded, QueueDistinct, QueueWaits

\* The elements and the distinctness of a concatenation.
LEMMA ConcatRange ==
  ASSUME NEW S, NEW s \in Seq(S), NEW t \in Seq(S)
  PROVE  /\ RangeOf(s \o t) = RangeOf(s) \cup RangeOf(t)
         /\ Injective(s) /\ Injective(t) /\ RangeOf(s) \cap RangeOf(t) = {}
              => Injective(s \o t)
<1> DEFINE u == s \o t
           m == Len(s)
           n == Len(t)
<1>1. m \in Nat /\ DOMAIN s = 1 .. m
  BY LenProperties
<1>2. n \in Nat /\ DOMAIN t = 1 .. n
  BY LenProperties
<1>3. /\ DOMAIN u = 1 .. m + n
      /\ \A i \in 1 .. m : u[i] = s[i]
      /\ \A i \in 1 .. m + n : i > m => u[i] = t[i - m]
  <2>1. u \in Seq(S) /\ Len(u) = m + n
    BY ConcatProperties
  <2>2. \A i \in 1 .. m + n : u[i] = IF i <= m THEN s[i] ELSE t[i - m]
    BY ConcatProperties
  <2> HIDE DEF u, m, n
  <2>3. DOMAIN u = 1 .. m + n
    BY <2>1
  <2>4. QED
    BY <1>1, <1>2, <2>2, <2>3
<1> HIDE DEF u, m, n
<1>4. \A i \in 1 .. n : m + i \in 1 .. m + n /\ m + i > m /\ (m + i) - m = i
  BY <1>1, <1>2
<1>5. \A i \in 1 .. m + n : i \notin 1 .. m => i > m /\ i - m \in 1 .. n
  BY <1>1, <1>2
<1>6. 1 .. m \subseteq 1 .. m + n
  BY <1>1, <1>2
<1>7. RangeOf(u) = RangeOf(s) \cup RangeOf(t)
  <2>1. \A i \in DOMAIN u : u[i] \in RangeOf(s) \cup RangeOf(t)
    BY <1>1, <1>2, <1>3, <1>5 DEF RangeOf
  <2>2. \A i \in DOMAIN s : s[i] \in RangeOf(u)
    BY <1>1, <1>3, <1>6 DEF RangeOf
  <2>3. ASSUME NEW i \in DOMAIN t
        PROVE  t[i] \in RangeOf(u)
    <3>1. u[m + i] = t[i] /\ m + i \in DOMAIN u
      BY <1>2, <1>3, <1>4
    <3>2. QED
      BY <3>1 DEF RangeOf
  <2>4. QED
    BY <2>1, <2>2, <2>3 DEF RangeOf
<1>8. ASSUME Injective(s), Injective(t), RangeOf(s) \cap RangeOf(t) = {},
             NEW j \in DOMAIN u, NEW k \in DOMAIN u, j # k
      PROVE  u[j] # u[k]
  <2>1. CASE j \in 1 .. m /\ k \in 1 .. m
    BY <1>1, <1>3, <1>8, <2>1 DEF Injective
  <2>2. CASE j \in 1 .. m /\ k \notin 1 .. m
    BY <1>1, <1>2, <1>3, <1>5, <1>8, <2>2 DEF RangeOf
  <2>3. CASE j \notin 1 .. m /\ k \in 1 .. m
    BY <1>1, <1>2, <1>3, <1>5, <1>8, <2>3 DEF RangeOf
  <2>4. CASE j \notin 1 .. m /\ k \notin 1 .. m
    <3>1. /\ j - m \in DOMAIN t /\ k - m \in DOMAIN t
          /\ u[j] = t[j - m] /\ u[k] = t[k - m]
      BY <1>2, <1>3, <1>5, <1>8, <2>4
    <3>2. j - m # k - m
      BY <1>1, <1>2, <1>3, <1>8
    <3>3. QED
      BY <1>8, <3>1, <3>2 DEF Injective
  <2>5. QED
    BY <2>1, <2>2, <2>3, <2>4
<1>9. QED
  BY <1>7, <1>8 DEF Injective, u

(***************************************************************************)
(* What a response puts back on the queue: children at the end of the heap *)
(* or the range itself, none of which is waiting or in flight elsewhere.   *)
(***************************************************************************)
LEMMA NewRangesType ==
  ASSUME Bookkeeping, NEW f \in fetched
  PROVE  NewRanges(f) \in Seq(Range3)
<1>1. /\ f.lastObserved \in Nat
      /\ f.ref \in 1 .. Len(ranges)
      /\ ranges \in Seq(Range3)
  BY DEF Bookkeeping, TypeOK, Response, Refs
<1>2. SubdivisionFactor \in Nat \ {0}
  BY ParameterAssumption
<1>3. ranges[f.ref] \in Range3
  BY <1>1
<1>4. CASE Split(f)
  BY <1>1, <1>2, <1>3, <1>4, ChildrenType DEF NewRanges, Split
<1>5. CASE ~Split(f)
  BY <1>5 DEF NewRanges
<1>6. QED
  BY <1>4, <1>5

\* Appending children to the heap keeps every range it has.
LEMMA HeapGrows ==
  ASSUME Bookkeeping, NEW f \in fetched, NEW h, h = ranges \o NewRanges(f)
  PROVE  /\ h \in Seq(Range3)
         /\ Len(h) = Len(ranges) + Len(NewRanges(f))
         /\ Len(ranges) \in Nat /\ Len(NewRanges(f)) \in Nat
         /\ \A y \in Refs : h[y] = ranges[y]
         /\ \A k \in 1 .. Len(NewRanges(f)) :
              h[Len(ranges) + k] = NewRanges(f)[k]
<1> DEFINE c == NewRanges(f)
           m == Len(ranges)
           n == Len(c)
<1>1. ranges \in Seq(Range3) /\ c \in Seq(Range3)
  BY NewRangesType DEF Bookkeeping, TypeOK
<1> HIDE DEF c
<1>2. m \in Nat /\ n \in Nat
  BY <1>1, LenProperties
<1>3. /\ h \in Seq(Range3)
      /\ Len(h) = m + n
      /\ \A i \in 1 .. m + n : h[i] = IF i <= m THEN ranges[i] ELSE c[i - m]
  BY <1>1, ConcatProperties DEF c
<1> HIDE DEF m, n
<1>4. \A y \in 1 .. m : h[y] = ranges[y]
  BY <1>2, <1>3
<1>5. ASSUME NEW k \in 1 .. n
      PROVE  h[m + k] = c[k]
  <2>1. m + k \in 1 .. m + n /\ ~(m + k <= m) /\ (m + k) - m = k
    BY <1>2
  <2>2. QED
    BY <1>3, <2>1
<1>6. QED
  BY <1>2, <1>3, <1>4, <1>5 DEF c, m, n, Refs

\* What is requeued is new on the queue and points into the grown heap.
LEMMA RequeuedFacts ==
  ASSUME Bookkeeping, NEW f \in fetched, NEW h, h = ranges \o NewRanges(f)
  PROVE  /\ queue \o Requeued(f) \in Seq(1 .. Len(h))
         /\ Injective(queue \o Requeued(f))
         /\ RangeOf(queue \o Requeued(f)) = RangeOf(queue) \cup RangeOf(Requeued(f))
         /\ RangeOf(queue \o Requeued(f)) \cap (inflight \ {f.ref}) = {}
         /\ Split(f) => RangeOf(Requeued(f)) =
                          {Len(ranges) + k : k \in 1 .. Len(NewRanges(f))}
         /\ ~Split(f) => RangeOf(Requeued(f)) = IF f.hasMore THEN {f.ref} ELSE {}
<1> DEFINE m == Len(ranges)
           n == Len(NewRanges(f))
           q == Requeued(f)
<1>1. m \in Nat /\ n \in Nat /\ Len(h) = m + n
  BY HeapGrows
<1>2. /\ f.ref \in 1 .. m
      /\ f.ref \in inflight
      /\ queue \in Seq(1 .. m)
      /\ inflight \subseteq 1 .. m
      /\ Injective(queue)
      /\ RangeOf(queue) \cap inflight = {}
  BY DEF Bookkeeping, TypeOK, Response, Refs, QueueDistinct, ResponsesPending
<1>3. ASSUME Split(f)
      PROVE  /\ q = [k \in 1 .. n |-> m + k]
             /\ RangeOf(q) = {m + k : k \in 1 .. n}
  BY <1>3 DEF Requeued, RangeOf
<1>4. ASSUME ~Split(f)
      PROVE  /\ q = IF f.hasMore THEN <<f.ref>> ELSE <<>>
             /\ RangeOf(q) = IF f.hasMore THEN {f.ref} ELSE {}
  BY <1>4 DEF Requeued, RangeOf
<1> HIDE DEF m, n, q
<1>5. /\ q \in Seq(1 .. m + n)
      /\ Injective(q)
      /\ RangeOf(q) \cap RangeOf(queue) = {}
      /\ RangeOf(q) \cap (inflight \ {f.ref}) = {}
  <2>1. CASE Split(f)
    <3>1. \A k \in 1 .. n : m + k \in 1 .. m + n /\ m + k \notin 1 .. m
      BY <1>1
    <3>2. q \in Seq(1 .. m + n)
      BY <1>1, <1>3, <2>1, <3>1
    <3>3. DOMAIN q = 1 .. n /\ \A k \in 1 .. n : q[k] = m + k
      BY <1>3, <2>1
    <3>4. Injective(q)
      BY <1>1, <3>3 DEF Injective
    <3>5. RangeOf(q) \cap 1 .. m = {}
      BY <1>3, <2>1, <3>1
    <3>6. RangeOf(queue) \subseteq 1 .. m
      BY <1>2, RangeType
    <3>7. QED
      BY <1>2, <3>2, <3>4, <3>5, <3>6
  <2>2. CASE ~Split(f)
    <3>1. f.ref \in 1 .. m + n
      BY <1>1, <1>2
    <3>2. q \in Seq(1 .. m + n)
      <4>1. <<f.ref>> \in Seq(1 .. m + n) /\ <<>> \in Seq(1 .. m + n)
        BY <3>1
      <4>2. QED
        BY <1>4, <2>2, <4>1, Zenon
    <3>3. DOMAIN q \subseteq {1}
      BY <1>4, <2>2
    <3>4. Injective(q)
      BY <3>3 DEF Injective
    <3>5. RangeOf(q) \subseteq {f.ref}
      BY <1>4, <2>2
    <3>6. QED
      BY <1>2, <3>2, <3>4, <3>5
  <2>3. QED
    BY <2>1, <2>2
<1>6. queue \in Seq(1 .. m + n)
  <2>1. 1 .. m \subseteq 1 .. m + n
    BY <1>1
  <2>2. QED
    BY <1>2, <2>1, SeqMonotone
<1>7. /\ RangeOf(queue \o q) = RangeOf(queue) \cup RangeOf(q)
      /\ Injective(queue \o q)
  BY <1>2, <1>5, <1>6, ConcatRange
<1>8. queue \o q \in Seq(1 .. m + n)
  BY <1>5, <1>6, ConcatProperties
<1>9. QED
  BY <1>1, <1>2, <1>3, <1>4, <1>5, <1>7, <1>8 DEF m, n, q

-----------------------------------------------------------------------------
(***************************************************************************)
(* Every step keeps the bookkeeping invariant.                             *)
(***************************************************************************)
LEMMA QueueUnchanged ==
  ASSUME Bookkeeping, UNCHANGED <<ranges, queue, inflight, fetched>>
  PROVE  /\ InflightBounded' /\ ResponsesPending' /\ QueueDistinct'
         /\ QueueWaits' /\ ResponseCursor'
  BY DEF Bookkeeping, InflightBounded, ResponsesPending, QueueDistinct,
         QueueWaits, ResponseCursor

\* Between requests the bookkeeping is trivial.
LEMMA DiscardFacts ==
  ASSUME Bookkeeping, Discard
  PROVE  /\ InflightBounded' /\ ResponsesPending' /\ QueueDistinct'
         /\ QueueWaits' /\ ResponseCursor' /\ IdleEmpty' /\ EventDrained'
<1>1. IsFiniteSet({}) /\ Cardinality({}) <= Concurrency
  BY FS_EmptySet, ParameterAssumption
<1>2. InflightBounded'
  BY <1>1 DEF Discard, InflightBounded
<1>3. RangeOf(<<>>) = {} /\ Injective(<<>>)
  BY DEF RangeOf, Injective
<1>4. QueueDistinct'
  BY <1>3 DEF Discard, QueueDistinct
<1>5. ResponsesPending' /\ QueueWaits' /\ ResponseCursor'
  BY DEF Discard, ResponsesPending, QueueWaits, ResponseCursor
<1>6. IdleEmpty' /\ EventDrained'
  BY DEF Discard, IdleEmpty, EventDrained, NoEvent
<1>7. QED
  BY <1>2, <1>4, <1>5, <1>6

\* Bookkeeping holds initially.
LEMMA InitBookkeeping == Init => Bookkeeping
<1> SUFFICES ASSUME Init PROVE Bookkeeping
  OBVIOUS
<1>1. NoInterval \in Interval
  BY DEF NoInterval, Interval
<1>2. /\ ranges = <<>> /\ queue = <<>> /\ inflight = {} /\ fetched = {}
      /\ event = NoEvent /\ held = NotHeld /\ seen = {} /\ stored.remaining = {}
  BY DEF Init
<1>3. TypeOK
  <2>1. MaxRequests \in Nat
    BY ParameterAssumption
  <2>2. /\ ranges \in Seq(Range3) /\ queue \in Seq(Refs)
        /\ inflight \in SUBSET Refs /\ fetched \in SUBSET Response
    BY <1>2
  <2>3. event \in [ref : Refs \cup {0}, data : SUBSET Objects,
                   hasMore : BOOLEAN, oldest : Nat, remaining : SUBSET Refs]
    BY <1>2 DEF NoEvent
  <2>4. held \in [live : BOOLEAN, refs : SUBSET Refs]
    BY <1>2 DEF NotHeld
  <2>5. stored \in [known : BOOLEAN, accounted : Interval,
                 remaining : SUBSET Range3, timeRange : Interval,
                 status : {"not_started", "started"} \cup Terminal,
                 completed : SUBSET Interval, hasMore : BOOLEAN]
    BY <1>1 DEF Init
  <2>6. QED
    BY <1>1, <2>1, <2>2, <2>3, <2>4, <2>5 DEF TypeOK, Init
<1>4. IsFiniteSet({}) /\ Cardinality({}) <= Concurrency
  BY FS_EmptySet, ParameterAssumption
<1>5. InflightBounded /\ IsFiniteSet(stored.remaining)
  BY <1>2, <1>4 DEF InflightBounded
<1>6. RangeOf(<<>>) = {} /\ Injective(<<>>)
  BY DEF RangeOf, Injective
<1>7. ResponsesPending /\ QueueDistinct /\ QueueWaits /\ ResponseCursor
  BY <1>2, <1>6 DEF ResponsesPending, QueueDistinct, QueueWaits, ResponseCursor
<1>8. phase = "idle"
  BY DEF Init
<1>9. IdleEmpty /\ EventDrained
  BY <1>2, <1>8 DEF IdleEmpty, EventDrained, NoEvent
<1>10. QED
  BY <1>3, <1>5, <1>7, <1>9 DEF Bookkeeping

\* Beginning a request establishes Bookkeeping.
LEMMA BeginBookkeeping ==
  ASSUME Bookkeeping, NEW tr \in Interval, Begin(tr), phase = "idle",
         timeRange' = tr, completed' \in SUBSET Interval,
         requests' \in 0 .. MaxRequests, UNCHANGED <<emitted, forgone>>
  PROVE  Bookkeeping'
<1>1. fetched = {} /\ event = NoEvent /\ held = NotHeld /\ seen = {}
  BY DEF Bookkeeping, IdleEmpty
<1>2. /\ phase' = "await" /\ status' = "started"
      /\ UNCHANGED <<fetched, event, held, seen, stored>>
  BY DEF Begin
<1>3. /\ ranges' \in Seq(Range3)
      /\ queue' \in Seq(Refs')
      /\ inflight' \in SUBSET Refs'
      /\ InflightBounded'
      /\ QueueDistinct'
      /\ QueueWaits'
  BY BeginFacts
<1>4. TypeOK'
  <2>1. (event \in [ref : Refs \cup {0}, data : SUBSET Objects,
                    hasMore : BOOLEAN, oldest : Nat, remaining : SUBSET Refs])'
    BY <1>1, <1>2 DEF NoEvent
  <2>2. (held \in [live : BOOLEAN, refs : SUBSET Refs])'
    BY <1>1, <1>2 DEF NotHeld
  <2>3. (fetched \in SUBSET Response)'
    BY <1>1, <1>2
  <2>4. QED
    BY <1>2, <1>3, <2>1, <2>2, <2>3 DEF TypeOK, Bookkeeping
<1>5. ResponsesPending' /\ ResponseCursor'
  BY <1>1, <1>2 DEF ResponsesPending, ResponseCursor
<1>6. IdleEmpty' /\ EventDrained'
  BY <1>1, <1>2 DEF IdleEmpty, EventDrained, NoEvent
<1>7. IsFiniteSet(stored'.remaining)
  BY <1>2 DEF Bookkeeping
<1>8. QED
  BY <1>3, <1>4, <1>5, <1>6, <1>7 DEF Bookkeeping

\* A silent return keeps Bookkeeping.
LEMMA SilentReturnBookkeeping ==
  ASSUME Bookkeeping, NEW tr \in Interval, NEW st, NEW done,
         SilentReturn(tr, st, done),
         st \in {"not_started", "started"} \cup Terminal,
         done \in SUBSET Interval,
         timeRange' = tr, completed' \in SUBSET Interval,
         requests' \in 0 .. MaxRequests, UNCHANGED <<emitted, forgone>>
  PROVE  Bookkeeping'
<1>1. /\ status' = st
      /\ stored' = [stored EXCEPT !.hasMore = FALSE, !.timeRange = tr,
                                  !.status = st, !.completed = done]
      /\ UNCHANGED <<phase, ranges, queue, inflight, fetched, event, held, seen>>
  BY DEF SilentReturn, request
<1>2. stored'.remaining = stored.remaining
  BY <1>1 DEF Bookkeeping, TypeOK
<1>3. TypeOK'
  BY <1>1 DEF TypeOK, Bookkeeping, Refs, Response
<1>4. IdleEmpty' /\ EventDrained'
  BY <1>1 DEF Bookkeeping, IdleEmpty, EventDrained, Refs
<1>5. QED
  BY <1>1, <1>2, <1>3, <1>4, QueueUnchanged DEF Bookkeeping

\* What the arrival of a page changes, in terms the later proofs use.
LEMMA FetchFacts ==
  ASSUME Bookkeeping, NEW x \in inflight, FetchPageForRange(x)
  PROVE  \E last \in Nat, f \in Response :
           LET page == Page(ranges[x])
           IN  /\ last \in page \/ (page = {} /\ last = NoCursor)
               /\ \A i \in page : i <= last
               /\ f.ref = x /\ f.data = page /\ f.failure = "none"
               /\ f.hasMore = (Reach(ranges[x]) # page)
               /\ page # {} => f.lastObserved = Created[last]
               /\ page = {} => f.lastObserved = NoObservation
               /\ fetched' = fetched \cup {f}
               /\ ranges' = [ranges EXCEPT ![x].cursor =
                               IF f.hasMore THEN last ELSE NoCursor]
<1> DEFINE page == Page(ranges[x])
           more == Reach(ranges[x]) # page
<1>1. PICK last \in Objects \cup {NoCursor} :
        /\ IF page = {} THEN last = NoCursor
           ELSE last \in page /\ \A i \in page : i <= last
        /\ ranges' = [ranges EXCEPT ![x].cursor =
                        IF more THEN last ELSE NoCursor]
        /\ fetched' = fetched \cup
             {[ref |-> x, failure |-> "none", data |-> page,
               hasMore |-> more,
               lastObserved |-> IF page = {} THEN NoObservation
                                ELSE Created[last]]}
  BY DEF FetchPageForRange
<1>2. page \subseteq Objects
  BY ReachType
<1>3. last \in Nat
  BY ObjectsType DEF NoCursor
<1>4. x \in Refs
  BY DEF Bookkeeping, TypeOK
<1> DEFINE f == [ref |-> x, failure |-> "none", data |-> page,
                 hasMore |-> more,
                 lastObserved |-> IF page = {} THEN NoObservation
                                  ELSE Created[last]]
<1>5. f.lastObserved \in Nat
  BY <1>1, <1>2, ObjectsType DEF NoObservation
<1>6. f \in Response
  <2> HIDE DEF page
  <2>1. more \in BOOLEAN
    OBVIOUS
  <2> HIDE DEF more
  <2>2. QED
    BY <1>2, <1>4, <1>5, <2>1 DEF Response
<1>7. last \in page \/ (page = {} /\ last = NoCursor)
  BY <1>1
<1>8. \A i \in page : i <= last
  BY <1>1
<1>9. QED
  <2> HIDE DEF page
  <2>1. /\ f.ref = x /\ f.data = page /\ f.failure = "none"
        /\ f.hasMore = more
        /\ page # {} => f.lastObserved = Created[last]
        /\ page = {} => f.lastObserved = NoObservation
    OBVIOUS
  <2>2. fetched' = fetched \cup {f}
    BY <1>1
  <2>3. ranges' = [ranges EXCEPT ![x].cursor =
                     IF f.hasMore THEN last ELSE NoCursor]
    BY <1>1, <2>1
  <2> HIDE DEF f, more
  <2>4. QED
    BY <1>3, <1>6, <1>7, <1>8, <2>1, <2>2, <2>3 DEF page, more

\* The arrival of a page keeps Bookkeeping.
LEMMA FetchPageBookkeeping ==
  ASSUME Bookkeeping, NEW x \in inflight, FetchPageForRange(x)
  PROVE  Bookkeeping'
<1>1. PICK last \in Nat, f \in Response :
        /\ last \in Page(ranges[x]) \/ Page(ranges[x]) = {}
        /\ f.ref = x
        /\ Page(ranges[x]) # {} => f.lastObserved = Created[last]
        /\ Page(ranges[x]) = {} => f.lastObserved = NoObservation
        /\ fetched' = fetched \cup {f}
        /\ ranges' = [ranges EXCEPT ![x].cursor =
                        IF f.hasMore THEN last ELSE NoCursor]
  BY FetchFacts
<1>2. /\ x \notin Answered
      /\ UNCHANGED <<phase, queue, inflight, event, held, seen, timeRange,
                     status, completed, stored, requests, emitted, forgone>>
  BY DEF FetchPageForRange
<1>3. ranges \in Seq(Range3) /\ x \in 1 .. Len(ranges)
  BY DEF Bookkeeping, TypeOK, Refs
<1> DEFINE c == IF f.hasMore THEN last ELSE NoCursor
<1>4. c \in Nat
  BY DEF NoCursor
<1>5. /\ ranges' \in Seq(Range3)
      /\ Len(ranges') = Len(ranges)
      /\ \A y \in 1 .. Len(ranges) : y # x => ranges'[y] = ranges[y]
      /\ ranges'[x] = [ranges[x] EXCEPT !.cursor = c]
  <2> HIDE DEF c
  <2>1. ASSUME NEW g, g = [ranges EXCEPT ![x].cursor = c]
        PROVE  /\ g \in Seq(Range3)
               /\ Len(g) = Len(ranges)
               /\ \A y \in 1 .. Len(ranges) : y # x => g[y] = ranges[y]
               /\ g[x] = [ranges[x] EXCEPT !.cursor = c]
    <3>1. ranges[x] \in Range3
      BY <1>3
    <3>2. [ranges[x] EXCEPT !.cursor = c] \in Range3
      BY <1>4, <3>1 DEF Range3
    <3>3. QED
      BY <1>3, <2>1, <3>2
  <2>2. ranges' = [ranges EXCEPT ![x].cursor = c]
    BY <1>1 DEF c
  <2>3. QED
    BY <2>1, <2>2
<1>6. Refs' = Refs
  BY <1>5 DEF Refs
<1>7. Response' = Response
  BY <1>6 DEF Response
<1>8. TypeOK'
  <2>1. fetched' \in SUBSET Response
    BY <1>1 DEF Bookkeeping, TypeOK
  <2>2. QED
    BY <1>2, <1>5, <1>6, <1>7, <2>1 DEF TypeOK, Bookkeeping
<1>9. InflightBounded' /\ QueueDistinct' /\ QueueWaits' /\ EventDrained'
  BY <1>2, <1>6 DEF Bookkeeping, InflightBounded, QueueDistinct, QueueWaits,
     EventDrained
<1>10. ResponsesPending'
  BY <1>1, <1>2 DEF Bookkeeping, ResponsesPending, Answered
<1>11. IdleEmpty'
  BY <1>2 DEF Bookkeeping, IdleEmpty
<1>12. ResponseCursor'
  <2>1. ASSUME NEW g \in fetched', g.hasMore, g.lastObserved # NoObservation
        PROVE  /\ ranges'[g.ref].cursor \in Objects
               /\ g.lastObserved = Created[ranges'[g.ref].cursor]
    <3>1. CASE g \in fetched
      <4>1. g.ref # x /\ g.ref \in 1 .. Len(ranges)
        BY <1>2, <3>1 DEF Answered, Bookkeeping, TypeOK, Response, Refs
      <4>2. QED
        BY <1>5, <2>1, <3>1, <4>1 DEF Bookkeeping, ResponseCursor
    <3>2. CASE g = f
      <4>1. last \in Page(ranges[x]) /\ g.lastObserved = Created[last]
        BY <1>1, <2>1, <3>2
      <4>2. last \in Objects
        BY <4>1, ReachType
      <4>3. ranges[x] \in Range3
        BY <1>3
      <4>4. ranges'[x].cursor = last
        BY <1>5, <2>1, <3>2, <4>3 DEF Range3
      <4>5. QED
        BY <1>1, <3>2, <4>1, <4>2, <4>4
    <3>3. QED
      BY <1>1, <3>1, <3>2
  <2>2. QED
    BY <2>1 DEF ResponseCursor
<1>13. IsFiniteSet(stored'.remaining)
  BY <1>2 DEF Bookkeeping
<1>14. QED
  BY <1>8, <1>9, <1>10, <1>11, <1>12, <1>13 DEF Bookkeeping

\* A failed fetch keeps Bookkeeping.
LEMMA FetchRejectsBookkeeping ==
  ASSUME Bookkeeping, NEW x \in inflight, NEW failure \in {"error", "skip"},
         FetchRejects(x, failure)
  PROVE  Bookkeeping'
<1> DEFINE f == [ref |-> x, failure |-> failure, data |-> {},
                 hasMore |-> FALSE, lastObserved |-> NoObservation]
<1>1. /\ x \notin Answered
      /\ fetched' = fetched \cup {f}
      /\ UNCHANGED <<phase, ranges, queue, inflight, event, held, seen,
                     timeRange, status, completed, stored, requests, emitted,
                     forgone>>
  BY DEF FetchRejects
<1>2. x \in Refs
  BY DEF Bookkeeping, TypeOK
<1>3. f \in Response
  BY <1>2 DEF Response, NoObservation
<1>4. f.ref = x /\ f.hasMore = FALSE
  OBVIOUS
<1> HIDE DEF f
<1>5. Refs' = Refs /\ Response' = Response
  BY <1>1 DEF Refs, Response
<1>6. TypeOK'
  <2>1. fetched' \in SUBSET Response
    BY <1>1, <1>3 DEF Bookkeeping, TypeOK
  <2>2. QED
    BY <1>1, <1>5, <2>1 DEF TypeOK, Bookkeeping
<1>7. InflightBounded' /\ QueueDistinct' /\ QueueWaits' /\ EventDrained'
  BY <1>1, <1>5 DEF Bookkeeping, InflightBounded, QueueDistinct, QueueWaits,
     EventDrained
<1>8. ResponsesPending'
  BY <1>1, <1>4 DEF Bookkeeping, ResponsesPending, Answered
<1>9. IdleEmpty'
  BY <1>1 DEF Bookkeeping, IdleEmpty
<1>10. ResponseCursor'
  BY <1>1, <1>4 DEF Bookkeeping, ResponseCursor
<1>11. QED
  BY <1>1, <1>6, <1>7, <1>8, <1>9, <1>10 DEF Bookkeeping

\* What taking a page changes: the references in flight and on the queue
\* are those of before, less the page's own, plus the ones requeued.
LEMMA TakePageFacts ==
  ASSUME Bookkeeping, NEW f \in fetched, TakePage(f)
  PROVE  /\ ranges' = ranges \o NewRanges(f)
         /\ queue' \in Seq(Refs')
         /\ inflight' \in SUBSET Refs'
         /\ Refs \subseteq Refs'
         /\ InflightBounded' /\ QueueDistinct' /\ QueueWaits'
         /\ inflight \ {f.ref} \subseteq inflight'
         /\ inflight' \cup RangeOf(queue') =
              (inflight \ {f.ref}) \cup RangeOf(queue) \cup RangeOf(Requeued(f))
<1> DEFINE others == inflight \ {f.ref}
           s == queue \o Requeued(f)
<1>1. ranges' = ranges \o NewRanges(f) /\ LaunchNext(others, s)
  BY DEF TakePage
<1>2. /\ s \in Seq(Refs')
      /\ Injective(s)
      /\ RangeOf(s) = RangeOf(queue) \cup RangeOf(Requeued(f))
      /\ RangeOf(s) \cap others = {}
  BY <1>1, RequeuedFacts DEF Refs
<1>3. /\ IsFiniteSet(others)
      /\ Cardinality(others) <= Concurrency
  <2>1. IsFiniteSet(inflight) /\ Cardinality(inflight) <= Concurrency
    BY DEF Bookkeeping, InflightBounded
  <2>2. IsFiniteSet(others) /\ Cardinality(others) <= Cardinality(inflight)
    BY <2>1, FS_Subset
  <2>3. Cardinality(others) \in Nat /\ Cardinality(inflight) \in Nat
    BY <2>1, <2>2, FS_CardinalityType
  <2>4. Concurrency \in Nat
    BY ParameterAssumption
  <2> HIDE DEF others
  <2>5. QED
    BY <2>1, <2>2, <2>3, <2>4
<1>4. Refs \subseteq Refs'
  <2>1. /\ Len(ranges') = Len(ranges) + Len(NewRanges(f))
        /\ Len(ranges) \in Nat /\ Len(NewRanges(f)) \in Nat
    BY <1>1, HeapGrows
  <2>2. QED
    BY <2>1 DEF Refs
<1>5. others \subseteq Refs'
  BY <1>4 DEF Bookkeeping, TypeOK
<1>6. others \subseteq inflight'
  BY <1>1 DEF LaunchNext
<1> HIDE DEF others, s
<1>7. /\ queue' \in Seq(Refs')
      /\ Injective(queue')
      /\ RangeOf(queue') \cap inflight' = {}
      /\ inflight' \cup RangeOf(queue') = others \cup RangeOf(s)
      /\ IsFiniteSet(inflight')
      /\ Cardinality(inflight') <= Concurrency
      /\ queue' # <<>> => inflight' # {}
  BY <1>1, <1>2, <1>3, LaunchFacts
<1>8. RangeOf(s) \subseteq Refs'
  BY <1>2, RangeType
<1>9. inflight' \in SUBSET Refs'
  BY <1>5, <1>7, <1>8
<1>10. QED
  BY <1>1, <1>2, <1>4, <1>6, <1>7, <1>9
  DEF InflightBounded, QueueDistinct, QueueWaits, others

\* Taking a page keeps Bookkeeping.
LEMMA TakePageBookkeeping ==
  ASSUME Bookkeeping, NEW f \in fetched, TakePage(f)
  PROVE  Bookkeeping'
<1>1. /\ fetched' = fetched \ {f}
      /\ phase' = "records"
      /\ event' = [ref |-> f.ref, data |-> f.data, hasMore |-> f.hasMore,
                   oldest |-> f.lastObserved,
                   remaining |-> SnapshotRemaining(inflight', queue')]
      /\ UNCHANGED <<held, seen, timeRange, status, completed, stored,
                     requests, emitted, forgone>>
  BY DEF TakePage
<1>2. /\ ranges' = ranges \o NewRanges(f)
      /\ queue' \in Seq(Refs')
      /\ inflight' \in SUBSET Refs'
      /\ Refs \subseteq Refs'
      /\ InflightBounded' /\ QueueDistinct' /\ QueueWaits'
      /\ inflight \ {f.ref} \subseteq inflight'
  BY TakePageFacts
<1>3. /\ ranges' \in Seq(Range3)
      /\ \A y \in Refs : ranges'[y] = ranges[y]
  BY <1>2, HeapGrows
<1>4. f \in Response
  BY DEF Bookkeeping, TypeOK
<1>5. TypeOK'
  <2>1. Response \subseteq Response'
    BY <1>2 DEF Response
  <2>2. fetched' \in SUBSET Response'
    BY <1>1, <2>1 DEF Bookkeeping, TypeOK
  <2>3. SnapshotRemaining(inflight', queue') \in SUBSET Refs'
    BY <1>2, RangeType DEF SnapshotRemaining
  <2>4. event' \in [ref : Refs' \cup {0}, data : SUBSET Objects,
                    hasMore : BOOLEAN, oldest : Nat, remaining : SUBSET Refs']
    BY <1>1, <1>2, <1>4, <2>3 DEF Response
  <2>5. held' \in [live : BOOLEAN, refs : SUBSET Refs']
    BY <1>1, <1>2 DEF Bookkeeping, TypeOK
  <2>6. QED
    BY <1>1, <1>2, <1>3, <2>2, <2>4, <2>5 DEF TypeOK, Bookkeeping
<1>6. ResponsesPending'
  <2>1. \A g \in fetched' : g.ref \in inflight \ {f.ref}
    BY <1>1 DEF Bookkeeping, ResponsesPending
  <2>2. QED
    BY <1>1, <1>2, <2>1 DEF Bookkeeping, ResponsesPending
<1>7. ResponseCursor'
  <2>1. \A g \in fetched' : g \in fetched /\ ranges'[g.ref] = ranges[g.ref]
    BY <1>1, <1>3 DEF Bookkeeping, TypeOK, Response
  <2>2. QED
    BY <2>1 DEF Bookkeeping, ResponseCursor
<1>8. IdleEmpty' /\ EventDrained'
  BY <1>1, <1>2, <1>4 DEF IdleEmpty, EventDrained, Response
<1>9. IsFiniteSet(stored'.remaining)
  BY <1>1 DEF Bookkeeping
<1>10. QED
  BY <1>2, <1>5, <1>6, <1>7, <1>8, <1>9 DEF Bookkeeping

\* The steps of the message loop leave the work-queue alone.
LEMMA LoopBookkeeping ==
  ASSUME Bookkeeping,
         \/ \E f \in fetched : TakeFailure(f)
         \/ Drained
         \/ EmitRecord \/ EmitState \/ EmitRangeComplete
         \/ EmitFinalState \/ EmitComplete
  PROVE  Bookkeeping'
<1>1. UNCHANGED <<ranges, queue, inflight, fetched, seen, stored>>
        \/ EmitRecord
  BY DEF TakeFailure, Drained, EmitState, EmitRangeComplete, EmitFinalState,
         EmitComplete
<1>2. UNCHANGED <<ranges, queue, inflight, fetched, stored>>
  BY <1>1 DEF EmitRecord
<1>3. Refs' = Refs /\ Response' = Response
  BY <1>2 DEF Refs, Response
<1>4. /\ InflightBounded' /\ ResponsesPending' /\ QueueDistinct'
      /\ QueueWaits' /\ ResponseCursor' /\ IsFiniteSet(stored'.remaining)
  BY <1>2, QueueUnchanged DEF Bookkeeping
<1>5. event \in [ref : Refs \cup {0}, data : SUBSET Objects,
                 hasMore : BOOLEAN, oldest : Nat, remaining : SUBSET Refs]
  BY DEF Bookkeeping, TypeOK
<1>6. NoEvent \in [ref : Refs \cup {0}, data : SUBSET Objects,
                   hasMore : BOOLEAN, oldest : Nat, remaining : SUBSET Refs]
  BY DEF NoEvent
<1>7. CASE \E f \in fetched : TakeFailure(f)
  <2>1. /\ status' \in {"skipped", "errored"} /\ phase' = "ended"
        /\ UNCHANGED <<event, held, seen, timeRange, completed, requests,
                       emitted, forgone>>
    BY <1>7 DEF TakeFailure
  <2>2. TypeOK'
    BY <1>2, <1>3, <2>1 DEF TypeOK, Bookkeeping, Terminal
  <2>3. IdleEmpty' /\ EventDrained'
    BY <1>7, <2>1 DEF IdleEmpty, EventDrained, Bookkeeping, TakeFailure
  <2>4. QED
    BY <1>4, <2>2, <2>3 DEF Bookkeeping
<1>8. CASE Drained
  <2>1. TypeOK'
    BY <1>2, <1>3, <1>8 DEF TypeOK, Bookkeeping, Drained
  <2>2. IdleEmpty' /\ EventDrained'
    BY <1>8 DEF IdleEmpty, EventDrained, Bookkeeping, Drained
  <2>3. QED
    BY <1>4, <2>1, <2>2 DEF Bookkeeping
<1>9. CASE EmitRecord
  <2>1. PICK i \in event.data :
          /\ event' = [event EXCEPT !.data = @ \ {i}]
          /\ emitted' = emitted \cup {i}
          /\ seen' = seen \cup {i}
    BY <1>9 DEF EmitRecord
  <2>2. i \in Objects
    BY <1>5
  <2>3. event' \in [ref : Refs \cup {0}, data : SUBSET Objects,
                    hasMore : BOOLEAN, oldest : Nat, remaining : SUBSET Refs]
    BY <1>5, <2>1
  <2>4. TypeOK'
    BY <1>2, <1>3, <1>9, <2>1, <2>2, <2>3 DEF TypeOK, Bookkeeping, EmitRecord
  <2>5. IdleEmpty' /\ EventDrained'
    BY <1>3, <1>5, <1>9, <2>1 DEF IdleEmpty, EventDrained, EmitRecord,
       Bookkeeping
  <2>6. QED
    BY <1>4, <2>4, <2>5 DEF Bookkeeping
<1>10. CASE EmitState
  <2>1. held' \in [live : BOOLEAN, refs : SUBSET Refs]
    BY <1>5, <1>10 DEF EmitState
  <2>2. TypeOK'
    BY <1>2, <1>3, <1>10, <2>1 DEF TypeOK, Bookkeeping, EmitState
  <2>3. IdleEmpty' /\ EventDrained'
    BY <1>3, <1>10 DEF IdleEmpty, EventDrained, EmitState, Bookkeeping
  <2>4. QED
    BY <1>4, <2>2, <2>3 DEF Bookkeeping
<1>11. CASE EmitRangeComplete
  <2>1. /\ event' = NoEvent
        /\ phase' \in {"final", "await"}
        /\ forgone' \subseteq forgone \cup InScope(timeRange)
        /\ UNCHANGED <<held, seen, timeRange, status, requests, emitted>>
    BY <1>11 DEF EmitRangeComplete
  <2>2. completed' \in SUBSET Interval
    <3>1. CompletedHead \in SUBSET Interval
      <4>1. event.ref \in Refs /\ event.oldest \in Nat
        BY <1>5, <1>11 DEF EmitRangeComplete, EventDrained, Bookkeeping
      <4>2. ranges[event.ref] \in Range3
        BY <4>1 DEF Bookkeeping, TypeOK, Refs
      <4>3. /\ ranges[event.ref].gte \in Nat /\ ranges[event.ref].lt \in Nat
            /\ event.oldest + 1 \in Nat
        BY <4>1, <4>2 DEF Range3
      <4>4. QED
        BY <4>3 DEF CompletedHead, Interval
    <3>2. QED
      BY <1>11, <3>1, MergeType DEF EmitRangeComplete, Bookkeeping, TypeOK
  <2>3. forgone' \in SUBSET Objects
    BY <2>1, ScopeType DEF Bookkeeping, TypeOK
  <2>4. TypeOK'
    BY <1>2, <1>3, <1>6, <2>1, <2>2, <2>3 DEF TypeOK, Bookkeeping
  <2>5. IdleEmpty' /\ EventDrained'
    BY <2>1 DEF IdleEmpty, EventDrained, NoEvent
  <2>6. QED
    BY <1>4, <2>4, <2>5 DEF Bookkeeping
<1>12. CASE EmitFinalState
  <2>1. held' \in [live : BOOLEAN, refs : SUBSET Refs]
    BY <1>12 DEF EmitFinalState
  <2>2. TypeOK'
    BY <1>2, <1>3, <1>12, <2>1 DEF TypeOK, Bookkeeping, EmitFinalState
  <2>3. IdleEmpty' /\ EventDrained'
    BY <1>12 DEF IdleEmpty, EventDrained, Bookkeeping, EmitFinalState
  <2>4. QED
    BY <1>4, <2>2, <2>3 DEF Bookkeeping
<1>13. CASE EmitComplete
  <2>1. TypeOK'
    BY <1>2, <1>3, <1>13 DEF TypeOK, Bookkeeping, EmitComplete, Terminal
  <2>2. IdleEmpty' /\ EventDrained'
    BY <1>13 DEF IdleEmpty, EventDrained, Bookkeeping, EmitComplete
  <2>3. QED
    BY <1>4, <2>1, <2>2 DEF Bookkeeping
<1>14. QED
  BY <1>7, <1>8, <1>9, <1>10, <1>11, <1>12, <1>13

\* References into the heap stand for finitely many ranges.
LEMMA DerefType ==
  ASSUME Bookkeeping, NEW R \in SUBSET Refs
  PROVE  Deref(R) \in SUBSET Range3 /\ IsFiniteSet(Deref(R))
<1>1. ranges \in Seq(Range3) /\ Len(ranges) \in Nat
  BY DEF Bookkeeping, TypeOK
<1>2. \A x \in R : ranges[x] \in Range3
  BY <1>1 DEF Refs
<1>3. IsFiniteSet(R)
  <2>1. 1 \in Int /\ Len(ranges) \in Int
    BY <1>1
  <2>2. IsFiniteSet(1 .. Len(ranges))
    BY <2>1, FS_Interval
  <2>3. QED
    BY <2>2, FS_Subset DEF Refs
<1> DEFINE f == [x \in R |-> ranges[x]]
<1>4. f \in Surjection(R, Deref(R))
  BY DEF Surjection, Deref
<1>5. QED
  BY <1>2, <1>3, <1>4, FS_Surjection DEF Deref

\* The end of a request keeps Bookkeeping.
LEMMA EofBookkeeping ==
  ASSUME Bookkeeping, Eof
  PROVE  Bookkeeping'
<1>1. /\ stored' = [known |-> EndingKnown, accounted |-> EndingAccounted,
                    remaining |-> EndingRemaining, timeRange |-> timeRange,
                    status |-> status, completed |-> completed,
                    hasMore |-> phase # "ended"]
      /\ forgone' = forgone \cup Missed
      /\ Discard
      /\ UNCHANGED <<timeRange, status, completed, requests, emitted>>
  BY DEF Eof
<1>2. /\ held.live \in BOOLEAN /\ held.refs \in SUBSET Refs
      /\ stored.known \in BOOLEAN
      /\ stored.accounted \in Interval
      /\ stored.remaining \in SUBSET Range3
      /\ IsFiniteSet(stored.remaining)
      /\ timeRange \in Interval
      /\ status \in {"not_started", "started"} \cup Terminal
      /\ completed \in SUBSET Interval
  BY DEF Bookkeeping, TypeOK
<1>3. /\ EndingKnown \in BOOLEAN /\ EndingAccounted \in Interval
      /\ EndingRemaining \in SUBSET Range3
      /\ IsFiniteSet(EndingRemaining)
  BY <1>2, DerefType DEF EndingKnown, EndingAccounted, EndingRemaining
<1>4. stored' \in [known : BOOLEAN, accounted : Interval,
                   remaining : SUBSET Range3, timeRange : Interval,
                   status : {"not_started", "started"} \cup Terminal,
                   completed : SUBSET Interval, hasMore : BOOLEAN]
  BY <1>1, <1>2, <1>3
<1>5. Missed \subseteq Objects
  BY ScopeType DEF Missed
<1>6. TypeOK'
  <2>1. forgone' \in SUBSET Objects
    BY <1>1, <1>5 DEF Bookkeeping, TypeOK
  <2>2. /\ (event \in [ref : Refs \cup {0}, data : SUBSET Objects,
                       hasMore : BOOLEAN, oldest : Nat,
                       remaining : SUBSET Refs])'
        /\ (held \in [live : BOOLEAN, refs : SUBSET Refs])'
    BY <1>1 DEF Discard, NoEvent, NotHeld
  <2>3. phase' = "idle" /\ ranges' = <<>> /\ queue' = <<>>
        /\ inflight' = {} /\ fetched' = {} /\ seen' = {}
    BY <1>1 DEF Discard
  <2>4. ranges' \in Seq(Range3) /\ queue' \in Seq(Refs')
    BY <2>3
  <2>5. QED
    BY <1>1, <1>4, <2>1, <2>2, <2>3, <2>4 DEF TypeOK, Bookkeeping
<1>7. IsFiniteSet(stored'.remaining)
  BY <1>1, <1>3
<1>8. QED
  BY <1>1, <1>6, <1>7, DiscardFacts DEF Bookkeeping

\* A crash keeps Bookkeeping.
LEMMA CrashBookkeeping ==
  ASSUME Bookkeeping, Crash
  PROVE  Bookkeeping'
<1>1. /\ Discard
      /\ timeRange' = stored.timeRange
      /\ status' = stored.status
      /\ completed' = stored.completed
      /\ UNCHANGED <<stored, requests, emitted, forgone>>
  BY DEF Crash
<1>2. TypeOK'
  <2>1. /\ (event \in [ref : Refs \cup {0}, data : SUBSET Objects,
                       hasMore : BOOLEAN, oldest : Nat,
                       remaining : SUBSET Refs])'
        /\ (held \in [live : BOOLEAN, refs : SUBSET Refs])'
    BY <1>1 DEF Discard, NoEvent, NotHeld
  <2>2. phase' = "idle" /\ ranges' = <<>> /\ queue' = <<>>
        /\ inflight' = {} /\ fetched' = {} /\ seen' = {}
    BY <1>1 DEF Discard
  <2>3. ranges' \in Seq(Range3) /\ queue' \in Seq(Refs')
    BY <2>2
  <2>4. QED
    BY <1>1, <2>1, <2>2, <2>3 DEF TypeOK, Bookkeeping
<1>3. QED
  BY <1>1, <1>2, DiscardFacts DEF Bookkeeping

\* Every step keeps Bookkeeping.
LEMMA NextBookkeeping ==
  ASSUME Bookkeeping, [Next]_vars
  PROVE  Bookkeeping'
<1>1. ASSUME NEW tr \in TimeRanges, NewRun(tr)
      PROVE  Bookkeeping'
  <2>1. /\ tr \in Interval
        /\ phase = "idle" /\ timeRange' = tr /\ completed' = {}
        /\ requests' \in 0 .. MaxRequests
        /\ UNCHANGED <<emitted, forgone>>
    BY <1>1, ParameterAssumption DEF NewRun, Bookkeeping, TypeOK
  <2>2. CASE Begin(tr)
    BY <2>1, <2>2, BeginBookkeeping
  <2>3. CASE SilentReturn(tr, "not_started", {})
    BY <2>1, <2>3, SilentReturnBookkeeping
  <2>4. QED
    BY <1>1, <2>2, <2>3 DEF NewRun
<1>2. ASSUME Continue
      PROVE  Bookkeeping'
  <2>1. /\ timeRange \in Interval /\ completed \in SUBSET Interval
        /\ status \in {"not_started", "started"} \cup Terminal
        /\ phase = "idle"
        /\ requests' \in 0 .. MaxRequests
        /\ UNCHANGED <<timeRange, completed, emitted, forgone>>
    BY <1>2, ParameterAssumption DEF Continue, Bookkeeping, TypeOK
  <2>2. CASE Begin(timeRange)
    BY <2>1, <2>2, BeginBookkeeping
  <2>3. CASE SilentReturn(timeRange, status, completed)
    BY <2>1, <2>3, SilentReturnBookkeeping
  <2>4. QED
    BY <1>2, <2>2, <2>3 DEF Continue
<1>3. CASE Work
  BY <1>3, FetchPageBookkeeping, TakePageBookkeeping, LoopBookkeeping DEF Work
<1>4. ASSUME NEW x \in inflight, NEW failure \in {"error", "skip"},
             FetchRejects(x, failure)
      PROVE  Bookkeeping'
  BY <1>4, FetchRejectsBookkeeping
<1>5. CASE UNCHANGED vars
  <2>1. UNCHANGED <<phase, ranges, queue, inflight, fetched, event, held, seen,
                    timeRange, status, completed, stored, requests, emitted,
                    forgone>>
    BY <1>5 DEF vars, request
  <2>2. TypeOK'
    BY <2>1 DEF Bookkeeping, TypeOK, Refs, Response
  <2>3. IdleEmpty' /\ EventDrained'
    BY <2>1 DEF Bookkeeping, IdleEmpty, EventDrained, Refs
  <2>4. QED
    BY <2>1, <2>2, <2>3, QueueUnchanged DEF Bookkeeping
<1>6. QED
  BY <1>1, <1>2, <1>3, <1>4, <1>5, EofBookkeeping, CrashBookkeeping DEF Next

(***************************************************************************)
(* The variables of a request and of the stored checkpoint keep their      *)
(* types, and every reference on the queue, in flight, in a page event or  *)
(* in the engine's state points into the heap of ranges.                   *)
(***************************************************************************)
THEOREM TypesCorrect == Spec => []TypeOK
<1>1. Init => Bookkeeping
  BY InitBookkeeping
<1>2. Bookkeeping /\ [Next]_vars => Bookkeeping'
  BY NextBookkeeping
<1>3. Bookkeeping => TypeOK
  BY DEF Bookkeeping
<1>4. QED
  BY <1>1, <1>2, <1>3, PTL DEF Spec

-----------------------------------------------------------------------------
(***************************************************************************)
(* Coverage: no object of a time_range is lost sight of.                   *)
(***************************************************************************)

\* Delivered, given up, or in a page the request holds.
Settled == emitted \cup forgone \cup Undelivered

\* Every object of tr is in K or within reach of one of the references R.
CoveredBy(tr, K, heap, R) ==
  \A i \in InScope(tr) : i \in K \/ \E y \in R : i \in Reach(heap[y])

QueueCovers ==
  phase # "idle" => CoveredBy(timeRange, Settled, ranges, OpenRefs)

\* The `remaining' list of the page event, for as long as iterateStream has
\* not passed it on.
EventCovers ==
  phase = "records" =>
    CoveredBy(timeRange, Settled, ranges, event.remaining)

\* The engine's state for the stream.
HeldCovers ==
  held.live => CoveredBy(timeRange, Settled, ranges, held.refs)

StoredCovers ==
  stored.known =>
    InScope(stored.accounted) \subseteq
      emitted \cup forgone \cup ReachAll(stored.remaining)

FinalCovers ==
  phase \in {"final", "complete"} =>
    InScope(timeRange) \subseteq emitted \cup forgone

StoredComplete ==
  stored.status = "completed" =>
    InScope(stored.timeRange) \subseteq emitted \cup forgone

Coverage ==
  /\ QueueCovers
  /\ EventCovers
  /\ HeldCovers
  /\ StoredCovers
  /\ FinalCovers
  /\ CompleteIsTruthful
  /\ StoredComplete

\* What reach loses and the delivered set gains stays covered.
LEMMA CoveredStep ==
  ASSUME NEW tr, NEW K, NEW h, NEW R, CoveredBy(tr, K, h, R),
         NEW K2, NEW h2, NEW R2, K \subseteq K2,
         \A y \in R, i \in Objects :
           i \in Reach(h[y]) => i \in K2 \/ \E z \in R2 : i \in Reach(h2[z])
  PROVE  CoveredBy(tr, K2, h2, R2)
<1>1. ASSUME NEW i \in InScope(tr)
      PROVE  i \in K2 \/ \E z \in R2 : i \in Reach(h2[z])
  <2>1. i \in Objects
    BY ScopeType
  <2>2. i \in K \/ \E y \in R : i \in Reach(h[y])
    BY DEF CoveredBy
  <2>3. QED
    BY <2>1, <2>2
<1>2. QED
  BY <1>1 DEF CoveredBy

\* Coverage as an inclusion of sets.
LEMMA CoveredSet ==
  ASSUME NEW tr, NEW K, NEW h, NEW R
  PROVE  CoveredBy(tr, K, h, R) <=>
           InScope(tr) \subseteq K \cup ReachAll({h[y] : y \in R})
<1>1. \A i : i \in ReachAll({h[y] : y \in R}) <=> \E y \in R : i \in Reach(h[y])
  BY DEF ReachAll
<1>2. QED
  BY <1>1 DEF CoveredBy

(***************************************************************************)
(* A page is a prefix of what its range reaches, so its oldest object, as  *)
(* the cursor, leaves exactly the rest in reach.                           *)
(***************************************************************************)
LEMMA PageIsPrefix ==
  ASSUME NEW r, NEW i \in Reach(r), i \notin Page(r), NEW j \in Page(r)
  PROVE  i > j
<1> DEFINE upTo(k) == {m \in Reach(r) : m <= k}
<1>1. i \in Nat /\ j \in Nat /\ Reach(r) \subseteq Nat
  BY ReachType, ObjectsType
<1>2. SUFFICES ASSUME i <= j PROVE FALSE
  BY <1>1
<1>3. IsFiniteSet(upTo(j))
  <2>1. IsFiniteSet(Objects)
    <3>1. 1 \in Int /\ Len(Created) \in Int
      BY ObjectsType
    <3>2. QED
      BY <3>1, FS_Interval DEF Objects
  <2>2. upTo(j) \subseteq Objects
    BY ReachType
  <2>3. QED
    BY <2>1, <2>2, FS_Subset
<1>4. upTo(i) \subseteq upTo(j)
  BY <1>1, <1>2
<1>5. /\ IsFiniteSet(upTo(i))
      /\ Cardinality(upTo(i)) <= Cardinality(upTo(j))
  BY <1>3, <1>4, FS_Subset
<1>6. Cardinality(upTo(i)) \in Nat /\ Cardinality(upTo(j)) \in Nat
  BY <1>3, <1>5, FS_CardinalityType
<1>7. Cardinality(upTo(j)) <= PageSize
  BY DEF Page
<1>8. PageSize \in Nat
  BY ParameterAssumption
<1>9. Cardinality(upTo(i)) <= PageSize
  <2> HIDE DEF upTo
  <2>1. QED
    BY <1>5, <1>6, <1>7, <1>8
<1>10. i \in Page(r)
  BY <1>9 DEF Page
<1>11. QED
  BY <1>10

\* A fetch moves objects from the reach of its range into its page.
LEMMA FetchReach ==
  ASSUME Bookkeeping, NEW x \in inflight, FetchPageForRange(x),
         NEW y \in Refs, NEW i \in Reach(ranges[y])
  PROVE  i \in Undelivered' \/
           (/\ i \in Reach(ranges'[y])
            /\ y = x => \E f \in fetched' : f.ref = x /\ f.hasMore)
<1>1. PICK last \in Nat, f \in Response :
        /\ last \in Page(ranges[x])
             \/ (Page(ranges[x]) = {} /\ last = NoCursor)
        /\ f.ref = x /\ f.data = Page(ranges[x])
        /\ f.hasMore = (Reach(ranges[x]) # Page(ranges[x]))
        /\ fetched' = fetched \cup {f}
        /\ ranges' = [ranges EXCEPT ![x].cursor =
                        IF f.hasMore THEN last ELSE NoCursor]
  BY FetchFacts
<1>2. f.data \subseteq Undelivered'
  BY <1>1 DEF Undelivered
<1>3. ranges \in Seq(Range3) /\ x \in 1 .. Len(ranges) /\ y \in 1 .. Len(ranges)
  BY DEF Bookkeeping, TypeOK, Refs
<1>4. CASE y # x
  BY <1>1, <1>3, <1>4
<1>5. CASE y = x /\ i \in Page(ranges[x])
  BY <1>1, <1>2, <1>5
<1>6. CASE y = x /\ i \notin Page(ranges[x])
  <2>1. f.hasMore
    BY <1>1, <1>6
  <2>2. ranges'[x] = [ranges[x] EXCEPT !.cursor = last]
    BY <1>1, <1>3, <2>1
  <2>3. /\ ranges'[x].gte = ranges[x].gte /\ ranges'[x].lt = ranges[x].lt
        /\ ranges'[x].cursor = last
    BY <1>3, <2>2 DEF Range3
  <2>4. i \in Objects /\ i \in Nat \ {0}
    BY ReachType, ObjectsType
  <2>5. i > last
    <3>1. CASE last \in Page(ranges[x])
      BY <1>6, <3>1, PageIsPrefix
    <3>2. CASE last = NoCursor
      BY <2>4, <3>2 DEF NoCursor
    <3>3. QED
      BY <1>1, <3>1, <3>2
  <2>6. i \in Reach(ranges'[x])
    BY <1>6, <2>3, <2>4, <2>5 DEF Reach, InInterval
  <2>7. QED
    BY <1>1, <1>6, <2>1, <2>6
<1>7. QED
  BY <1>4, <1>5, <1>6

(***************************************************************************)
(* The children of a split range reach everything their parent reached.    *)
(***************************************************************************)
LEMMA SplitReach ==
  ASSUME Bookkeeping, NEW f \in fetched, Split(f),
         NEW i \in Reach(ranges[f.ref])
  PROVE  \E k \in 1 .. Len(NewRanges(f)) : i \in Reach(NewRanges(f)[k])
<1> DEFINE r == ranges[f.ref]
           newEnd == f.lastObserved
           c == SegmentCount(r, newEnd, SubdivisionFactor)
<1>1. /\ f.ref \in Refs /\ newEnd \in Nat
      /\ r \in Range3
  BY DEF Bookkeeping, TypeOK, Response, Refs
<1>2. /\ Splits(r, newEnd, SubdivisionFactor)
      /\ r.cursor \in Objects
      /\ newEnd = Created[r.cursor]
  BY DEF Split, Bookkeeping, ResponseCursor
<1>3. SubdivisionFactor \in Nat \ {0}
  BY ParameterAssumption
<1>4. /\ i \in Objects /\ i \in Nat /\ r.cursor \in Nat
      /\ i > r.cursor
      /\ Created[i] \in Nat
      /\ r.gte <= Created[i]
  BY <1>2, ObjectsType DEF Reach, InInterval
<1>5. Created[i] <= newEnd
  BY <1>2, <1>4, ObjectsType
<1>6. PICK k \in 1 .. c :
        InInterval(Created[i], Segment(r, newEnd, SubdivisionFactor, k))
  <2> HIDE DEF r, newEnd
  <2>1. QED
    BY <1>1, <1>2, <1>3, <1>4, <1>5, SegmentsCover
<1>7. Segment(r, newEnd, SubdivisionFactor, k).cursor \in {NoCursor, r.cursor}
  BY SegmentCursor
<1>8. i \in Reach(Segment(r, newEnd, SubdivisionFactor, k))
  <2>1. i > Segment(r, newEnd, SubdivisionFactor, k).cursor
    BY <1>4, <1>7, ObjectsType DEF NoCursor
  <2>2. QED
    BY <1>4, <1>6, <2>1 DEF Reach
<1>9. /\ NewRanges(f) = Children(r, newEnd, SubdivisionFactor)
      /\ Len(NewRanges(f)) = c
  BY <1>1, <1>2, <1>3, ChildrenType DEF NewRanges
<1>10. NewRanges(f)[k] = Segment(r, newEnd, SubdivisionFactor, k)
  BY <1>9 DEF Children
<1>11. QED
  BY <1>8, <1>9, <1>10

(***************************************************************************)
(* The ranges a request starts from reach everything of its time_range     *)
(* that the stored checkpoint does not account for, whether the time_range *)
(* is the stored one or has moved.                                         *)
(***************************************************************************)
LEMMA ResumeReach ==
  ASSUME Bookkeeping, StoredCovers, NEW tr \in Interval,
         NEW i \in InScope(tr), i \notin emitted \cup forgone
  PROVE  \E r \in Resume(tr) : i \in Reach(r)
<1>1. /\ stored.remaining \in SUBSET Range3 /\ stored.accounted \in Interval
  BY DEF Bookkeeping, TypeOK
<1>2. /\ i \in Objects /\ i \in Nat \ {0} /\ Created[i] \in Nat
      /\ InInterval(Created[i], tr)
  BY ObjectsType DEF InScope
<1>3. CASE ~stored.known
  <2>1. Resume(tr) = {Fresh(tr.gte, tr.lt)}
    BY <1>3 DEF Resume
  <2>2. i \in Reach(Fresh(tr.gte, tr.lt))
    BY <1>2 DEF Reach, Fresh, InInterval, NoCursor
  <2>3. QED
    BY <2>1, <2>2
<1>4. ASSUME stored.known, i \in InScope(stored.accounted)
      PROVE  \E r \in stored.remaining : i \in Reach(r)
  BY <1>4 DEF StoredCovers, ReachAll
<1>5. CASE stored.known /\ stored.accounted = tr
  BY <1>4, <1>5 DEF Resume
<1>6. CASE stored.known /\ stored.accounted # tr
  <2>1. Resume(tr) = ReconcileRanges(stored.remaining, stored.accounted, tr)
    BY <1>6 DEF Resume
  <2>2. CASE InInterval(Created[i], stored.accounted)
    <3>1. PICK r \in stored.remaining : i \in Reach(r)
      BY <1>2, <1>4, <1>6, <2>2 DEF InScope
    <3>2. InInterval(Created[i], r) /\ i > r.cursor
      BY <3>1 DEF Reach
    <3>3. PICK t \in Resume(tr) :
            InInterval(Created[i], t) /\ t.cursor \in {NoCursor, r.cursor}
      BY <1>1, <1>2, <2>1, <3>2, ReconcileKeepsOpen
    <3>4. i \in Reach(t)
      BY <1>2, <3>2, <3>3 DEF Reach, NoCursor
    <3>5. QED
      BY <3>3, <3>4
  <2>3. CASE ~InInterval(Created[i], stored.accounted)
    <3>1. PICK t \in Resume(tr) :
            InInterval(Created[i], t) /\ t.cursor = NoCursor
      BY <1>1, <1>2, <2>1, <2>3, ReconcileAddsUncovered
    <3>2. i \in Reach(t)
      BY <1>2, <3>1 DEF Reach, NoCursor
    <3>3. QED
      BY <3>1, <3>2
  <2>4. QED
    BY <2>2, <2>3
<1>7. QED
  BY <1>3, <1>5, <1>6

-----------------------------------------------------------------------------
(***************************************************************************)
(* Every step keeps Coverage.                                              *)
(***************************************************************************)
LEMMA InitCoverage == Init => Coverage
  BY DEF Init, Coverage, QueueCovers, EventCovers, HeldCovers, StoredCovers,
         FinalCovers, CompleteIsTruthful, StoredComplete, NotHeld

\* What was covered stays covered when the request changes and the client's
\* copy does not.
LEMMA StoredKept ==
  ASSUME Coverage, UNCHANGED stored,
         emitted \subseteq emitted', forgone \subseteq forgone'
  PROVE  StoredCovers' /\ StoredComplete'
<1>1. StoredCovers'
  BY DEF Coverage, StoredCovers
<1>2. StoredComplete'
  BY DEF Coverage, StoredComplete
<1>3. QED
  BY <1>1, <1>2

\* Beginning a request establishes its Coverage.
LEMMA BeginCoverage ==
  ASSUME Bookkeeping, Coverage, NEW tr \in Interval, Begin(tr),
         phase = "idle", timeRange' = tr, UNCHANGED <<emitted, forgone>>
  PROVE  Coverage'
<1>1. /\ fetched = {} /\ event = NoEvent /\ held = NotHeld
  BY DEF Bookkeeping, IdleEmpty
<1>2. /\ phase' = "await" /\ status' = "started"
      /\ UNCHANGED <<fetched, event, held, stored>>
  BY DEF Begin
<1>3. /\ RangeOf(ranges') = Resume(tr)
      /\ ranges' \in Seq(Range3)
      /\ inflight' \cup RangeOf(queue') = Refs'
  BY BeginFacts
<1>4. QueueCovers'
  <2>1. OpenRefs' = Refs'
    BY <1>1, <1>2, <1>3 DEF OpenRefs, Answered
  <2>2. ASSUME NEW i \in InScope(tr), i \notin emitted \cup forgone
        PROVE  \E y \in Refs' : i \in Reach(ranges'[y])
    <3>1. PICK r \in RangeOf(ranges') : i \in Reach(r)
      BY <1>3, <2>2, ResumeReach DEF Coverage
    <3>2. DOMAIN ranges' = Refs'
      BY <1>3, LenProperties DEF Refs
    <3>3. QED
      BY <3>1, <3>2 DEF RangeOf
  <2>3. emitted \cup forgone \subseteq Settled'
    BY DEF Settled
  <2>4. CoveredBy(tr, Settled', ranges', OpenRefs')
    BY <2>1, <2>2, <2>3 DEF CoveredBy
  <2>5. QED
    BY <2>4 DEF QueueCovers
<1>5. EventCovers' /\ HeldCovers' /\ FinalCovers' /\ CompleteIsTruthful'
  BY <1>1, <1>2 DEF EventCovers, HeldCovers, FinalCovers, CompleteIsTruthful,
     NotHeld
<1>6. QED
  BY <1>2, <1>4, <1>5, StoredKept DEF Coverage

\* A silent return keeps Coverage.
LEMMA SilentReturnCoverage ==
  ASSUME Bookkeeping, Coverage, NEW tr \in Interval, NEW st, NEW done,
         SilentReturn(tr, st, done), phase = "idle",
         st # "completed", timeRange' = tr, UNCHANGED <<emitted, forgone>>
  PROVE  Coverage'
<1>1. /\ status' = st
      /\ stored' = [stored EXCEPT !.hasMore = FALSE, !.timeRange = tr,
                                  !.status = st, !.completed = done]
      /\ UNCHANGED <<phase, held>>
  BY DEF SilentReturn, request
<1>2. /\ stored'.known = stored.known
      /\ stored'.accounted = stored.accounted
      /\ stored'.remaining = stored.remaining
      /\ stored'.status = st
  BY <1>1 DEF Bookkeeping, TypeOK
<1>3. held = NotHeld
  BY DEF Bookkeeping, IdleEmpty
<1>4. StoredCovers'
  BY <1>2 DEF Coverage, StoredCovers
<1>5. StoredComplete' /\ CompleteIsTruthful'
  BY <1>1, <1>2 DEF StoredComplete, CompleteIsTruthful
<1>6. QueueCovers' /\ EventCovers' /\ HeldCovers' /\ FinalCovers'
  BY <1>1, <1>3 DEF QueueCovers, EventCovers, HeldCovers, FinalCovers, NotHeld
<1>7. QED
  BY <1>4, <1>5, <1>6 DEF Coverage

\* The arrival of a page keeps Coverage.
LEMMA FetchPageCoverage ==
  ASSUME Bookkeeping, Coverage, NEW x \in inflight, FetchPageForRange(x)
  PROVE  Coverage'
<1>1. UNCHANGED <<phase, queue, inflight, event, held, seen, timeRange,
                  status, completed, stored, requests, emitted, forgone>>
  BY DEF FetchPageForRange
<1>2. fetched \subseteq fetched'
  BY FetchFacts
<1>3. Settled \subseteq Settled'
  BY <1>1, <1>2 DEF Settled, Undelivered
<1>4. Undelivered' \subseteq Settled'
  BY DEF Settled
<1>5. /\ event.remaining \subseteq Refs
      /\ held.refs \subseteq Refs
      /\ OpenRefs \subseteq Refs
  <2>1. RangeOf(queue) \subseteq Refs
    BY RangeType DEF Bookkeeping, TypeOK
  <2>2. \A f \in fetched : f.ref \in Refs
    BY DEF Bookkeeping, TypeOK, Response
  <2>3. QED
    BY <2>1, <2>2 DEF Bookkeeping, TypeOK, OpenRefs
<1>6. ASSUME NEW R \in SUBSET Refs,
             CoveredBy(timeRange, Settled, ranges, R)
      PROVE  CoveredBy(timeRange, Settled', ranges', R)
  <2>1. \A y \in R, i \in Objects : i \in Reach(ranges[y]) =>
          i \in Settled' \/ \E z \in R : i \in Reach(ranges'[z])
    BY <1>4, FetchReach
  <2>2. QED
    BY <1>3, <1>6, <2>1, CoveredStep
<1>7. EventCovers' /\ HeldCovers'
  BY <1>1, <1>5, <1>6 DEF Coverage, EventCovers, HeldCovers
<1>8. QueueCovers'
  <2>1. x \notin Answered
    BY DEF FetchPageForRange
  <2>2. \A y \in OpenRefs : y # x => y \in OpenRefs'
    <3>1. PICK f \in Response : f.ref = x /\ fetched' = fetched \cup {f}
      BY FetchFacts
    <3>2. QED
      BY <1>1, <3>1 DEF OpenRefs, Answered
  <2>3. (\E f \in fetched' : f.ref = x /\ f.hasMore) => x \in OpenRefs'
    BY DEF OpenRefs
  <2>4. ASSUME NEW y \in OpenRefs, NEW i \in Reach(ranges[y])
        PROVE  i \in Settled' \/ \E z \in OpenRefs' : i \in Reach(ranges'[z])
    BY <1>4, <1>5, <2>2, <2>3, <2>4, FetchReach
  <2>5. ASSUME CoveredBy(timeRange, Settled, ranges, OpenRefs)
        PROVE  CoveredBy(timeRange, Settled', ranges', OpenRefs')
    BY <1>3, <2>4, <2>5, CoveredStep
  <2>6. QED
    BY <1>1, <2>5 DEF Coverage, QueueCovers
<1>9. FinalCovers' /\ CompleteIsTruthful'
  BY <1>1 DEF Coverage, FinalCovers, CompleteIsTruthful
<1>10. QED
  BY <1>1, <1>7, <1>8, <1>9, StoredKept DEF Coverage

\* A failed fetch keeps Coverage.
LEMMA FetchRejectsCoverage ==
  ASSUME Bookkeeping, Coverage, NEW x \in inflight,
         NEW failure \in {"error", "skip"}, FetchRejects(x, failure)
  PROVE  Coverage'
<1> DEFINE f == [ref |-> x, failure |-> failure, data |-> {},
                 hasMore |-> FALSE, lastObserved |-> NoObservation]
<1>1. /\ fetched' = fetched \cup {f}
      /\ UNCHANGED <<phase, ranges, queue, inflight, event, held, seen,
                     timeRange, status, completed, stored, requests, emitted,
                     forgone>>
  BY DEF FetchRejects
<1>2. f.ref = x /\ f.failure # "none"
  OBVIOUS
<1> HIDE DEF f
<1>3. Settled \subseteq Settled'
  BY <1>1 DEF Settled, Undelivered
<1>4. OpenRefs \subseteq OpenRefs'
  <2>1. Answered' = Answered \cup {x}
    BY <1>1, <1>2 DEF Answered
  <2>2. {g.ref : g \in {h \in fetched' : h.hasMore \/ h.failure # "none"}}
          = {g.ref : g \in {h \in fetched : h.hasMore \/ h.failure # "none"}}
              \cup {x}
    BY <1>1, <1>2
  <2>3. QED
    BY <1>1, <2>1, <2>2 DEF OpenRefs
<1>5. ASSUME NEW R, NEW R2, R \subseteq R2,
             CoveredBy(timeRange, Settled, ranges, R)
      PROVE  CoveredBy(timeRange, Settled', ranges, R2)
  BY <1>3, <1>5, CoveredStep
<1>6. QueueCovers'
  BY <1>1, <1>4, <1>5 DEF Coverage, QueueCovers
<1>7. EventCovers' /\ HeldCovers'
  BY <1>1, <1>5 DEF Coverage, EventCovers, HeldCovers
<1>8. FinalCovers' /\ CompleteIsTruthful'
  BY <1>1 DEF Coverage, FinalCovers, CompleteIsTruthful
<1>9. QED
  BY <1>1, <1>6, <1>7, <1>8, StoredKept DEF Coverage

\* Taking a page keeps Coverage, split or not.
LEMMA TakePageCoverage ==
  ASSUME Bookkeeping, Coverage, NEW f \in fetched, TakePage(f)
  PROVE  Coverage'
<1>1. /\ phase = "await" /\ f.failure = "none"
      /\ fetched' = fetched \ {f}
      /\ phase' = "records"
      /\ event'.data = f.data
      /\ event'.remaining = SnapshotRemaining(inflight', queue')
      /\ UNCHANGED <<held, seen, timeRange, status, completed, stored,
                     requests, emitted, forgone>>
  BY DEF TakePage
<1>2. /\ ranges' = ranges \o NewRanges(f)
      /\ inflight \ {f.ref} \subseteq inflight'
      /\ inflight' \cup RangeOf(queue') =
           (inflight \ {f.ref}) \cup RangeOf(queue) \cup RangeOf(Requeued(f))
  BY TakePageFacts
<1>3. \A y \in Refs : ranges'[y] = ranges[y]
  BY <1>2, HeapGrows
<1>4. Settled \subseteq Settled'
  <2>1. event.data = {}
    BY <1>1 DEF Bookkeeping, EventDrained
  <2>2. Undelivered \subseteq Undelivered'
    BY <1>1, <2>1 DEF Undelivered
  <2>3. QED
    BY <1>1, <2>2 DEF Settled
<1>5. /\ Answered \subseteq inflight
      /\ Answered' = Answered \ {f.ref}
      /\ RangeOf(queue) \cap inflight = {}
      /\ inflight \subseteq Refs /\ RangeOf(queue) \subseteq Refs
  <2>1. \A g \in fetched : g.ref = f.ref => g = f
    BY DEF Bookkeeping, ResponsesPending
  <2>2. Answered' = Answered \ {f.ref}
    BY <1>1, <2>1 DEF Answered
  <2>3. Answered \subseteq inflight
    BY DEF Answered, Bookkeeping, ResponsesPending
  <2>4. QED
    BY <2>2, <2>3, RangeType DEF Bookkeeping, QueueDistinct, TypeOK
<1>6. ASSUME NEW y \in inflight' \cup RangeOf(queue'), y \notin Answered'
      PROVE  y \in OpenRefs'
  BY <1>6 DEF OpenRefs
<1>7. ASSUME NEW y \in OpenRefs, NEW i \in Reach(ranges[y])
      PROVE  \E z \in OpenRefs' : i \in Reach(ranges'[z])
  <2>1. CASE y \in RangeOf(queue)
    <3>1. y \in inflight' \cup RangeOf(queue') /\ y \notin Answered'
      BY <1>2, <1>5, <2>1
    <3>2. QED
      BY <1>3, <1>5, <1>6, <1>7, <2>1, <3>1
  <2>2. CASE y \in inflight \ Answered
    <3>1. f.ref \in Answered
      BY DEF Answered
    <3>2. y \in inflight' /\ y \notin Answered'
      BY <1>2, <1>5, <2>2, <3>1
    <3>3. QED
      BY <1>3, <1>5, <1>6, <1>7, <2>2, <3>2
  <2>3. CASE \E g \in fetched \ {f} : y = g.ref /\ (g.hasMore \/ g.failure # "none")
    <3>1. y \in OpenRefs'
      BY <1>1, <2>3 DEF OpenRefs
    <3>2. y \in Refs
      BY <2>3 DEF Bookkeeping, TypeOK, Response
    <3>3. QED
      BY <1>3, <1>7, <3>1, <3>2
  <2>4. CASE y = f.ref /\ f.hasMore /\ ~Split(f)
    <3>1. RangeOf(Requeued(f)) = {f.ref}
      BY <1>2, <2>4, RequeuedFacts
    <3>2. y \in inflight' \cup RangeOf(queue') /\ y \notin Answered'
      BY <1>2, <1>5, <2>4, <3>1
    <3>3. y \in Refs
      BY <2>4 DEF Bookkeeping, TypeOK, Response
    <3>4. QED
      BY <1>3, <1>6, <1>7, <3>2, <3>3
  <2>5. CASE y = f.ref /\ Split(f)
    <3>1. PICK k \in 1 .. Len(NewRanges(f)) : i \in Reach(NewRanges(f)[k])
      BY <1>7, <2>5, SplitReach
    <3>2. ranges'[Len(ranges) + k] = NewRanges(f)[k]
      BY <1>2, HeapGrows
    <3>3. Len(ranges) + k \in inflight' \cup RangeOf(queue')
      <4>1. RangeOf(Requeued(f)) =
              {Len(ranges) + j : j \in 1 .. Len(NewRanges(f))}
        BY <1>2, <2>5, RequeuedFacts
      <4>2. Len(ranges) + k \in RangeOf(Requeued(f))
        BY <4>1
      <4>3. QED
        BY <1>2, <4>2
    <3>4. Len(ranges) + k \notin Refs
      <4>1. Len(ranges) \in Nat /\ k \in Nat \ {0}
        BY HeapGrows
      <4>2. QED
        BY <4>1 DEF Refs
    <3>5. Len(ranges) + k \notin Answered'
      BY <1>5, <3>4
    <3>6. QED
      BY <1>6, <3>1, <3>2, <3>3, <3>5
  <2>6. QED
    BY <1>1, <2>1, <2>2, <2>3, <2>4, <2>5 DEF OpenRefs
<1>8. QueueCovers'
  <2>1. CoveredBy(timeRange, Settled, ranges, OpenRefs)
    BY <1>1 DEF Coverage, QueueCovers
  <2>2. CoveredBy(timeRange, Settled', ranges', OpenRefs')
    BY <1>4, <1>7, <2>1, CoveredStep
  <2>3. QED
    BY <1>1, <2>2 DEF QueueCovers
<1>9. EventCovers'
  <2>1. CoveredBy(timeRange, Settled', ranges', OpenRefs')
    BY <1>1, <1>8 DEF QueueCovers
  <2>2. OpenRefs' \subseteq event'.remaining
    <3>1. \A g \in fetched' : g.ref \in inflight'
      BY <1>1, <1>2, <1>5 DEF Answered, Bookkeeping, ResponsesPending
    <3>2. QED
      BY <1>1, <3>1 DEF OpenRefs, SnapshotRemaining
  <2>3. CoveredBy(timeRange, Settled', ranges', event'.remaining)
    BY <2>1, <2>2, CoveredStep
  <2>4. QED
    BY <1>1, <2>3 DEF EventCovers
<1>10. HeldCovers'
  <2>1. held.refs \subseteq Refs
    BY DEF Bookkeeping, TypeOK
  <2>2. ASSUME CoveredBy(timeRange, Settled, ranges, held.refs)
        PROVE  CoveredBy(timeRange, Settled', ranges', held.refs)
    <3>1. \A y \in held.refs : ranges'[y] = ranges[y]
      BY <1>3, <2>1
    <3>2. QED
      BY <1>4, <2>2, <3>1, CoveredStep
  <2>3. QED
    BY <1>1, <2>2 DEF Coverage, HeldCovers
<1>11. FinalCovers' /\ CompleteIsTruthful'
  BY <1>1 DEF Coverage, FinalCovers, CompleteIsTruthful
<1>12. QED
  BY <1>1, <1>8, <1>9, <1>10, <1>11, StoredKept DEF Coverage

\* The steps of the message loop keep Coverage.
LEMMA LoopCoverage ==
  ASSUME Bookkeeping, Coverage,
         \/ \E f \in fetched : TakeFailure(f)
         \/ Drained
         \/ EmitRecord \/ EmitState \/ EmitRangeComplete
         \/ EmitFinalState \/ EmitComplete
  PROVE  Coverage'
<1>1. /\ UNCHANGED <<ranges, queue, inflight, fetched, timeRange, stored>>
      /\ emitted \subseteq emitted' /\ forgone \subseteq forgone'
  BY DEF TakeFailure, Drained, EmitRecord, EmitState, EmitRangeComplete,
         EmitFinalState, EmitComplete
<1>2. phase # "idle"
  BY DEF TakeFailure, Drained, EmitRecord, EmitState, EmitRangeComplete,
         EmitFinalState, EmitComplete
<1>3. Settled \subseteq Settled'
  <2>1. CASE EmitRecord
    <3>1. PICK i \in event.data :
            /\ event' = [event EXCEPT !.data = @ \ {i}]
            /\ emitted' = emitted \cup {i}
      BY <2>1 DEF EmitRecord
    <3>2. event.data \subseteq event'.data \cup {i}
      BY <3>1 DEF Bookkeeping, TypeOK
    <3>3. QED
      BY <1>1, <3>1, <3>2 DEF Settled, Undelivered
  <2>2. CASE EmitRangeComplete
    <3>1. event.data = {}
      BY <2>2 DEF EmitRangeComplete, Bookkeeping, EventDrained
    <3>2. QED
      BY <1>1, <3>1 DEF Settled, Undelivered
  <2>3. CASE UNCHANGED event
    BY <1>1, <2>3 DEF Settled, Undelivered
  <2>4. QED
    BY <2>1, <2>2, <2>3 DEF TakeFailure, Drained, EmitState, EmitFinalState,
       EmitComplete
<1>4. OpenRefs' = OpenRefs
  BY <1>1 DEF OpenRefs, Answered
<1>5. ASSUME NEW R, CoveredBy(timeRange, Settled, ranges, R)
      PROVE  CoveredBy(timeRange, Settled', ranges, R)
  BY <1>3, <1>5, CoveredStep
<1>6. QueueCovers'
  BY <1>1, <1>2, <1>4, <1>5 DEF Coverage, QueueCovers
<1>7. EventCovers'
  <2>1. CASE EmitRecord
    <3>1. phase = "records" /\ event'.remaining = event.remaining
      BY <2>1 DEF EmitRecord, Bookkeeping, TypeOK
    <3>2. QED
      BY <1>1, <1>5, <3>1 DEF Coverage, EventCovers
  <2>2. CASE ~EmitRecord
    <3>1. phase' # "records"
      BY <2>2 DEF TakeFailure, Drained, EmitState, EmitRangeComplete,
         EmitFinalState, EmitComplete
    <3>2. QED
      BY <3>1 DEF EventCovers
  <2>3. QED
    BY <2>1, <2>2
<1>8. HeldCovers'
  <2>1. CASE EmitState
    <3>1. phase = "records" /\ held' = [live |-> TRUE, refs |-> event.remaining]
      BY <2>1 DEF EmitState
    <3>2. CoveredBy(timeRange, Settled', ranges, event.remaining)
      BY <1>5, <3>1 DEF Coverage, EventCovers
    <3>3. QED
      BY <1>1, <3>1, <3>2 DEF HeldCovers
  <2>2. CASE EmitFinalState
    <3>1. phase = "final" /\ held' = [live |-> TRUE, refs |-> {}]
      BY <2>2 DEF EmitFinalState
    <3>2. InScope(timeRange) \subseteq Settled'
      BY <1>1, <3>1 DEF Coverage, FinalCovers, Settled
    <3>3. CoveredBy(timeRange, Settled', ranges, {})
      BY <3>2 DEF CoveredBy
    <3>4. QED
      BY <1>1, <3>1, <3>3 DEF HeldCovers
  <2>3. CASE UNCHANGED held
    BY <1>1, <1>5, <2>3 DEF Coverage, HeldCovers
  <2>4. QED
    BY <2>1, <2>2, <2>3 DEF TakeFailure, Drained, EmitRecord,
       EmitRangeComplete, EmitComplete
<1>9. FinalCovers'
  <2>1. CASE Drained
    <3>1. /\ phase = "await" /\ inflight = {} /\ phase' = "final"
          /\ UNCHANGED <<emitted, forgone>>
      BY <2>1 DEF Drained
    <3>2. /\ fetched = {} /\ queue = <<>> /\ event.data = {}
      BY <3>1 DEF Bookkeeping, ResponsesPending, QueueWaits, EventDrained
    <3>3. RangeOf(queue) = {}
      BY <3>2 DEF RangeOf
    <3>4. OpenRefs = {} /\ Settled = emitted \cup forgone
      BY <3>1, <3>2, <3>3 DEF OpenRefs, Settled, Undelivered
    <3>5. CoveredBy(timeRange, Settled, ranges, {})
      BY <3>1, <3>4 DEF Coverage, QueueCovers
    <3>6. InScope(timeRange) \subseteq emitted \cup forgone
      BY <3>4, <3>5 DEF CoveredBy
    <3>7. QED
      BY <1>1, <3>1, <3>6 DEF FinalCovers
  <2>2. CASE EmitRangeComplete
    <3>1. \/ phase' = "await"
          \/ forgone' = forgone \cup (InScope(timeRange) \ emitted)
      BY <2>2 DEF EmitRangeComplete
    <3>2. QED
      BY <1>1, <3>1 DEF FinalCovers
  <2>3. CASE EmitFinalState
    BY <1>1, <2>3 DEF Coverage, FinalCovers, EmitFinalState
  <2>4. CASE ~Drained /\ ~EmitRangeComplete /\ ~EmitFinalState
    <3>1. phase' \notin {"final", "complete"}
      BY <2>4 DEF TakeFailure, EmitRecord, EmitState, EmitComplete
    <3>2. QED
      BY <3>1 DEF FinalCovers
  <2>5. QED
    BY <2>1, <2>2, <2>3, <2>4
<1>10. CompleteIsTruthful'
  <2>1. CASE EmitComplete
    BY <1>1, <2>1 DEF Coverage, FinalCovers, CompleteIsTruthful, EmitComplete
  <2>2. CASE \E f \in fetched : TakeFailure(f)
    <3>1. status' # "completed"
      BY <2>2 DEF TakeFailure
    <3>2. QED
      BY <3>1 DEF CompleteIsTruthful
  <2>3. CASE UNCHANGED status
    BY <1>1, <2>3 DEF Coverage, CompleteIsTruthful
  <2>4. QED
    BY <2>1, <2>2, <2>3 DEF Drained, EmitRecord, EmitState, EmitRangeComplete,
       EmitFinalState
<1>11. QED
  BY <1>1, <1>6, <1>7, <1>8, <1>9, <1>10, StoredKept DEF Coverage

\* What the eof serialises is covered, save what Missed names.
LEMMA EndingCovered ==
  ASSUME Bookkeeping, Coverage, EndingKnown
  PROVE  InScope(EndingAccounted) \subseteq
           emitted \cup forgone \cup Undelivered \cup ReachAll(EndingRemaining)
<1>1. CASE held.live
  <2>1. CoveredBy(timeRange, Settled, ranges, held.refs)
    BY <1>1 DEF Coverage, HeldCovers
  <2>2. InScope(timeRange) \subseteq
          Settled \cup ReachAll({ranges[y] : y \in held.refs})
    BY <2>1, CoveredSet
  <2>3. QED
    BY <1>1, <2>2 DEF EndingAccounted, EndingRemaining, Settled, Deref
<1>2. CASE ~held.live
  BY <1>2 DEF Coverage, StoredCovers, EndingKnown, EndingAccounted,
     EndingRemaining
<1>3. QED
  BY <1>1, <1>2

\* The end of a request keeps Coverage.
LEMMA EofCoverage ==
  ASSUME Bookkeeping, Coverage, Eof
  PROVE  Coverage'
<1>1. /\ phase' = "idle" /\ held' = NotHeld
      /\ stored'.known = EndingKnown
      /\ stored'.accounted = EndingAccounted
      /\ stored'.remaining = EndingRemaining
      /\ stored'.timeRange = timeRange
      /\ stored'.status = status
      /\ forgone' = forgone \cup Missed
      /\ UNCHANGED <<timeRange, status, emitted>>
  BY DEF Eof, Discard
<1>2. StoredCovers'
  <2>1. ASSUME EndingKnown
        PROVE  InScope(EndingAccounted) \subseteq
                 emitted \cup (forgone \cup Missed) \cup ReachAll(EndingRemaining)
    BY <2>1, EndingCovered DEF Missed
  <2>2. QED
    BY <1>1, <2>1 DEF StoredCovers
<1>3. CompleteIsTruthful'
  BY <1>1 DEF Coverage, CompleteIsTruthful
<1>4. StoredComplete'
  BY <1>1 DEF Coverage, CompleteIsTruthful, StoredComplete
<1>5. QueueCovers' /\ EventCovers' /\ HeldCovers' /\ FinalCovers'
  BY <1>1 DEF QueueCovers, EventCovers, HeldCovers, FinalCovers, NotHeld
<1>6. QED
  BY <1>2, <1>3, <1>4, <1>5 DEF Coverage

\* A crash keeps Coverage.
LEMMA CrashCoverage ==
  ASSUME Bookkeeping, Coverage, Crash
  PROVE  Coverage'
<1>1. /\ phase' = "idle" /\ held' = NotHeld
      /\ timeRange' = stored.timeRange
      /\ status' = stored.status
      /\ UNCHANGED <<stored, emitted, forgone>>
  BY DEF Crash, Discard
<1>2. CompleteIsTruthful'
  BY <1>1 DEF Coverage, CompleteIsTruthful, StoredComplete
<1>3. QueueCovers' /\ EventCovers' /\ HeldCovers' /\ FinalCovers'
  BY <1>1 DEF QueueCovers, EventCovers, HeldCovers, FinalCovers, NotHeld
<1>4. QED
  BY <1>1, <1>2, <1>3, StoredKept DEF Coverage

\* Every step keeps Coverage.
LEMMA NextCoverage ==
  ASSUME Bookkeeping, Coverage, [Next]_vars
  PROVE  Coverage'
<1>1. ASSUME NEW tr \in TimeRanges, NewRun(tr)
      PROVE  Coverage'
  <2>1. /\ tr \in Interval
        /\ phase = "idle" /\ timeRange' = tr
        /\ UNCHANGED <<emitted, forgone>>
    BY <1>1, ParameterAssumption DEF NewRun
  <2>2. CASE Begin(tr)
    BY <2>1, <2>2, BeginCoverage
  <2>3. CASE SilentReturn(tr, "not_started", {})
    BY <2>1, <2>3, SilentReturnCoverage
  <2>4. QED
    BY <1>1, <2>2, <2>3 DEF NewRun
<1>2. ASSUME Continue
      PROVE  Coverage'
  <2>1. /\ timeRange \in Interval /\ status # "completed"
        /\ phase = "idle"
        /\ UNCHANGED <<timeRange, emitted, forgone>>
    BY <1>2 DEF Continue, Bookkeeping, TypeOK, Terminal
  <2>2. CASE Begin(timeRange)
    BY <2>1, <2>2, BeginCoverage
  <2>3. CASE SilentReturn(timeRange, status, completed)
    BY <2>1, <2>3, SilentReturnCoverage
  <2>4. QED
    BY <1>2, <2>2, <2>3 DEF Continue
<1>3. CASE Work
  BY <1>3, FetchPageCoverage, TakePageCoverage, LoopCoverage DEF Work
<1>4. ASSUME NEW x \in inflight, NEW failure \in {"error", "skip"},
             FetchRejects(x, failure)
      PROVE  Coverage'
  BY <1>4, FetchRejectsCoverage
<1>5. CASE UNCHANGED vars
  <2>1. UNCHANGED <<phase, ranges, queue, inflight, fetched, event, held, seen,
                    timeRange, status, completed, stored, requests, emitted,
                    forgone>>
    BY <1>5 DEF vars, request
  <2>2. Settled' = Settled /\ OpenRefs' = OpenRefs
    BY <2>1 DEF Settled, Undelivered, OpenRefs, Answered
  <2>3. QueueCovers' /\ EventCovers' /\ HeldCovers'
    BY <2>1, <2>2 DEF Coverage, QueueCovers, EventCovers, HeldCovers
  <2>4. FinalCovers' /\ CompleteIsTruthful'
    BY <2>1 DEF Coverage, FinalCovers, CompleteIsTruthful
  <2>5. QED
    BY <2>1, <2>3, <2>4, StoredKept DEF Coverage
<1>6. QED
  BY <1>1, <1>2, <1>3, <1>4, <1>5, EofCoverage, CrashCoverage DEF Next

\* The inductive invariant.
LEMMA CoverageInvariant == Spec => [](Bookkeeping /\ Coverage)
<1>1. Init => Bookkeeping /\ Coverage
  BY InitBookkeeping, InitCoverage
<1>2. Bookkeeping /\ Coverage /\ [Next]_vars => (Bookkeeping /\ Coverage)'
  BY NextBookkeeping, NextCoverage
<1>3. QED
  BY <1>1, <1>2, PTL DEF Spec

(***************************************************************************)
(* Subdivision and paging lose nothing, for every stream, page size,       *)
(* concurrency and subdivision factor: while a request runs, an object of  *)
(* its time_range that was neither emitted nor forgone is in a page the    *)
(* request holds or in reach of a range of streamingSubdivide's work-queue.*)
(***************************************************************************)
THEOREM WorkQueueComplete == Spec => []WorkQueueCovers
<1>1. Bookkeeping /\ Coverage => WorkQueueCovers
  <2> SUFFICES ASSUME Coverage, phase # "idle"
               PROVE  InScope(timeRange) \subseteq
                        emitted \cup forgone \cup Undelivered
                          \cup ReachAll(Deref(OpenRefs))
    BY DEF WorkQueueCovers
  <2>1. CoveredBy(timeRange, Settled, ranges, OpenRefs)
    BY DEF Coverage, QueueCovers
  <2>2. InScope(timeRange) \subseteq
          Settled \cup ReachAll({ranges[y] : y \in OpenRefs})
    BY <2>1, CoveredSet
  <2>3. QED
    BY <2>2 DEF Settled, Deref
<1>2. QED
  BY <1>1, CoverageInvariant, PTL

(***************************************************************************)
(* A checkpoint is never ahead of what was delivered by more than the      *)
(* pages its own request still holds, and the one the client stores is not *)
(* ahead at all, save the objects a cut has forgone.                       *)
(***************************************************************************)
THEOREM CheckpointComplete == Spec => []CheckpointCovers
<1>1. Bookkeeping /\ Coverage => CheckpointCovers
  BY EndingCovered DEF Coverage, StoredCovers, CheckpointCovers
<1>2. QED
  BY <1>1, CoverageInvariant, PTL

(***************************************************************************)
(* The `complete' of a stream is truthful: every object of the run's       *)
(* time_range has been emitted, except those forgone by a cut or a limit.  *)
(***************************************************************************)
THEOREM CompletionTruthful == Spec => []CompleteIsTruthful
<1>1. Bookkeeping /\ Coverage => CompleteIsTruthful
  BY DEF Coverage
<1>2. QED
  BY <1>1, CoverageInvariant, PTL

-----------------------------------------------------------------------------
(***************************************************************************)
(* The contract.                                                           *)
(***************************************************************************)
ActiveStarted == phase \notin {"idle", "ended"} => status = "started"

\* A running stream that has not ended has the status started.
LEMMA NextActive ==
  ASSUME ActiveStarted, [Next]_vars
  PROVE  ActiveStarted'
<1>1. CASE Work
  BY <1>1 DEF ActiveStarted, Work, FetchPageForRange, TakePage, TakeFailure,
     Drained, EmitRecord, EmitState, EmitRangeComplete, EmitFinalState,
     EmitComplete
<1>2. CASE Eof \/ Crash
  BY <1>2 DEF ActiveStarted, Eof, Crash, Discard
<1>3. ASSUME NEW tr, Begin(tr)
      PROVE  ActiveStarted'
  BY <1>3 DEF ActiveStarted, Begin
<1>4. ASSUME NEW tr, NEW st, NEW done, SilentReturn(tr, st, done),
             phase = "idle"
      PROVE  ActiveStarted'
  BY <1>4 DEF ActiveStarted, SilentReturn, request
<1>5. ASSUME NEW x, NEW failure, FetchRejects(x, failure)
      PROVE  ActiveStarted'
  BY <1>5 DEF ActiveStarted, FetchRejects
<1>6. CASE UNCHANGED vars
  BY <1>6 DEF ActiveStarted, vars, request
<1>7. QED
  BY <1>1, <1>2, <1>3, <1>4, <1>5, <1>6 DEF Next, NewRun, Continue

\* Every step is a step of the contract or leaves it unchanged.
LEMMA StepImplements ==
  ASSUME Bookkeeping, Coverage, ActiveStarted, [Next]_vars
  PROVE  [Contract!Next]_Contract!vars
<1> USE DEF Contract!Next, Contract!vars
<1>1. emitted \subseteq Objects
  BY DEF Bookkeeping, TypeOK
<1>2. ASSUME NEW tr \in TimeRanges, NewRun(tr)
      PROVE  Contract!StartRun
  <2>1. /\ timeRange' = tr /\ UNCHANGED <<emitted, forgone>>
        /\ InScope(tr) \in SUBSET Objects
    BY <1>2, ScopeType DEF NewRun
  <2>2. CASE Begin(tr)
    BY <2>1, <2>2 DEF Begin, Contract!StartRun
  <2>3. CASE SilentReturn(tr, "not_started", {})
    <3>1. /\ status' = "not_started"
          /\ stored'.status = "not_started" /\ stored'.timeRange = tr
      BY <2>3 DEF SilentReturn, Bookkeeping, TypeOK
    <3>2. QED
      BY <2>1, <3>1 DEF Contract!StartRun
  <2>4. QED
    BY <1>2, <2>2, <2>3 DEF NewRun
<1>3. ASSUME Continue
      PROVE  Contract!Restart \/ Contract!AbandonAtCut
  <2>1. /\ status \in {"not_started", "started"}
        /\ UNCHANGED <<timeRange, emitted, forgone>>
    BY <1>3 DEF Continue, Bookkeeping, TypeOK
  <2>2. CASE Begin(timeRange)
    BY <2>1, <2>2 DEF Begin, Contract!Restart
  <2>3. CASE SilentReturn(timeRange, status, completed)
    <3>1. /\ status' = status
          /\ stored'.status = status /\ stored'.timeRange = timeRange
      BY <2>3 DEF SilentReturn, Bookkeeping, TypeOK
    <3>2. {} \in SUBSET (Objects \ emitted) /\ forgone' = forgone \cup {}
      BY <2>1
    <3>3. QED
      BY <2>1, <3>1, <3>2 DEF Contract!AbandonAtCut, Contract!Abandon
  <2>4. QED
    BY <1>3, <2>2, <2>3 DEF Continue
<1>4. ASSUME Work
      PROVE  [Contract!Next]_Contract!vars
  <2>1. UNCHANGED <<timeRange, stored>>
    BY <1>4 DEF Work, FetchPageForRange, TakePage, TakeFailure, Drained,
       EmitRecord, EmitState, EmitRangeComplete, EmitFinalState, EmitComplete
  <2>2. CASE EmitRecord
    <3>1. \E i \in Objects : emitted' = emitted \cup {i}
      BY <2>2 DEF EmitRecord, Bookkeeping, TypeOK
    <3>2. UNCHANGED <<status, forgone>>
      BY <2>2 DEF EmitRecord
    <3>3. status = "started"
      BY <2>2 DEF EmitRecord, ActiveStarted
    <3>4. QED
      BY <2>1, <3>1, <3>2, <3>3 DEF Contract!Deliver
  <2>3. CASE EmitRangeComplete
    <3>1. /\ UNCHANGED <<status, emitted>>
          /\ UNCHANGED forgone
               \/ forgone' = forgone \cup (InScope(timeRange) \ emitted)
      BY <2>3 DEF EmitRangeComplete
    <3>2. InScope(timeRange) \ emitted \in SUBSET (Objects \ emitted)
      BY ScopeType
    <3>3. status = "started"
      BY <2>3 DEF EmitRangeComplete, ActiveStarted
    <3>4. QED
      BY <2>1, <3>1, <3>2, <3>3 DEF Contract!AbandonAtLimit, Contract!Abandon
  <2>4. CASE EmitComplete
    <3>1. InScope(timeRange) \subseteq emitted \cup forgone
      BY <2>4 DEF EmitComplete, Coverage, FinalCovers
    <3>2. status' = "completed" /\ UNCHANGED <<emitted, forgone>>
      BY <2>4 DEF EmitComplete
    <3>3. status = "started"
      BY <2>4 DEF EmitComplete, ActiveStarted
    <3>4. QED
      BY <2>1, <3>1, <3>2, <3>3 DEF Contract!Finish
  <2>5. CASE \E f \in fetched : TakeFailure(f)
    <3>1. /\ status' \in {"errored", "skipped"}
          /\ UNCHANGED <<emitted, forgone>>
      BY <2>5 DEF TakeFailure
    <3>2. status = "started"
      BY <2>5 DEF TakeFailure, ActiveStarted
    <3>3. QED
      BY <2>1, <3>1, <3>2 DEF Contract!GiveUp
  <2>6. CASE UNCHANGED <<status, emitted, forgone>>
    BY <2>1, <2>6
  <2>7. QED
    BY <1>4, <2>2, <2>3, <2>4, <2>5, <2>6 DEF Work, FetchPageForRange,
       TakePage, Drained, EmitState, EmitFinalState
<1>5. ASSUME NEW x \in inflight, NEW failure, FetchRejects(x, failure)
      PROVE  UNCHANGED Contract!vars
  BY <1>5 DEF FetchRejects
<1>6. ASSUME Eof
      PROVE  Contract!AbandonAtCut
  <2>1. /\ stored'.timeRange = timeRange /\ stored'.status = status
        /\ forgone' = forgone \cup Missed
        /\ UNCHANGED <<timeRange, status, emitted>>
    BY <1>6 DEF Eof
  <2>2. Missed \in SUBSET (Objects \ emitted)
    BY ScopeType DEF Missed
  <2>3. QED
    BY <2>1, <2>2 DEF Contract!AbandonAtCut, Contract!Abandon
<1>7. ASSUME Crash
      PROVE  Contract!Crash
  BY <1>7 DEF Crash, Contract!Crash
<1>8. ASSUME UNCHANGED vars
      PROVE  UNCHANGED Contract!vars
  BY <1>8 DEF vars, request
<1>9. QED
  BY <1>2, <1>3, <1>4, <1>5, <1>6, <1>7, <1>8 DEF Next

(***************************************************************************)
(* The backfill of a stream implements its contract: whatever the ranges,  *)
(* the interleaving of fetches and messages, cuts and crashes, its caller  *)
(* sees objects delivered, `complete' only when none is outstanding, and   *)
(* after a crash the view of the last answer with all deliveries kept.     *)
(***************************************************************************)
THEOREM BackfillImplementsContract == Spec => ImplementsContract
<1>1. Init => Contract!Init
  <2> SUFFICES ASSUME Init PROVE Contract!Init
    OBVIOUS
  <2>1. InScope(NoInterval) = {}
    <3>1. \A s \in Nat : ~InInterval(s, NoInterval)
      BY DEF InInterval, NoInterval
    <3>2. QED
      BY <3>1, ObjectsType DEF InScope
  <2>2. QED
    BY <2>1 DEF Init, Contract!Init
<1>2. Bookkeeping /\ Coverage /\ ActiveStarted /\ [Next]_vars
        => [Contract!Next]_Contract!vars
  BY StepImplements
<1>3. Init => ActiveStarted
  BY DEF Init, ActiveStarted
<1>4. ActiveStarted /\ [Next]_vars => ActiveStarted'
  BY NextActive
<1>5. Spec => []ActiveStarted
  BY <1>3, <1>4, PTL DEF Spec
<1>6. QED
  BY <1>1, <1>2, <1>5, CoverageInvariant, PTL
  DEF Spec, ImplementsContract, Contract!Spec

-----------------------------------------------------------------------------
(***************************************************************************)
(* Disjointness: no object is in two ranges of one work-queue or of one    *)
(* checkpoint.  It needs time ranges that meet.                            *)
(***************************************************************************)
LiveRefs == inflight \cup RangeOf(queue)

\* Distinct references of R stand for different objects.
Apart(heap, R) ==
  \A x, y \in R : x # y => InScope(heap[x]) \cap InScope(heap[y]) = {}

\* The heap holds no object outside the interval tr.
Within(heap, tr) ==
  \A x \in DOMAIN heap : InScope(heap[x]) \subseteq InScope(tr)

\* Disjoint ranges, inside the range they account for.
Tidy(rangeSet, tr) ==
  /\ \A r, q \in rangeSet : r # q => InScope(r) \cap InScope(q) = {}
  /\ \A r \in rangeSet : InScope(r) \subseteq InScope(tr)

\* A request works on, and a checkpoint accounts for, a configured range.
Placed ==
  /\ phase # "idle" \/ stored.hasMore => timeRange \in TimeRanges
  /\ stored.hasMore => stored.timeRange \in TimeRanges
  /\ stored.known => stored.accounted \in TimeRanges

\* A page comes from its range, and a cursor is an object of its range.
PagesInside ==
  \A f \in fetched :
    /\ f.data \subseteq InScope(ranges[f.ref])
    /\ f.hasMore /\ f.lastObserved # NoObservation =>
         ranges[f.ref].cursor \in InScope(ranges[f.ref])

Disjoint ==
  /\ PagesInside
  /\ Apart(ranges, LiveRefs)
  /\ Apart(ranges, event.remaining)
  /\ Apart(ranges, held.refs)
  /\ Within(ranges, timeRange)
  /\ stored.known => Tidy(stored.remaining, stored.accounted)

\* A request that begins works on a configured range.
LEMMA BeginPlaced ==
  ASSUME Placed, NEW tr \in TimeRanges, Begin(tr), timeRange' = tr
  PROVE  Placed'
  BY DEF Begin, Placed

\* Every step keeps Placed.
LEMMA NextPlaced ==
  ASSUME Bookkeeping, Placed, [Next]_vars
  PROVE  Placed'
<1>1. ASSUME NEW tr, NEW st, NEW done, SilentReturn(tr, st, done),
             phase = "idle"
      PROVE  Placed'
  <2>1. /\ stored'.hasMore = FALSE
        /\ stored'.known = stored.known /\ stored'.accounted = stored.accounted
        /\ phase' = "idle"
    BY <1>1 DEF SilentReturn, request, Bookkeeping, TypeOK
  <2>2. QED
    BY <2>1 DEF Placed
<1>2. ASSUME NEW tr \in TimeRanges, NewRun(tr)
      PROVE  Placed'
  BY <1>1, <1>2, BeginPlaced DEF NewRun
<1>3. CASE Continue
  <2>1. timeRange \in TimeRanges
    BY <1>3 DEF Continue, Placed
  <2>2. QED
    BY <1>1, <1>3, <2>1, BeginPlaced DEF Continue
<1>4. CASE Work
  <2>1. phase # "idle"
    BY <1>4 DEF Bookkeeping, IdleEmpty, Work, TakePage, TakeFailure, Drained,
       EmitRecord, EmitState, EmitRangeComplete, EmitFinalState, EmitComplete
  <2>2. UNCHANGED <<timeRange, stored>>
    BY <1>4 DEF Work, FetchPageForRange, TakePage, TakeFailure, Drained,
       EmitRecord, EmitState, EmitRangeComplete, EmitFinalState, EmitComplete
  <2>3. QED
    BY <2>1, <2>2 DEF Placed
<1>5. ASSUME NEW x, NEW failure, FetchRejects(x, failure)
      PROVE  Placed'
  BY <1>5 DEF FetchRejects, Placed
<1>6. CASE Eof
  <2>1. /\ phase # "idle"
        /\ stored'.known = (held.live \/ stored.known)
        /\ stored'.accounted = IF held.live THEN timeRange ELSE stored.accounted
        /\ stored'.timeRange = timeRange
        /\ UNCHANGED timeRange
    BY <1>6 DEF Eof, EndingKnown, EndingAccounted
  <2>2. QED
    BY <2>1 DEF Placed
<1>7. CASE Crash
  BY <1>7 DEF Crash, Discard, Placed
<1>8. CASE UNCHANGED vars
  BY <1>8 DEF vars, request, Placed
<1>9. QED
  BY <1>2, <1>3, <1>4, <1>5, <1>6, <1>7, <1>8 DEF Next

\* What is in scope is an object whose second is in the interval.
LEMMA ScopeSecond ==
  ASSUME NEW r, NEW i
  PROVE  i \in InScope(r) <=> i \in Objects /\ InInterval(Created[i], r)
  BY DEF InScope

(***************************************************************************)
(* The ranges a request starts from are disjoint and inside its time_range.*)
(***************************************************************************)
LEMMA ResumeTidy ==
  ASSUME TimeRangesMeet, Bookkeeping, Placed, Disjoint, NEW tr \in TimeRanges
  PROVE  Tidy(Resume(tr), tr)
<1>1. /\ tr \in Interval
      /\ stored.remaining \in SUBSET Range3 /\ stored.accounted \in Interval
  BY ParameterAssumption DEF Bookkeeping, TypeOK
<1>2. CASE ~stored.known
  <2>1. Resume(tr) = {Fresh(tr.gte, tr.lt)}
    BY <1>2 DEF Resume
  <2>2. InScope(Fresh(tr.gte, tr.lt)) = InScope(tr)
    BY DEF InScope, InInterval, Fresh
  <2>3. QED
    BY <2>1, <2>2 DEF Tidy
<1>3. CASE stored.known /\ stored.accounted = tr
  BY <1>3 DEF Resume, Disjoint
<1>4. CASE stored.known /\ stored.accounted # tr
  <2> DEFINE acc == stored.accounted
             old == stored.remaining
  <2>1. Resume(tr) = ReconcileRanges(old, acc, tr)
    BY <1>4 DEF Resume
  <2>2. acc \in TimeRanges /\ Tidy(old, acc)
    BY <1>4 DEF Placed, Disjoint
  <2>3. acc.gte <= tr.lt /\ tr.gte <= acc.lt /\ acc.gte <= acc.lt
    BY <2>2 DEF TimeRangesMeet
  <2>4. ASSUME NEW t \in Resume(tr), NEW u \in Resume(tr),
               NEW i \in InScope(t) \cap InScope(u)
        PROVE  t = u
    <3>1. Created[i] \in Nat
      BY ScopeSecond, ObjectsType
    <3>2. InInterval(Created[i], t) /\ InInterval(Created[i], u)
      BY ScopeSecond
    <3>3. \A r, q \in old :
            InInterval(Created[i], r) /\ InInterval(Created[i], q) => r = q
      BY <2>2, ScopeSecond DEF Tidy
    <3>4. \A r \in old :
            InInterval(Created[i], r) => InInterval(Created[i], acc)
      BY <2>2, ScopeSecond DEF Tidy
    <3> HIDE DEF acc, old
    <3>5. old \in SUBSET Range3 /\ acc \in Interval
      BY <1>1 DEF acc, old
    <3>6. QED
      BY <1>1, <2>1, <2>3, <3>1, <3>2, <3>3, <3>4, <3>5, ReconcileDisjoint
  <2>5. ASSUME NEW t \in Resume(tr), NEW i \in InScope(t)
        PROVE  i \in InScope(tr)
    <3>1. i \in Objects /\ Created[i] \in Nat /\ InInterval(Created[i], t)
      BY ScopeSecond, ObjectsType
    <3>2. InInterval(Created[i], tr)
      BY <1>1, <2>1, <2>3, <3>1, ReconcileInside
    <3>3. QED
      BY <3>1, <3>2, ScopeSecond
  <2>6. QED
    BY <2>4, <2>5 DEF Tidy
<1>5. QED
  BY <1>2, <1>3, <1>4

\* A request's heap starts without a range twice.
LEMMA BeginInjective ==
  ASSUME Bookkeeping, NEW tr \in Interval, Begin(tr)
  PROVE  Injective(ranges') /\ DOMAIN ranges' = Refs'
<1> DEFINE m == Cardinality(Resume(tr))
<1>1. PICK s \in [1 .. m -> Resume(tr)] :
        RangeOf(s) = Resume(tr) /\ ranges' = s
  BY DEF Begin
<1>2. IsFiniteSet(Resume(tr)) /\ m \in Nat
  BY ResumeType, FS_CardinalityType
<1>3. IsFiniteSet(1 .. m) /\ Cardinality(1 .. m) = m
  BY <1>2, FS_Interval
<1>4. s \in Surjection(1 .. m, Resume(tr))
  BY <1>1 DEF Surjection, RangeOf
<1>5. s \in Injection(1 .. m, Resume(tr))
  BY <1>3, <1>4, FS_SurjSameCardinalityImpliesInj
<1>6. Injective(s)
  BY <1>5 DEF Injection, IsInjective, Injective
<1>7. DOMAIN ranges' = Refs'
  BY BeginFacts, LenProperties DEF Refs
<1>8. QED
  BY <1>1, <1>6, <1>7

-----------------------------------------------------------------------------
(***************************************************************************)
(* Every step keeps Disjoint.                                              *)
(***************************************************************************)

\* Fewer references are apart if more are.
LEMMA ApartSubset ==
  ASSUME NEW h, NEW R, NEW Q, Apart(h, R), Q \subseteq R
  PROVE  Apart(h, Q)
  BY DEF Apart

\* A heap whose ranges keep their bounds keeps its references apart.
LEMMA ApartSame ==
  ASSUME NEW h, NEW g, NEW R, Apart(h, R),
         \A x \in R : InScope(g[x]) = InScope(h[x])
  PROVE  Apart(g, R)
  BY DEF Apart

\* Between requests there is nothing to keep apart.
LEMMA IdleDisjoint ==
  ASSUME phase = "idle" => /\ ranges = <<>> /\ queue = <<>> /\ inflight = {}
                           /\ fetched = {} /\ event = NoEvent
                           /\ held = NotHeld,
         phase = "idle",
         stored.known => Tidy(stored.remaining, stored.accounted)
  PROVE  Disjoint
<1>1. LiveRefs = {}
  BY DEF LiveRefs, RangeOf
<1>2. event.remaining = {} /\ held.refs = {} /\ DOMAIN ranges = {}
  BY DEF NoEvent, NotHeld
<1>3. QED
  BY <1>1, <1>2 DEF Disjoint, PagesInside, Apart, Within

\* Disjoint holds initially.
LEMMA InitDisjoint == Init => Placed /\ Disjoint
<1> SUFFICES ASSUME Init PROVE Placed /\ Disjoint
  OBVIOUS
<1>1. Placed
  BY DEF Init, Placed
<1>2. Disjoint
  BY IdleDisjoint DEF Init
<1>3. QED
  BY <1>1, <1>2

\* Beginning a request establishes Disjoint.
LEMMA BeginDisjoint ==
  ASSUME TimeRangesMeet, Bookkeeping, Placed, Disjoint,
         NEW tr \in TimeRanges, Begin(tr), phase = "idle", timeRange' = tr
  PROVE  Disjoint'
<1>1. tr \in Interval
  BY ParameterAssumption
<1>2. /\ fetched' = {} /\ event' = NoEvent /\ held' = NotHeld
      /\ UNCHANGED stored
  BY DEF Begin, Bookkeeping, IdleEmpty
<1>3. /\ RangeOf(ranges') = Resume(tr)
      /\ queue' \in Seq(Refs')
      /\ inflight' \cup RangeOf(queue') = Refs'
  BY <1>1, BeginFacts
<1>4. Injective(ranges') /\ DOMAIN ranges' = Refs'
  BY <1>1, BeginInjective
<1>5. Tidy(Resume(tr), tr)
  BY ResumeTidy
<1>6. \A x \in Refs' : ranges'[x] \in Resume(tr)
  BY <1>3, <1>4 DEF RangeOf
<1>7. Apart(ranges', Refs')
  BY <1>4, <1>5, <1>6 DEF Apart, Tidy, Injective
<1>8. LiveRefs' = Refs'
  BY <1>3 DEF LiveRefs
<1>9. Within(ranges', tr)
  BY <1>4, <1>5, <1>6 DEF Within, Tidy
<1>10. event'.remaining = {} /\ held'.refs = {}
  BY <1>2 DEF NoEvent, NotHeld
<1>11. Apart(ranges', {})
  BY DEF Apart
<1>12. QED
  BY <1>2, <1>7, <1>8, <1>9, <1>10, <1>11 DEF Disjoint, PagesInside

\* A silent return keeps Disjoint.
LEMMA SilentReturnDisjoint ==
  ASSUME Bookkeeping, Disjoint, NEW tr, NEW st, NEW done,
         SilentReturn(tr, st, done), phase = "idle"
  PROVE  Disjoint'
<1>1. /\ stored'.known = stored.known
      /\ stored'.accounted = stored.accounted
      /\ stored'.remaining = stored.remaining
      /\ UNCHANGED request
  BY DEF SilentReturn, Bookkeeping, TypeOK
<1>2. /\ phase' = "idle" /\ ranges' = <<>> /\ queue' = <<>> /\ inflight' = {}
      /\ fetched' = {} /\ event' = NoEvent /\ held' = NotHeld
  BY <1>1 DEF request, Bookkeeping, IdleEmpty
<1>3. stored'.known => Tidy(stored'.remaining, stored'.accounted)
  BY <1>1 DEF Disjoint
<1>4. LiveRefs' = {}
  BY <1>2 DEF LiveRefs, RangeOf
<1>5. event'.remaining = {} /\ held'.refs = {} /\ DOMAIN ranges' = {}
  BY <1>2 DEF NoEvent, NotHeld
<1>6. QED
  BY <1>2, <1>3, <1>4, <1>5 DEF Disjoint, PagesInside, Apart, Within

\* A fetch moves the cursor of its range and nothing else in the heap.
LEMMA FetchHeap ==
  ASSUME Bookkeeping, NEW x \in inflight, FetchPageForRange(x)
  PROVE  /\ DOMAIN ranges' = DOMAIN ranges
         /\ Refs' = Refs /\ DOMAIN ranges = Refs
         /\ \A y \in Refs : /\ ranges'[y].gte = ranges[y].gte
                            /\ ranges'[y].lt = ranges[y].lt
                            /\ InScope(ranges'[y]) = InScope(ranges[y])
                            /\ y # x => ranges'[y] = ranges[y]
<1>1. PICK last \in Nat, f \in Response :
        ranges' = [ranges EXCEPT ![x].cursor =
                     IF f.hasMore THEN last ELSE NoCursor]
  BY FetchFacts
<1>2. ranges \in Seq(Range3) /\ x \in 1 .. Len(ranges)
  BY DEF Bookkeeping, TypeOK, Refs
<1>3. DOMAIN ranges = Refs /\ DOMAIN ranges' = DOMAIN ranges
  BY <1>1, <1>2, LenProperties DEF Refs
<1>4. Refs' = Refs
  <2>1. Bookkeeping'
    BY FetchPageBookkeeping
  <2>2. ranges' \in Seq(Range3)
    BY <2>1 DEF Bookkeeping, TypeOK
  <2>3. DOMAIN ranges' = Refs'
    BY <2>2, LenProperties DEF Refs
  <2>4. QED
    BY <1>3, <2>3
<1>5. ASSUME NEW y \in Refs
      PROVE  /\ ranges'[y].gte = ranges[y].gte
             /\ ranges'[y].lt = ranges[y].lt
             /\ y # x => ranges'[y] = ranges[y]
  <2>1. ranges[y] \in Range3
    BY <1>2 DEF Refs
  <2>2. CASE y = x
    BY <1>1, <1>3, <2>1, <2>2 DEF Range3
  <2>3. CASE y # x
    BY <1>1, <1>3, <2>3
  <2>4. QED
    BY <2>2, <2>3
<1>6. ASSUME NEW y \in Refs
      PROVE  InScope(ranges'[y]) = InScope(ranges[y])
  BY <1>5 DEF InScope, InInterval
<1>7. QED
  BY <1>3, <1>4, <1>5, <1>6

\* References point into the heap.
LEMMA RefsFacts ==
  ASSUME Bookkeeping
  PROVE  /\ LiveRefs \subseteq Refs /\ OpenRefs \subseteq LiveRefs
         /\ event.remaining \subseteq Refs /\ held.refs \subseteq Refs
         /\ DOMAIN ranges = Refs
         /\ \A f \in fetched : f.ref \in Refs /\ f.ref \in inflight
<1>1. RangeOf(queue) \subseteq Refs
  BY RangeType DEF Bookkeeping, TypeOK
<1>2. \A f \in fetched : f.ref \in Refs /\ f.ref \in inflight
  BY DEF Bookkeeping, TypeOK, Response, ResponsesPending
<1>3. DOMAIN ranges = Refs
  BY LenProperties DEF Bookkeeping, TypeOK, Refs
<1>4. QED
  BY <1>1, <1>2, <1>3 DEF Bookkeeping, TypeOK, LiveRefs, OpenRefs

\* The arrival of a page keeps Disjoint.
LEMMA FetchPageDisjoint ==
  ASSUME Bookkeeping, Disjoint, NEW x \in inflight, FetchPageForRange(x)
  PROVE  Disjoint'
<1>1. UNCHANGED <<queue, inflight, event, held, timeRange, stored>>
  BY DEF FetchPageForRange
<1>2. /\ DOMAIN ranges' = DOMAIN ranges /\ DOMAIN ranges = Refs
      /\ \A y \in Refs : InScope(ranges'[y]) = InScope(ranges[y])
  BY FetchHeap
<1>3. LiveRefs' = LiveRefs
  BY <1>1 DEF LiveRefs
<1>4. ASSUME NEW R, R \subseteq Refs, Apart(ranges, R)
      PROVE  Apart(ranges', R)
  BY <1>2, <1>4, ApartSame
<1>5. Within(ranges', timeRange)
  BY <1>2 DEF Disjoint, Within
<1>6. PagesInside'
  <2>1. PICK last \in Nat, f \in Response :
          /\ last \in Page(ranges[x]) \/ Page(ranges[x]) = {}
          /\ f.ref = x /\ f.data = Page(ranges[x])
          /\ Page(ranges[x]) = {} => f.lastObserved = NoObservation
          /\ fetched' = fetched \cup {f}
          /\ ranges' = [ranges EXCEPT ![x].cursor =
                          IF f.hasMore THEN last ELSE NoCursor]
    BY FetchFacts
  <2>2. Page(ranges[x]) \subseteq InScope(ranges[x])
    BY DEF Page, Reach, InScope
  <2>3. x \in Refs
    BY DEF Bookkeeping, TypeOK
  <2>4. /\ f.data \subseteq InScope(ranges'[x])
        /\ f.hasMore /\ f.lastObserved # NoObservation =>
             ranges'[x].cursor \in InScope(ranges'[x])
    <3>1. f.data \subseteq InScope(ranges'[x])
      BY <1>2, <2>1, <2>2, <2>3
    <3>2. ASSUME f.hasMore, f.lastObserved # NoObservation
          PROVE  ranges'[x].cursor \in InScope(ranges'[x])
      <4>1. ranges[x] \in Range3
        BY <2>3 DEF Bookkeeping, TypeOK, Refs
      <4>2. ranges'[x].cursor = last
        BY <1>2, <2>1, <2>3, <3>2, <4>1 DEF Range3
      <4>3. last \in InScope(ranges[x])
        BY <2>1, <2>2, <3>2
      <4>4. QED
        BY <1>2, <2>3, <4>2, <4>3
    <3>3. QED
      BY <3>1, <3>2
  <2>5. ASSUME NEW g \in fetched
        PROVE  /\ g.data \subseteq InScope(ranges'[g.ref])
               /\ g.hasMore /\ g.lastObserved # NoObservation =>
                    ranges'[g.ref].cursor \in InScope(ranges'[g.ref])
    <3>1. g.ref # x /\ g.ref \in Refs
      BY RefsFacts DEF FetchPageForRange, Answered
    <3>2. ranges'[g.ref] = ranges[g.ref]
      BY <3>1, FetchHeap
    <3>3. QED
      BY <3>2 DEF Disjoint, PagesInside
  <2>6. QED
    BY <2>1, <2>4, <2>5 DEF PagesInside
<1>7. QED
  BY <1>1, <1>3, <1>4, <1>5, <1>6, RefsFacts DEF Disjoint

\* The i-th child of a split range.
LEMMA ChildFacts ==
  ASSUME Bookkeeping, NEW f \in fetched, Split(f)
  PROVE  LET r == ranges[f.ref]
             n == SegmentCount(r, f.lastObserved, SubdivisionFactor)
         IN  /\ r \in Range3 /\ f.lastObserved \in Nat
             /\ r.cursor \in Objects /\ f.lastObserved = Created[r.cursor]
             /\ SubdivisionFactor \in Nat \ {0}
             /\ Splits(r, f.lastObserved, SubdivisionFactor)
             /\ Len(NewRanges(f)) = n
             /\ \A k \in 1 .. n : NewRanges(f)[k] =
                  Segment(r, f.lastObserved, SubdivisionFactor, k)
<1> DEFINE r == ranges[f.ref]
           newEnd == f.lastObserved
<1>1. /\ f.ref \in Refs /\ newEnd \in Nat
      /\ r \in Range3
  BY DEF Bookkeeping, TypeOK, Response, Refs
<1>2. /\ Splits(r, newEnd, SubdivisionFactor)
      /\ r.cursor \in Objects
      /\ newEnd = Created[r.cursor]
  BY DEF Split, Bookkeeping, ResponseCursor
<1>3. SubdivisionFactor \in Nat \ {0}
  BY ParameterAssumption
<1>4. /\ NewRanges(f) = Children(r, newEnd, SubdivisionFactor)
      /\ Len(NewRanges(f)) = SegmentCount(r, newEnd, SubdivisionFactor)
  BY <1>1, <1>2, <1>3, ChildrenType DEF NewRanges
<1>5. QED
  BY <1>1, <1>2, <1>3, <1>4 DEF Children

\* The objects of a range that its cursor has passed.
Behind(range) == {i \in InScope(range) : i <= range.cursor}

(***************************************************************************)
(* The children of a split stand for disjoint parts of what their parent   *)
(* stands for, have nothing behind a cursor that it had not, and reach     *)
(* nothing that it did not.                                                *)
(***************************************************************************)
LEMMA ChildScope ==
  ASSUME Bookkeeping, Disjoint, NEW f \in fetched, Split(f),
         NEW k \in 1 .. Len(NewRanges(f))
  PROVE  /\ InScope(NewRanges(f)[k]) \subseteq InScope(ranges[f.ref])
         /\ Behind(NewRanges(f)[k]) \subseteq Behind(ranges[f.ref])
         /\ Reach(NewRanges(f)[k]) \subseteq Reach(ranges[f.ref])
         /\ \A j \in 1 .. Len(NewRanges(f)) : j # k =>
              InScope(NewRanges(f)[k]) \cap InScope(NewRanges(f)[j]) = {}
<1> DEFINE r == ranges[f.ref]
           newEnd == f.lastObserved
           n == SegmentCount(r, newEnd, SubdivisionFactor)
           seg(j) == Segment(r, newEnd, SubdivisionFactor, j)
<1>1. /\ r \in Range3 /\ newEnd \in Nat
      /\ r.cursor \in Objects /\ newEnd = Created[r.cursor]
      /\ SubdivisionFactor \in Nat \ {0}
      /\ Splits(r, newEnd, SubdivisionFactor)
      /\ Len(NewRanges(f)) = n
      /\ \A j \in 1 .. n : NewRanges(f)[j] = seg(j)
  BY ChildFacts
<1>2. newEnd < r.lt
  BY <1>1, ScopeSecond DEF Split, Disjoint, PagesInside, InInterval
<1> HIDE DEF r, newEnd, n
<1>3. ASSUME NEW i \in Objects, NEW j \in 1 .. n,
             InInterval(Created[i], seg(j))
      PROVE  /\ i \in InScope(r)
             /\ i > r.cursor \/ seg(j).cursor = r.cursor
  <2>1. Created[i] \in Nat /\ i \in Nat /\ r.cursor \in Nat
    BY <1>1, ObjectsType
  <2>2. /\ r.gte <= Created[i]
        /\ \/ Created[i] < newEnd
           \/ Created[i] = newEnd /\ seg(j).cursor = r.cursor
    BY <1>1, <1>3, <2>1, SegmentInside DEF n
  <2>3. r.lt \in Nat
    BY <1>1 DEF Range3
  <2>4. i \in InScope(r)
    BY <1>1, <1>2, <2>1, <2>2, <2>3 DEF InScope, InInterval
  <2>5. Created[i] < newEnd => i > r.cursor
    BY <1>1, <2>1, ObjectsType
  <2>6. QED
    BY <2>2, <2>4, <2>5
<1>4. k \in 1 .. n /\ NewRanges(f)[k] = seg(k)
  BY <1>1
<1>5. seg(k).cursor \in {NoCursor, r.cursor}
  BY SegmentCursor
<1>6. InScope(seg(k)) \subseteq InScope(r)
  BY <1>3, <1>4, ScopeSecond
<1>7. Behind(seg(k)) \subseteq Behind(r)
  <2>1. ASSUME NEW i \in InScope(seg(k)), i <= seg(k).cursor
        PROVE  i \in InScope(r) /\ i <= r.cursor
    <3>1. i \in Nat \ {0}
      BY ScopeType, ObjectsType
    <3>2. QED
      BY <1>5, <1>6, <2>1, <3>1 DEF NoCursor
  <2>2. QED
    BY <2>1 DEF Behind
<1>8. Reach(seg(k)) \subseteq Reach(r)
  <2>1. ASSUME NEW i \in Reach(seg(k))
        PROVE  i \in Reach(r)
    <3>1. i \in Objects /\ InInterval(Created[i], seg(k)) /\ i > seg(k).cursor
      BY DEF Reach
    <3>2. i \in InScope(r) /\ i > r.cursor
      BY <1>3, <1>4, <3>1
    <3>3. QED
      BY <3>2, ScopeSecond DEF Reach
  <2>2. QED
    BY <2>1
<1>9. ASSUME NEW j \in 1 .. n, j # k
      PROVE  InScope(seg(k)) \cap InScope(seg(j)) = {}
  <2>1. ASSUME NEW i \in InScope(seg(k)), i \in InScope(seg(j))
        PROVE  FALSE
    <3>1. /\ Created[i] \in Nat
          /\ InInterval(Created[i], seg(k)) /\ InInterval(Created[i], seg(j))
      BY <2>1, ScopeSecond, ObjectsType
    <3>2. j = k
      BY <1>1, <1>4, <3>1, SegmentsDisjoint DEF n
    <3>3. QED
      BY <1>9, <3>2
  <2>2. QED
    BY <2>1
<1>10. QED
  BY <1>1, <1>4, <1>6, <1>7, <1>8, <1>9 DEF r

\* Taking a page keeps Disjoint, split or not.
LEMMA TakePageDisjoint ==
  ASSUME Bookkeeping, Disjoint, NEW f \in fetched, TakePage(f)
  PROVE  Disjoint'
<1>1. /\ fetched' = fetched \ {f}
      /\ event'.remaining = SnapshotRemaining(inflight', queue')
      /\ UNCHANGED <<held, timeRange, stored>>
  BY DEF TakePage
<1>2. /\ ranges' = ranges \o NewRanges(f)
      /\ inflight' \cup RangeOf(queue') =
           (inflight \ {f.ref}) \cup RangeOf(queue) \cup RangeOf(Requeued(f))
  BY TakePageFacts
<1>3. PICK h : h = ranges'
  OBVIOUS
<1>4. /\ Len(ranges) \in Nat /\ Len(NewRanges(f)) \in Nat
      /\ Len(h) = Len(ranges) + Len(NewRanges(f))
      /\ DOMAIN h = 1 .. Len(h)
      /\ \A y \in Refs : h[y] = ranges[y]
      /\ \A k \in 1 .. Len(NewRanges(f)) :
           h[Len(ranges) + k] = NewRanges(f)[k]
  BY <1>2, <1>3, HeapGrows, LenProperties
<1>5. /\ f.ref \in Refs /\ f.ref \in inflight
      /\ inflight \subseteq Refs /\ RangeOf(queue) \subseteq Refs
      /\ held.refs \subseteq Refs
      /\ RangeOf(queue) \cap inflight = {}
  BY RefsFacts DEF LiveRefs, Bookkeeping, QueueDistinct
<1>6. ASSUME NEW y \in LiveRefs'
      PROVE  \/ y \in LiveRefs /\ (Split(f) => y # f.ref)
             \/ /\ Split(f)
                /\ \E k \in 1 .. Len(NewRanges(f)) : y = Len(ranges) + k
  <2>1. y \in (inflight \ {f.ref}) \cup RangeOf(queue) \cup RangeOf(Requeued(f))
    BY <1>2 DEF LiveRefs
  <2>2. /\ Split(f) => RangeOf(Requeued(f)) =
                         {Len(ranges) + k : k \in 1 .. Len(NewRanges(f))}
        /\ ~Split(f) => RangeOf(Requeued(f)) \subseteq {f.ref}
    BY <1>2, RequeuedFacts
  <2>3. QED
    BY <1>5, <2>1, <2>2 DEF LiveRefs
<1>7. Apart(h, LiveRefs')
  <2>1. Apart(ranges, LiveRefs) /\ LiveRefs \subseteq Refs
    BY RefsFacts DEF Disjoint
  <2>2. f.ref \in LiveRefs
    BY <1>5 DEF LiveRefs
  <2>3. ASSUME NEW x \in LiveRefs', NEW y \in LiveRefs', x # y
        PROVE  InScope(h[x]) \cap InScope(h[y]) = {}
    <3>1. CASE x \in LiveRefs /\ y \in LiveRefs
      BY <1>4, <2>1, <2>3, <3>1 DEF Apart
    <3>2. ASSUME NEW u \in LiveRefs, u # f.ref, Split(f),
                 NEW k \in 1 .. Len(NewRanges(f))
          PROVE  InScope(h[u]) \cap InScope(h[Len(ranges) + k]) = {}
      <4>1. InScope(h[Len(ranges) + k]) \subseteq InScope(ranges[f.ref])
        BY <1>4, <3>2, ChildScope
      <4>2. InScope(ranges[u]) \cap InScope(ranges[f.ref]) = {}
        BY <2>1, <2>2, <3>2 DEF Apart
      <4>3. QED
        BY <1>4, <2>1, <4>1, <4>2
    <3>3. ASSUME Split(f), NEW j \in 1 .. Len(NewRanges(f)),
                 NEW k \in 1 .. Len(NewRanges(f)), j # k
          PROVE  InScope(h[Len(ranges) + j]) \cap InScope(h[Len(ranges) + k])
                   = {}
      <4>1. InScope(NewRanges(f)[j]) \cap InScope(NewRanges(f)[k]) = {}
        BY <3>3, ChildScope
      <4>2. /\ h[Len(ranges) + j] = NewRanges(f)[j]
            /\ h[Len(ranges) + k] = NewRanges(f)[k]
        BY <1>4
      <4>3. QED
        BY <4>1, <4>2
    <3>4. QED
      BY <1>6, <2>3, <3>1, <3>2, <3>3
  <2>4. QED
    BY <2>3 DEF Apart
<1>8. event'.remaining = LiveRefs'
  BY <1>1 DEF SnapshotRemaining, LiveRefs
<1>9. Apart(h, held.refs)
  BY <1>4, <1>5, ApartSame DEF Disjoint
<1>10. Within(h, timeRange)
  <2>1. ASSUME NEW y \in DOMAIN h
        PROVE  InScope(h[y]) \subseteq InScope(timeRange)
    <3>1. CASE y \in Refs
      BY <1>4, <3>1, RefsFacts DEF Disjoint, Within
    <3>2. CASE y \notin Refs
      <4>1. y - Len(ranges) \in 1 .. Len(NewRanges(f))
            /\ Len(ranges) + (y - Len(ranges)) = y
        BY <1>4, <2>1, <3>2 DEF Refs
      <4>2. h[y] = NewRanges(f)[y - Len(ranges)]
        BY <1>4, <4>1
      <4>3. Split(f)
        BY <4>1 DEF NewRanges
      <4>4. InScope(h[y]) \subseteq InScope(ranges[f.ref])
        BY <4>1, <4>2, <4>3, ChildScope
      <4>5. QED
        BY <1>5, <4>4, RefsFacts DEF Disjoint, Within
    <3>3. QED
      BY <3>1, <3>2
  <2>2. QED
    BY <2>1 DEF Within
<1>11. PagesInside'
  <2>1. \A g \in fetched' : g \in fetched /\ ranges'[g.ref] = ranges[g.ref]
    BY <1>1, <1>3, <1>4, RefsFacts
  <2>2. QED
    BY <2>1 DEF Disjoint, PagesInside
<1>12. QED
  BY <1>1, <1>3, <1>7, <1>8, <1>9, <1>10, <1>11 DEF Disjoint

\* A failed fetch keeps Disjoint.
LEMMA FetchRejectsDisjoint ==
  ASSUME Bookkeeping, Disjoint, NEW x, NEW failure, FetchRejects(x, failure)
  PROVE  Disjoint'
<1>1. UNCHANGED <<ranges, queue, inflight, event, held, timeRange, stored>>
  BY DEF FetchRejects
<1>2. PagesInside'
  BY DEF FetchRejects, Disjoint, PagesInside
<1>3. QED
  BY <1>1, <1>2 DEF Disjoint, LiveRefs

\* The steps of the message loop keep Disjoint.
LEMMA LoopDisjoint ==
  ASSUME Bookkeeping, Disjoint,
         \/ \E f \in fetched : TakeFailure(f)
         \/ Drained
         \/ EmitRecord \/ EmitState \/ EmitRangeComplete
         \/ EmitFinalState \/ EmitComplete
  PROVE  Disjoint'
<1>1. UNCHANGED <<ranges, queue, inflight, fetched, timeRange, stored>>
  BY DEF TakeFailure, Drained, EmitRecord, EmitState, EmitRangeComplete,
         EmitFinalState, EmitComplete
<1>2. event'.remaining \in {event.remaining, {}}
  <2>1. CASE EmitRecord
    BY <2>1 DEF EmitRecord, Bookkeeping, TypeOK
  <2>2. CASE EmitRangeComplete
    BY <2>2 DEF EmitRangeComplete, NoEvent
  <2>3. CASE UNCHANGED event
    BY <2>3
  <2>4. QED
    BY <2>1, <2>2, <2>3 DEF TakeFailure, Drained, EmitState, EmitFinalState,
       EmitComplete
<1>3. held'.refs \in {held.refs, event.remaining, {}}
  BY DEF TakeFailure, Drained, EmitRecord, EmitState, EmitRangeComplete,
         EmitFinalState, EmitComplete
<1>4. Apart(ranges, {})
  BY DEF Apart
<1>5. Apart(ranges, event'.remaining) /\ Apart(ranges, held'.refs)
  BY <1>2, <1>3, <1>4 DEF Disjoint
<1>6. QED
  BY <1>1, <1>5 DEF Disjoint, LiveRefs, PagesInside

\* What an eof serialises is disjoint and inside what it accounts for.
LEMMA EndingTidy ==
  ASSUME Bookkeeping, Disjoint, EndingKnown
  PROVE  Tidy(EndingRemaining, EndingAccounted)
<1>1. CASE held.live
  <2>1. Apart(ranges, held.refs) /\ Within(ranges, timeRange)
    BY DEF Disjoint
  <2>2. held.refs \subseteq DOMAIN ranges
    BY RefsFacts
  <2>3. Tidy({ranges[x] : x \in held.refs}, timeRange)
    BY <2>1, <2>2 DEF Tidy, Apart, Within
  <2>4. QED
    BY <1>1, <2>3 DEF EndingRemaining, EndingAccounted, Deref
<1>2. CASE ~held.live
  BY <1>2 DEF EndingKnown, EndingRemaining, EndingAccounted, Disjoint
<1>3. QED
  BY <1>1, <1>2

\* Discarding a request leaves nothing to keep apart.
LEMMA DiscardDisjoint ==
  ASSUME Discard, stored'.known => Tidy(stored'.remaining, stored'.accounted)
  PROVE  Disjoint'
<1>1. /\ ranges' = <<>> /\ queue' = <<>> /\ inflight' = {} /\ fetched' = {}
      /\ event' = NoEvent /\ held' = NotHeld
  BY DEF Discard
<1>2. LiveRefs' = {}
  BY <1>1 DEF LiveRefs, RangeOf
<1>3. event'.remaining = {} /\ held'.refs = {} /\ DOMAIN ranges' = {}
  BY <1>1 DEF NoEvent, NotHeld
<1>4. QED
  BY <1>1, <1>2, <1>3 DEF Disjoint, PagesInside, Apart, Within

\* Every step keeps Disjoint.
LEMMA NextDisjoint ==
  ASSUME TimeRangesMeet, Bookkeeping, Placed, Disjoint, [Next]_vars
  PROVE  Disjoint'
<1>1. ASSUME NEW tr \in TimeRanges, NewRun(tr)
      PROVE  Disjoint'
  BY <1>1, BeginDisjoint, SilentReturnDisjoint DEF NewRun
<1>2. CASE Continue
  <2>1. timeRange \in TimeRanges /\ timeRange' = timeRange /\ phase = "idle"
    BY <1>2 DEF Continue, Placed
  <2>2. QED
    BY <1>2, <2>1, BeginDisjoint, SilentReturnDisjoint DEF Continue
<1>3. CASE Work
  BY <1>3, FetchPageDisjoint, TakePageDisjoint, LoopDisjoint DEF Work
<1>4. ASSUME NEW x, NEW failure, FetchRejects(x, failure)
      PROVE  Disjoint'
  BY <1>4, FetchRejectsDisjoint
<1>5. CASE Eof
  <2>1. /\ stored'.known = EndingKnown
        /\ stored'.remaining = EndingRemaining
        /\ stored'.accounted = EndingAccounted
        /\ Discard
    BY <1>5 DEF Eof
  <2>2. QED
    BY <2>1, EndingTidy, DiscardDisjoint
<1>6. CASE Crash
  <2>1. Discard /\ UNCHANGED stored
    BY <1>6 DEF Crash
  <2>2. QED
    BY <2>1, DiscardDisjoint DEF Disjoint
<1>7. CASE UNCHANGED vars
  BY <1>7 DEF vars, request, Disjoint, LiveRefs, PagesInside
<1>8. QED
  BY <1>1, <1>2, <1>3, <1>4, <1>5, <1>6, <1>7 DEF Next

-----------------------------------------------------------------------------
(***************************************************************************)
(* Delivery: what a cursor has passed and what was reported complete was   *)
(* delivered, or is in the page that carries it.                           *)
(***************************************************************************)
Done == emitted \cup forgone

\* The objects in the responses to fetches of one range.
Arrived(x) == UNION {f.data : f \in {g \in fetched : g.ref = x}}

CursorsTruthful ==
  \A x \in Refs :
    Behind(ranges[x]) \subseteq Done \cup event.data \cup Arrived(x)

StoredCursorsTruthful ==
  \A r \in stored.remaining : Behind(r) \subseteq Done

\* The last page of a range completes it.
LastPagesTruthful ==
  \A f \in fetched :
    ~f.hasMore /\ f.failure = "none" =>
      InScope(ranges[f.ref]) \subseteq Done \cup event.data \cup f.data

\* What iterateStream is about to report complete is, once it has emitted the
\* rest of the page.
HeadTruthful ==
  phase \in {"records", "status"} =>
    \A q \in CompletedHead : InScope(q) \subseteq Done \cup event.data

StoredCompletedTruthful ==
  \A q \in stored.completed : InScope(q) \subseteq Done

Delivery ==
  /\ CursorsTruthful
  /\ StoredCursorsTruthful
  /\ LastPagesTruthful
  /\ HeadTruthful
  /\ RangeCompleteIsTruthful
  /\ StoredCompletedTruthful

\* What the client keeps stays truthful while it does not change.
LEMMA StoredTruthKept ==
  ASSUME Delivery, UNCHANGED stored, Done \subseteq Done'
  PROVE  StoredCursorsTruthful' /\ StoredCompletedTruthful'
  BY DEF Delivery, StoredCursorsTruthful, StoredCompletedTruthful

\* Delivery holds initially.
LEMMA InitDelivery == Init => Delivery
<1> SUFFICES ASSUME Init PROVE Delivery
  OBVIOUS
<1>1. Refs = {}
  BY DEF Init, Refs
<1>2. QED
  BY <1>1 DEF Init, Delivery, CursorsTruthful, StoredCursorsTruthful,
     LastPagesTruthful, HeadTruthful, RangeCompleteIsTruthful,
     StoredCompletedTruthful

\* A resumed range has nothing undelivered behind its cursor.
LEMMA ResumeTruthful ==
  ASSUME Bookkeeping, Delivery, NEW tr \in Interval, NEW t \in Resume(tr)
  PROVE  Behind(t) \subseteq Done
<1>1. /\ stored.remaining \in SUBSET Range3 /\ stored.accounted \in Interval
  BY DEF Bookkeeping, TypeOK
<1>2. ASSUME t.cursor = NoCursor
      PROVE  Behind(t) = {}
  <2>1. ASSUME NEW i \in InScope(t)
        PROVE  ~(i <= t.cursor)
    <3>1. i \in Nat \ {0}
      BY ScopeType, ObjectsType
    <3>2. QED
      BY <1>2, <3>1 DEF NoCursor
  <2>2. QED
    BY <2>1 DEF Behind
<1>3. CASE ~stored.known
  <2>1. t.cursor = NoCursor
    BY <1>3 DEF Resume, Fresh
  <2>2. QED
    BY <1>2, <2>1
<1>4. CASE stored.known /\ stored.accounted = tr
  BY <1>4 DEF Resume, Delivery, StoredCursorsTruthful
<1>5. CASE stored.known /\ stored.accounted # tr
  <2>1. t \in ReconcileRanges(stored.remaining, stored.accounted, tr)
    BY <1>5 DEF Resume
  <2>2. CASE t.cursor = NoCursor
    BY <1>2, <2>2
  <2>3. CASE t.cursor # NoCursor
    <3>1. PICK r \in stored.remaining :
            /\ t.cursor = r.cursor
            /\ \A s \in Nat : InInterval(s, t) => InInterval(s, r)
      BY <1>1, <2>1, <2>3, ReconcileOrigin
    <3>2. InScope(t) \subseteq InScope(r)
      BY <3>1, ObjectsType DEF InScope
    <3>3. Behind(t) \subseteq Behind(r)
      BY <3>1, <3>2 DEF Behind
    <3>4. QED
      BY <3>3 DEF Delivery, StoredCursorsTruthful
  <2>4. QED
    BY <2>2, <2>3
<1>6. QED
  BY <1>3, <1>4, <1>5

\* Beginning a request establishes Delivery.
LEMMA BeginDelivery ==
  ASSUME Bookkeeping, Delivery, NEW tr \in Interval, Begin(tr),
         phase = "idle", completed' \in {completed, {}},
         UNCHANGED <<emitted, forgone>>
  PROVE  Delivery'
<1>1. /\ phase' = "await" /\ fetched' = fetched /\ UNCHANGED stored
      /\ Done' = Done
  BY DEF Begin, Done
<1>2. fetched' = {}
  BY <1>1 DEF Bookkeeping, IdleEmpty
<1>3. /\ RangeOf(ranges') = Resume(tr)
      /\ DOMAIN ranges' = Refs'
  BY BeginFacts, BeginInjective
<1>4. CursorsTruthful'
  <2>1. ASSUME NEW x \in Refs'
        PROVE  Behind(ranges'[x]) \subseteq Done'
    <3>1. ranges'[x] \in Resume(tr)
      BY <1>3 DEF RangeOf
    <3>2. QED
      BY <1>1, <3>1, ResumeTruthful
  <2>2. QED
    BY <2>1 DEF CursorsTruthful
<1>5. LastPagesTruthful' /\ HeadTruthful'
  BY <1>1, <1>2 DEF LastPagesTruthful, HeadTruthful
<1>6. RangeCompleteIsTruthful'
  BY DEF Delivery, RangeCompleteIsTruthful
<1>7. QED
  BY <1>1, <1>4, <1>5, <1>6, StoredTruthKept DEF Delivery

\* A silent return keeps Delivery.
LEMMA SilentReturnDelivery ==
  ASSUME Bookkeeping, Delivery, NEW tr, NEW st, NEW done \in {completed, {}},
         SilentReturn(tr, st, done), phase = "idle",
         completed' \in {completed, {}}, UNCHANGED <<emitted, forgone>>
  PROVE  Delivery'
<1>1. /\ stored'.remaining = stored.remaining
      /\ stored'.completed = done
      /\ UNCHANGED request
  BY DEF SilentReturn, Bookkeeping, TypeOK
<1>2. /\ phase' = "idle" /\ ranges' = <<>> /\ fetched' = {} /\ Done' = Done
  BY <1>1 DEF request, Bookkeeping, IdleEmpty, Done
<1>3. Refs' = {}
  BY <1>2 DEF Refs
<1>4. CursorsTruthful' /\ LastPagesTruthful' /\ HeadTruthful'
  BY <1>2, <1>3 DEF CursorsTruthful, LastPagesTruthful, HeadTruthful
<1>5. StoredCursorsTruthful'
  BY <1>1, <1>2 DEF Delivery, StoredCursorsTruthful
<1>6. \A q \in completed : InScope(q) \subseteq Done
  BY DEF Delivery, RangeCompleteIsTruthful, Done
<1>7. StoredCompletedTruthful'
  BY <1>1, <1>2, <1>6 DEF StoredCompletedTruthful
<1>8. RangeCompleteIsTruthful'
  BY <1>6 DEF RangeCompleteIsTruthful, Done
<1>9. QED
  BY <1>4, <1>5, <1>7, <1>8 DEF Delivery

\* A range stands for what its cursor has passed and what is in its reach.
LEMMA ScopeSplits ==
  ASSUME NEW r \in Range3
  PROVE  InScope(r) = Behind(r) \cup Reach(r)
<1>1. ASSUME NEW i \in InScope(r)
      PROVE  i <= r.cursor \/ i > r.cursor
  <2>1. i \in Nat /\ r.cursor \in Nat
    BY ScopeType, ObjectsType DEF Range3
  <2>2. QED
    BY <2>1
<1>2. QED
  BY <1>1 DEF InScope, Behind, Reach

\* The arrival of a page keeps Delivery.
LEMMA FetchPageDelivery ==
  ASSUME Bookkeeping, Delivery, NEW x \in inflight, FetchPageForRange(x)
  PROVE  Delivery'
<1>1. /\ UNCHANGED <<phase, event, completed, stored, emitted, forgone>>
      /\ x \notin Answered
  BY DEF FetchPageForRange
<1>2. PICK last \in Nat, f \in Response :
        /\ last \in Page(ranges[x])
             \/ (Page(ranges[x]) = {} /\ last = NoCursor)
        /\ f.ref = x /\ f.data = Page(ranges[x])
        /\ f.hasMore = (Reach(ranges[x]) # Page(ranges[x]))
        /\ fetched' = fetched \cup {f}
        /\ ranges' = [ranges EXCEPT ![x].cursor =
                        IF f.hasMore THEN last ELSE NoCursor]
  BY FetchFacts
<1>3. /\ Refs' = Refs /\ x \in Refs
      /\ \A y \in Refs : /\ ranges'[y].gte = ranges[y].gte
                         /\ ranges'[y].lt = ranges[y].lt
                         /\ InScope(ranges'[y]) = InScope(ranges[y])
                         /\ y # x => ranges'[y] = ranges[y]
  BY FetchHeap DEF Bookkeeping, TypeOK
<1>4. Done' = Done
  BY <1>1 DEF Done
<1>5. /\ \A y \in Refs : y # x => Arrived(y)' = Arrived(y)
      /\ Arrived(x) = {}
      /\ f.data \subseteq Arrived(x)'
  BY <1>1, <1>2 DEF Arrived, Answered
<1>6. ranges[x] \in Range3
  BY <1>3 DEF Bookkeeping, TypeOK, Refs
<1>7. Behind(ranges[x]) \subseteq Done \cup event.data
  BY <1>3, <1>5 DEF Delivery, CursorsTruthful
<1>8. Behind(ranges'[x]) \subseteq Done \cup event.data \cup f.data
  <2>1. ASSUME NEW i \in InScope(ranges[x]), i <= ranges'[x].cursor
        PROVE  i \in Behind(ranges[x]) \cup f.data
    <3>1. i \in Nat \ {0}
      BY ScopeType, ObjectsType
    <3>2. ranges'[x].cursor = IF f.hasMore THEN last ELSE NoCursor
      BY <1>2, <1>3, <1>6, RefsFacts DEF Range3
    <3>3. i <= last /\ last # NoCursor
      BY <2>1, <3>1, <3>2 DEF NoCursor
    <3>4. last \in Page(ranges[x])
      BY <1>2, <3>3
    <3>5. i \in Behind(ranges[x]) \/ i \in Reach(ranges[x])
      BY <1>6, <2>1, ScopeSplits
    <3>6. i \in Reach(ranges[x]) => i \in Page(ranges[x])
      BY <3>1, <3>3, <3>4, PageIsPrefix
    <3>7. QED
      BY <1>2, <3>5, <3>6
  <2>2. QED
    BY <1>3, <1>7, <2>1 DEF Behind
<1>9. CursorsTruthful'
  <2>1. ASSUME NEW y \in Refs
        PROVE  Behind(ranges'[y]) \subseteq
                 Done \cup event.data \cup Arrived(y)'
    <3>1. CASE y = x
      BY <1>5, <1>8, <3>1
    <3>2. CASE y # x
      BY <1>3, <1>5, <3>2 DEF Delivery, CursorsTruthful
    <3>3. QED
      BY <3>1, <3>2
  <2>2. QED
    BY <1>1, <1>3, <1>4, <2>1 DEF CursorsTruthful
<1>10. LastPagesTruthful'
  <2>1. ASSUME ~f.hasMore
        PROVE  InScope(ranges'[x]) \subseteq Done \cup event.data \cup f.data
    <3>1. Reach(ranges[x]) = f.data
      BY <1>2, <2>1
    <3>2. InScope(ranges[x]) = Behind(ranges[x]) \cup f.data
      BY <1>6, <3>1, ScopeSplits
    <3>3. InScope(ranges'[x]) = InScope(ranges[x])
      BY <1>3
    <3>4. QED
      BY <1>7, <3>2, <3>3
  <2>2. ASSUME NEW g \in fetched, ~g.hasMore, g.failure = "none"
        PROVE  InScope(ranges'[g.ref]) \subseteq
                 Done \cup event.data \cup g.data
    <3>1. g.ref \in Refs
      BY RefsFacts
    <3>2. QED
      BY <1>3, <2>2, <3>1 DEF Delivery, LastPagesTruthful
  <2>3. QED
    BY <1>1, <1>2, <1>4, <2>1, <2>2 DEF LastPagesTruthful
<1>11. HeadTruthful'
  <2>1. CASE phase \in {"records", "status"}
    <3>1. event.ref \in Refs
      BY <2>1 DEF Bookkeeping, EventDrained
    <3>2. CompletedHead' = CompletedHead
      BY <1>1, <1>3, <3>1 DEF CompletedHead
    <3>3. QED
      BY <1>1, <1>4, <3>2 DEF Delivery, HeadTruthful
  <2>2. CASE phase \notin {"records", "status"}
    BY <1>1, <2>2 DEF HeadTruthful
  <2>3. QED
    BY <2>1, <2>2
<1>12. RangeCompleteIsTruthful'
  BY <1>1 DEF Delivery, RangeCompleteIsTruthful
<1>13. QED
  BY <1>1, <1>4, <1>9, <1>10, <1>11, <1>12, StoredTruthKept DEF Delivery

\* A failed fetch keeps Delivery.
LEMMA FetchRejectsDelivery ==
  ASSUME Bookkeeping, Delivery, NEW x,
         NEW failure \in {"error", "skip"}, FetchRejects(x, failure)
  PROVE  Delivery'
<1> DEFINE f == [ref |-> x, failure |-> failure, data |-> {},
                 hasMore |-> FALSE, lastObserved |-> NoObservation]
<1>1. /\ fetched' = fetched \cup {f}
      /\ UNCHANGED <<phase, ranges, event, completed, stored, emitted,
                     forgone>>
  BY DEF FetchRejects
<1>2. f.failure # "none"
  OBVIOUS
<1> HIDE DEF f
<1>3. Done' = Done /\ Refs' = Refs /\ CompletedHead' = CompletedHead
  BY <1>1 DEF Done, Refs, CompletedHead
<1>4. \A y : Arrived(y) \subseteq Arrived(y)'
  BY <1>1 DEF Arrived
<1>5. CursorsTruthful'
  BY <1>1, <1>3, <1>4 DEF Delivery, CursorsTruthful
<1>6. LastPagesTruthful'
  BY <1>1, <1>2, <1>3 DEF Delivery, LastPagesTruthful
<1>7. HeadTruthful' /\ RangeCompleteIsTruthful'
  BY <1>1, <1>3 DEF Delivery, HeadTruthful, RangeCompleteIsTruthful
<1>8. QED
  BY <1>1, <1>3, <1>5, <1>6, <1>7, StoredTruthKept DEF Delivery

\* Taking a page keeps Delivery: its head is complete but for the page itself,
\* and the children have nothing undelivered behind their cursors.
LEMMA TakePageDelivery ==
  ASSUME Bookkeeping, Disjoint, Delivery, NEW f \in fetched, TakePage(f)
  PROVE  Delivery'
<1>1. /\ phase = "await" /\ f.failure = "none"
      /\ fetched' = fetched \ {f}
      /\ event'.ref = f.ref /\ event'.data = f.data
      /\ event'.hasMore = f.hasMore /\ event'.oldest = f.lastObserved
      /\ UNCHANGED <<completed, stored, emitted, forgone>>
  BY DEF TakePage
<1>2. ranges' = ranges \o NewRanges(f)
  BY TakePageFacts
<1>3. PICK h : h = ranges'
  OBVIOUS
<1>4. /\ Len(ranges) \in Nat /\ Len(NewRanges(f)) \in Nat
      /\ Len(h) = Len(ranges) + Len(NewRanges(f))
      /\ \A y \in Refs : h[y] = ranges[y]
      /\ \A k \in 1 .. Len(NewRanges(f)) :
           h[Len(ranges) + k] = NewRanges(f)[k]
  BY <1>2, <1>3, HeapGrows
<1>5. event.data = {} /\ Done' = Done
  BY <1>1 DEF Bookkeeping, EventDrained, Done
<1>6. /\ \A y : y # f.ref => Arrived(y)' = Arrived(y)
      /\ Arrived(f.ref) = f.data
  <2>1. \A g \in fetched : g.ref = f.ref => g = f
    BY DEF Bookkeeping, ResponsesPending
  <2>2. QED
    BY <1>1, <2>1 DEF Arrived
<1>7. Behind(ranges[f.ref]) \subseteq Done \cup f.data
  BY <1>5, <1>6, RefsFacts DEF Delivery, CursorsTruthful
<1>8. CursorsTruthful'
  <2>1. ASSUME NEW y \in Refs'
        PROVE  Behind(h[y]) \subseteq Done \cup f.data \cup Arrived(y)'
    <3>1. CASE y = f.ref
      BY <1>4, <1>7, <3>1, RefsFacts
    <3>2. CASE y \in Refs /\ y # f.ref
      BY <1>4, <1>5, <1>6, <3>2 DEF Delivery, CursorsTruthful
    <3>3. CASE y \notin Refs
      <4>1. y - Len(ranges) \in 1 .. Len(NewRanges(f))
            /\ Len(ranges) + (y - Len(ranges)) = y
        BY <1>3, <1>4, <2>1, <3>3 DEF Refs
      <4>2. h[y] = NewRanges(f)[y - Len(ranges)]
        BY <1>4, <4>1
      <4>3. Split(f)
        BY <4>1 DEF NewRanges
      <4>4. Behind(h[y]) \subseteq Behind(ranges[f.ref])
        BY <4>1, <4>2, <4>3, ChildScope
      <4>5. QED
        BY <1>7, <4>4
    <3>4. QED
      BY <3>1, <3>2, <3>3
  <2>2. QED
    BY <1>1, <1>3, <1>5, <2>1 DEF CursorsTruthful
<1>9. LastPagesTruthful'
  <2>1. ASSUME NEW g \in fetched, ~g.hasMore, g.failure = "none"
        PROVE  InScope(ranges'[g.ref]) \subseteq Done \cup g.data
    <3>1. ranges'[g.ref] = ranges[g.ref]
      BY <1>3, <1>4, RefsFacts
    <3>2. QED
      BY <1>5, <2>1, <3>1 DEF Delivery, LastPagesTruthful
  <2>2. QED
    BY <1>1, <1>5, <2>1 DEF LastPagesTruthful
<1>10. HeadTruthful'
  <2> DEFINE r == ranges[f.ref]
  <2>1. /\ ranges'[f.ref] = r
        /\ r \in Range3
    BY <1>3, <1>4, RefsFacts DEF Bookkeeping, TypeOK, Refs
  <2>2. CompletedHead' =
          IF ~f.hasMore THEN {[gte |-> r.gte, lt |-> r.lt]}
          ELSE IF /\ f.lastObserved # NoObservation
                  /\ f.lastObserved + 1 < r.lt
               THEN {[gte |-> f.lastObserved + 1, lt |-> r.lt]}
               ELSE {}
    BY <1>1, <2>1 DEF CompletedHead
  <2> HIDE DEF r
  <2>3. ASSUME ~f.hasMore
        PROVE  InScope([gte |-> r.gte, lt |-> r.lt]) \subseteq Done \cup f.data
    <3>1. InScope([gte |-> r.gte, lt |-> r.lt]) = InScope(r)
      BY DEF InScope, InInterval
    <3>2. QED
      BY <1>1, <1>5, <2>3, <3>1 DEF Delivery, LastPagesTruthful, r
  <2>4. ASSUME f.hasMore, f.lastObserved # NoObservation
        PROVE  InScope([gte |-> f.lastObserved + 1, lt |-> r.lt])
                 \subseteq Done \cup f.data
    <3>1. /\ r.cursor \in InScope(r) /\ r.cursor \in Objects
          /\ f.lastObserved = Created[r.cursor]
      BY <2>4 DEF Disjoint, PagesInside, Bookkeeping, ResponseCursor, r
    <3>2. r.gte <= Created[r.cursor] /\ r.gte \in Nat /\ r.cursor \in Nat
          /\ Created[r.cursor] \in Nat
      BY <2>1, <3>1, ObjectsType, ScopeSecond DEF InInterval, Range3
    <3>3. ASSUME NEW i \in Objects,
                 f.lastObserved + 1 <= Created[i], Created[i] < r.lt
          PROVE  i \in Behind(r)
      <4>1. i \in Nat /\ Created[i] \in Nat
        BY ObjectsType
      <4>2. r.gte <= Created[i] /\ ~(Created[i] <= Created[r.cursor])
        BY <3>1, <3>2, <3>3, <4>1
      <4>3. i <= r.cursor
        BY <3>1, <3>2, <4>1, <4>2, ObjectsType
      <4>4. QED
        BY <3>3, <4>2, <4>3 DEF Behind, InScope, InInterval
    <3>4. InScope([gte |-> f.lastObserved + 1, lt |-> r.lt]) \subseteq Behind(r)
      BY <3>3 DEF InScope, InInterval
    <3>5. QED
      BY <1>7, <3>4 DEF r
  <2>5. \A q \in CompletedHead' : InScope(q) \subseteq Done \cup f.data
    BY <2>2, <2>3, <2>4
  <2>6. QED
    BY <1>1, <1>5, <2>5 DEF HeadTruthful
<1>11. RangeCompleteIsTruthful'
  BY <1>1 DEF Delivery, RangeCompleteIsTruthful
<1>12. QED
  BY <1>1, <1>5, <1>8, <1>9, <1>10, <1>11, StoredTruthKept DEF Delivery

\* The steps of the message loop keep Delivery.
LEMMA LoopDelivery ==
  ASSUME Bookkeeping, Delivery,
         \/ \E f \in fetched : TakeFailure(f)
         \/ Drained
         \/ EmitRecord \/ EmitState \/ EmitRangeComplete
         \/ EmitFinalState \/ EmitComplete
  PROVE  Delivery'
<1>1. /\ UNCHANGED <<ranges, fetched, stored>>
      /\ emitted \subseteq emitted' /\ forgone \subseteq forgone'
  BY DEF TakeFailure, Drained, EmitRecord, EmitState, EmitRangeComplete,
         EmitFinalState, EmitComplete
<1>2. Done \subseteq Done'
  BY <1>1 DEF Done
<1>3. Done \cup event.data \subseteq Done' \cup event'.data
  <2>1. CASE EmitRecord
    <3>1. PICK i \in event.data :
            /\ event' = [event EXCEPT !.data = @ \ {i}]
            /\ emitted' = emitted \cup {i}
      BY <2>1 DEF EmitRecord
    <3>2. event.data \subseteq event'.data \cup {i}
      BY <3>1 DEF Bookkeeping, TypeOK
    <3>3. QED
      BY <1>2, <3>1, <3>2 DEF Done
  <2>2. CASE EmitRangeComplete
    <3>1. event.data = {}
      BY <2>2 DEF EmitRangeComplete, Bookkeeping, EventDrained
    <3>2. QED
      BY <1>2, <3>1
  <2>3. CASE UNCHANGED event
    BY <1>2, <2>3
  <2>4. QED
    BY <2>1, <2>2, <2>3 DEF TakeFailure, Drained, EmitState, EmitFinalState,
       EmitComplete
<1>4. Refs' = Refs /\ \A y : Arrived(y)' = Arrived(y)
  BY <1>1 DEF Refs, Arrived
<1>5. CursorsTruthful'
  BY <1>1, <1>3, <1>4 DEF Delivery, CursorsTruthful
<1>6. LastPagesTruthful'
  BY <1>1, <1>3 DEF Delivery, LastPagesTruthful
<1>7. HeadTruthful'
  <2>1. CASE EmitRecord \/ EmitState
    <3>1. /\ phase = "records"
          /\ event'.ref = event.ref /\ event'.hasMore = event.hasMore
          /\ event'.oldest = event.oldest
      BY <2>1 DEF EmitRecord, EmitState, Bookkeeping, TypeOK
    <3>2. CompletedHead' = CompletedHead
      BY <1>1, <3>1 DEF CompletedHead
    <3>3. QED
      BY <1>3, <3>1, <3>2 DEF Delivery, HeadTruthful
  <2>2. CASE ~EmitRecord /\ ~EmitState
    <3>1. phase' \notin {"records", "status"}
      BY <2>2 DEF TakeFailure, Drained, EmitRangeComplete, EmitFinalState,
         EmitComplete
    <3>2. QED
      BY <3>1 DEF HeadTruthful
  <2>3. QED
    BY <2>1, <2>2
<1>8. RangeCompleteIsTruthful'
  <2>1. CASE EmitRangeComplete
    <3>1. /\ phase = "status" /\ event.data = {}
          /\ completed' \in {completed, MergeRanges(completed \cup CompletedHead)}
      BY <2>1 DEF EmitRangeComplete, Bookkeeping, EventDrained
    <3>2. \A q \in completed \cup CompletedHead : InScope(q) \subseteq Done
      BY <3>1 DEF Delivery, HeadTruthful, RangeCompleteIsTruthful, Done
    <3>3. completed \cup CompletedHead \in SUBSET Interval
      <4>1. ranges[event.ref] \in Range3 /\ event.oldest \in Nat
        BY <3>1 DEF Bookkeeping, EventDrained, TypeOK, Refs
      <4>2. CompletedHead \subseteq Interval
        BY <4>1 DEF CompletedHead, Range3, Interval
      <4>3. QED
        BY <4>2 DEF Bookkeeping, TypeOK
    <3>4. ASSUME NEW q \in MergeRanges(completed \cup CompletedHead),
                 NEW i \in InScope(q)
          PROVE  i \in Done
      <4>1. i \in Objects /\ Created[i] \in Nat /\ InInterval(Created[i], q)
        BY ScopeSecond, ObjectsType
      <4>2. PICK p \in completed \cup CompletedHead : InInterval(Created[i], p)
        BY <3>3, <4>1, MergeInside
      <4>3. QED
        BY <3>2, <4>1, <4>2, ScopeSecond
    <3>5. \A q \in completed' : InScope(q) \subseteq Done
      BY <3>1, <3>2, <3>4
    <3>6. QED
      BY <1>2, <3>5 DEF RangeCompleteIsTruthful, Done
  <2>2. CASE UNCHANGED completed
    BY <1>1, <2>2 DEF Delivery, RangeCompleteIsTruthful
  <2>3. QED
    BY <2>1, <2>2 DEF TakeFailure, Drained, EmitRecord, EmitState,
       EmitFinalState, EmitComplete
<1>9. QED
  BY <1>1, <1>2, <1>5, <1>6, <1>7, <1>8, StoredTruthKept DEF Delivery

\* What a cut leaves behind the cursors of its checkpoint is what Missed
\* names: no other range of the checkpoint looks for it.
LEMMA CutTruthful ==
  ASSUME Bookkeeping, Disjoint, Delivery, held.live, NEW x \in held.refs
  PROVE  Behind(ranges[x]) \subseteq Done \cup Missed
<1>1. x \in Refs /\ x \in DOMAIN ranges /\ ranges[x] \in Range3
  BY RefsFacts DEF Bookkeeping, TypeOK, Refs
<1>2. ASSUME NEW i \in Behind(ranges[x]), i \notin Done
      PROVE  i \in Missed
  <2>1. i \in InScope(ranges[x]) /\ i <= ranges[x].cursor
    BY DEF Behind
  <2>2. i \in Undelivered
    BY <1>1, <1>2 DEF Delivery, CursorsTruthful, Undelivered, Arrived
  <2>3. i \in InScope(timeRange)
    BY <1>1, <2>1 DEF Disjoint, Within
  <2>4. ASSUME NEW y \in held.refs, i \in Reach(ranges[y])
        PROVE  FALSE
    <3>1. i \in InScope(ranges[y]) /\ i > ranges[y].cursor
      BY <2>4 DEF Reach, InScope
    <3>2. y = x
      BY <2>1, <3>1 DEF Disjoint, Apart
    <3>3. i \in Nat /\ ranges[x].cursor \in Nat
      BY <1>1, <2>1, ScopeType, ObjectsType DEF Range3
    <3>4. QED
      BY <2>1, <3>1, <3>2, <3>3
  <2>5. i \notin ReachAll(Deref(held.refs))
    BY <2>4 DEF ReachAll, Deref
  <2>6. QED
    BY <1>2, <2>2, <2>3, <2>5 DEF Missed, EndingKnown, EndingAccounted,
       EndingRemaining, Done
<1>3. QED
  BY <1>2

\* Without a request, Delivery is about what the client keeps.
LEMMA DiscardDelivery ==
  ASSUME Discard, StoredCursorsTruthful', StoredCompletedTruthful',
         RangeCompleteIsTruthful'
  PROVE  Delivery'
<1>1. Refs' = {}
  BY DEF Discard, Refs
<1>2. CursorsTruthful' /\ LastPagesTruthful' /\ HeadTruthful'
  BY <1>1 DEF Discard, CursorsTruthful, LastPagesTruthful, HeadTruthful
<1>3. QED
  BY <1>2 DEF Delivery

\* The end of a request keeps Delivery.
LEMMA EofDelivery ==
  ASSUME Bookkeeping, Disjoint, Delivery, Eof
  PROVE  Delivery'
<1>1. /\ Discard
      /\ stored'.remaining = EndingRemaining
      /\ stored'.completed = completed
      /\ forgone' = forgone \cup Missed
      /\ UNCHANGED <<completed, emitted>>
  BY DEF Eof
<1>2. Done' = Done \cup Missed
  BY <1>1 DEF Done
<1>3. \A r \in EndingRemaining : Behind(r) \subseteq Done \cup Missed
  <2>1. CASE held.live
    BY <2>1, CutTruthful DEF EndingRemaining, Deref
  <2>2. CASE ~held.live
    BY <2>2 DEF EndingRemaining, Delivery, StoredCursorsTruthful
  <2>3. QED
    BY <2>1, <2>2
<1>4. StoredCursorsTruthful'
  BY <1>1, <1>2, <1>3 DEF StoredCursorsTruthful
<1>5. StoredCompletedTruthful' /\ RangeCompleteIsTruthful'
  BY <1>1, <1>2 DEF Delivery, RangeCompleteIsTruthful,
     StoredCompletedTruthful, Done
<1>6. QED
  BY <1>1, <1>4, <1>5, DiscardDelivery

\* A crash keeps Delivery.
LEMMA CrashDelivery ==
  ASSUME Delivery, Crash
  PROVE  Delivery'
<1>1. /\ Discard /\ UNCHANGED <<stored, emitted, forgone>>
      /\ completed' = stored.completed
  BY DEF Crash
<1>2. Done' = Done
  BY <1>1 DEF Done
<1>3. StoredCursorsTruthful' /\ StoredCompletedTruthful'
  BY <1>1, <1>2, StoredTruthKept
<1>4. RangeCompleteIsTruthful'
  BY <1>1 DEF Delivery, StoredCompletedTruthful, RangeCompleteIsTruthful, Done
<1>5. QED
  BY <1>1, <1>3, <1>4, DiscardDelivery

\* Every step keeps Delivery.
LEMMA NextDelivery ==
  ASSUME Bookkeeping, Disjoint, Delivery, [Next]_vars
  PROVE  Delivery'
<1>1. ASSUME NEW tr \in TimeRanges, NewRun(tr)
      PROVE  Delivery'
  <2>1. /\ tr \in Interval /\ phase = "idle" /\ completed' = {}
        /\ UNCHANGED <<emitted, forgone>>
    BY <1>1, ParameterAssumption DEF NewRun
  <2>2. CASE Begin(tr)
    BY <2>1, <2>2, BeginDelivery
  <2>3. CASE SilentReturn(tr, "not_started", {})
    BY <2>1, <2>3, SilentReturnDelivery
  <2>4. QED
    BY <1>1, <2>2, <2>3 DEF NewRun
<1>2. CASE Continue
  <2>1. /\ timeRange \in Interval /\ phase = "idle" /\ completed' = completed
        /\ UNCHANGED <<emitted, forgone>>
    BY <1>2 DEF Continue, Bookkeeping, TypeOK
  <2>2. CASE Begin(timeRange)
    BY <2>1, <2>2, BeginDelivery
  <2>3. CASE SilentReturn(timeRange, status, completed)
    BY <2>1, <2>3, SilentReturnDelivery
  <2>4. QED
    BY <1>2, <2>2, <2>3 DEF Continue
<1>3. CASE Work
  BY <1>3, FetchPageDelivery, TakePageDelivery, LoopDelivery DEF Work
<1>4. ASSUME NEW x \in inflight, NEW failure \in {"error", "skip"},
             FetchRejects(x, failure)
      PROVE  Delivery'
  BY <1>4, FetchRejectsDelivery
<1>5. CASE UNCHANGED vars
  <2>1. UNCHANGED <<phase, ranges, fetched, event, completed, stored, emitted,
                    forgone>>
    BY <1>5 DEF vars, request
  <2>2. Done' = Done /\ Refs' = Refs /\ CompletedHead' = CompletedHead
        /\ \A y : Arrived(y)' = Arrived(y)
    BY <2>1 DEF Done, Refs, CompletedHead, Arrived
  <2>3. CursorsTruthful' /\ LastPagesTruthful' /\ HeadTruthful'
        /\ RangeCompleteIsTruthful'
    BY <2>1, <2>2 DEF Delivery, CursorsTruthful, LastPagesTruthful,
       HeadTruthful, RangeCompleteIsTruthful
  <2>4. QED
    BY <2>1, <2>2, <2>3, StoredTruthKept DEF Delivery
<1>6. QED
  BY <1>1, <1>2, <1>3, <1>4, <1>5, EofDelivery, CrashDelivery DEF Next

\* The inductive invariant.
LEMMA DeliveryInvariant ==
  ASSUME TimeRangesMeet
  PROVE  Spec => [](Bookkeeping /\ Placed /\ Disjoint /\ Delivery)
<1>1. Init => Bookkeeping /\ Placed /\ Disjoint /\ Delivery
  BY InitBookkeeping, InitDisjoint, InitDelivery
<1>2. Bookkeeping /\ Placed /\ Disjoint /\ Delivery /\ [Next]_vars
        => (Bookkeeping /\ Placed /\ Disjoint /\ Delivery)'
  BY NextBookkeeping, NextPlaced, NextDisjoint, NextDelivery
<1>3. QED
  BY <1>1, <1>2, PTL DEF Spec

(***************************************************************************)
(* `range_complete' is truthful: when time ranges meet, every object of a  *)
(* range the progress bar shows as complete has been emitted or forgone,   *)
(* whether the range was split, passed through, trimmed by                 *)
(* reconcileRanges, cut or resumed on the way, and also after ranges were  *)
(* merged.                                                                 *)
(***************************************************************************)
THEOREM RangeCompletionTruthful ==
  ASSUME TimeRangesMeet
  PROVE  Spec => []RangeCompleteIsTruthful
<1>1. Bookkeeping /\ Placed /\ Disjoint /\ Delivery => RangeCompleteIsTruthful
  BY DEF Delivery
<1>2. QED
  BY <1>1, DeliveryInvariant, PTL

-----------------------------------------------------------------------------
(***************************************************************************)
(* What a request still has to emit, in a page or in reach of a range of   *)
(* its work-queue, it has not emitted, and no object is in two of these.   *)
(***************************************************************************)
Shown == seen \cup event.data

Once ==
  /\ seen \cap event.data = {}
  /\ \A f \in fetched : f.data \cap Shown = {}
  /\ \A x \in OpenRefs : Reach(ranges[x]) \cap Shown = {}
  /\ \A f \in fetched :
       f.ref \in OpenRefs => f.data \cap Reach(ranges[f.ref]) = {}

\* A list request without a result says that there is nothing more.
LEMMA PageNonempty ==
  ASSUME NEW r, Reach(r) # {}
  PROVE  Page(r) # {}
<1>1. Reach(r) \in SUBSET Nat
  BY ReachType, ObjectsType
<1>2. PICK g \in Reach(r) : \A h \in Reach(r) : g <= h
  BY <1>1, NatHasLeast
<1>3. {j \in Reach(r) : j <= g} = {g}
  BY <1>1, <1>2
<1>4. Cardinality({g}) = 1
  BY FS_Singleton
<1>5. 1 <= PageSize
  BY ParameterAssumption
<1>6. g \in Page(r)
  BY <1>3, <1>4, <1>5 DEF Page
<1>7. QED
  BY <1>6

\* Between requests nothing is shown.
LEMMA IdleOnce ==
  ASSUME seen = {}, event.data = {}, fetched = {}
  PROVE  Once
  BY DEF Once, Shown

\* Once holds initially.
LEMMA InitOnce == Init => Once
  BY IdleOnce DEF Init, NoEvent

\* The arrival of a page keeps Once: the page leaves the reach of its range.
LEMMA FetchPageOnce ==
  ASSUME Bookkeeping, Once, NEW x \in inflight, FetchPageForRange(x)
  PROVE  Once'
<1>1. /\ UNCHANGED <<queue, inflight, event, seen>>
      /\ x \notin Answered
  BY DEF FetchPageForRange
<1>2. PICK last \in Nat, f \in Response :
        /\ last \in Page(ranges[x])
             \/ (Page(ranges[x]) = {} /\ last = NoCursor)
        /\ \A i \in Page(ranges[x]) : i <= last
        /\ f.ref = x /\ f.data = Page(ranges[x]) /\ f.failure = "none"
        /\ f.hasMore = (Reach(ranges[x]) # Page(ranges[x]))
        /\ fetched' = fetched \cup {f}
        /\ ranges' = [ranges EXCEPT ![x].cursor =
                        IF f.hasMore THEN last ELSE NoCursor]
  BY FetchFacts
<1>3. /\ x \in Refs /\ x \in DOMAIN ranges /\ ranges[x] \in Range3
      /\ \A y \in Refs : y # x => ranges'[y] = ranges[y]
  BY FetchHeap DEF Bookkeeping, TypeOK, Refs
<1>4. x \in OpenRefs
  BY <1>1 DEF OpenRefs
<1>5. Shown' = Shown
  BY <1>1 DEF Shown
<1>6. \A g \in fetched : g.ref # x
  BY <1>1 DEF Answered
<1>7. ASSUME NEW y \in OpenRefs'
      PROVE  y \in OpenRefs /\ (y = x => f.hasMore)
  <2>1. Answered' = Answered \cup {x}
    BY <1>2 DEF Answered
  <2>2. x \notin RangeOf(queue)
    BY DEF Bookkeeping, QueueDistinct
  <2>3. QED
    BY <1>1, <1>2, <1>4, <1>6, <2>1, <2>2 DEF OpenRefs
<1>8. ASSUME f.hasMore
      PROVE  /\ Reach(ranges'[x]) \subseteq Reach(ranges[x])
             /\ Reach(ranges'[x]) \cap f.data = {}
  <2>1. Reach(ranges[x]) # {}
    BY <1>2, <1>8, ReachType
  <2>2. last \in Page(ranges[x]) /\ last \in Reach(ranges[x])
    BY <1>2, <2>1, PageNonempty, ReachType
  <2>3. /\ ranges'[x].gte = ranges[x].gte /\ ranges'[x].lt = ranges[x].lt
        /\ ranges'[x].cursor = last
    BY <1>2, <1>3, <1>8 DEF Range3
  <2>4. ASSUME NEW i \in Reach(ranges'[x])
        PROVE  i \in Reach(ranges[x]) /\ i \notin f.data
    <3>1. i \in Objects /\ InInterval(Created[i], ranges[x]) /\ i > last
      BY <2>3 DEF Reach, InInterval
    <3>2. i \in Nat /\ last \in Nat /\ ranges[x].cursor \in Nat
      BY <1>3, <3>1, ObjectsType DEF Range3
    <3>3. last > ranges[x].cursor
      BY <2>2 DEF Reach
    <3>4. i \in Reach(ranges[x])
      BY <3>1, <3>2, <3>3 DEF Reach
    <3>5. ~(i <= last)
      BY <3>1, <3>2
    <3>6. QED
      BY <1>2, <3>4, <3>5
  <2>5. QED
    BY <2>4
<1>9. f.data \cap Shown = {}
  BY <1>2, <1>4, ReachType DEF Once
<1>10. \A y \in OpenRefs' : Reach(ranges'[y]) \cap Shown = {}
  <2>1. ASSUME NEW y \in OpenRefs'
        PROVE  Reach(ranges'[y]) \subseteq Reach(ranges[y])
    BY <1>3, <1>7, <1>8, RefsFacts
  <2>2. QED
    BY <1>7, <2>1 DEF Once
<1>11. ASSUME NEW g \in fetched', g.ref \in OpenRefs'
       PROVE  g.data \cap Reach(ranges'[g.ref]) = {}
  <2>1. CASE g = f
    BY <1>2, <1>7, <1>8, <1>11, <2>1
  <2>2. CASE g \in fetched
    BY <1>3, <1>6, <1>7, <1>11, <2>2, RefsFacts DEF Once
  <2>3. QED
    BY <1>2, <2>1, <2>2
<1>12. \A g \in fetched' : g.data \cap Shown = {}
  BY <1>2, <1>9 DEF Once
<1>13. QED
  BY <1>1, <1>5, <1>10, <1>11, <1>12 DEF Once

\* A failed fetch keeps Once.
LEMMA FetchRejectsOnce ==
  ASSUME Bookkeeping, Once, NEW x \in inflight,
         NEW failure \in {"error", "skip"}, FetchRejects(x, failure)
  PROVE  Once'
<1> DEFINE f == [ref |-> x, failure |-> failure, data |-> {},
                 hasMore |-> FALSE, lastObserved |-> NoObservation]
<1>1. /\ fetched' = fetched \cup {f}
      /\ UNCHANGED <<ranges, queue, inflight, event, seen>>
      /\ x \in OpenRefs
  BY DEF FetchRejects, OpenRefs
<1>2. f.ref = x /\ f.data = {}
  OBVIOUS
<1> HIDE DEF f
<1>3. OpenRefs' \subseteq OpenRefs
  <2>1. Answered \subseteq Answered'
    BY <1>1 DEF Answered
  <2>2. QED
    BY <1>1, <1>2, <2>1 DEF OpenRefs
<1>4. Shown' = Shown
  BY <1>1 DEF Shown
<1>5. QED
  BY <1>1, <1>2, <1>3, <1>4 DEF Once

\* Taking a page keeps Once: its objects are in no other page and in reach of
\* no range of the work-queue.
LEMMA TakePageOnce ==
  ASSUME Bookkeeping, Disjoint, Once, NEW f \in fetched, TakePage(f)
  PROVE  Once'
<1>1. /\ phase = "await" /\ fetched' = fetched \ {f}
      /\ event'.data = f.data /\ seen' = seen
  BY DEF TakePage
<1>2. /\ ranges' = ranges \o NewRanges(f)
      /\ inflight' \cup RangeOf(queue') =
           (inflight \ {f.ref}) \cup RangeOf(queue) \cup RangeOf(Requeued(f))
      /\ inflight \ {f.ref} \subseteq inflight'
      /\ RangeOf(queue') \cap inflight' = {}
  BY TakePageFacts DEF QueueDistinct
<1>3. PICK h : h = ranges'
  OBVIOUS
<1>4. /\ \A y \in Refs : h[y] = ranges[y]
      /\ \A k \in 1 .. Len(NewRanges(f)) :
           h[Len(ranges) + k] = NewRanges(f)[k]
      /\ Len(ranges) \in Nat /\ Len(NewRanges(f)) \in Nat
  BY <1>2, <1>3, HeapGrows
<1>5. /\ Shown' = seen \cup f.data /\ seen \subseteq Shown
      /\ f.data \cap seen = {}
  BY <1>1 DEF Shown, Once
<1>6. /\ f.ref \in Refs /\ f.ref \in inflight
      /\ RangeOf(queue) \cap inflight = {}
      /\ \A g \in fetched' : g \in fetched /\ g.ref # f.ref
                               /\ g.ref \in Refs /\ g.ref \in inflight
  <2>1. \A g \in fetched : g.ref = f.ref => g = f
    BY DEF Bookkeeping, ResponsesPending
  <2>2. QED
    BY <1>1, <2>1, RefsFacts DEF Bookkeeping, QueueDistinct
<1>7. ASSUME NEW y \in LiveRefs, y # f.ref
      PROVE  f.data \cap InScope(ranges[y]) = {}
  <2>1. f.ref \in LiveRefs
    BY <1>6 DEF LiveRefs
  <2>2. f.data \subseteq InScope(ranges[f.ref])
    BY DEF Disjoint, PagesInside
  <2>3. QED
    BY <1>7, <2>1, <2>2 DEF Disjoint, Apart
\* What is open now was open, or is a child of the page's range.
<1>8. ASSUME NEW y \in OpenRefs'
      PROVE  \/ y \in OpenRefs /\ y \in Refs /\ y # f.ref
             \/ y = f.ref /\ y \in OpenRefs
             \/ /\ Split(f) /\ f.ref \in OpenRefs
                /\ \E k \in 1 .. Len(NewRanges(f)) : y = Len(ranges) + k
  <2>1. y \in inflight' \cup RangeOf(queue')
    <3>1. \A g \in fetched' : g.ref \in inflight'
      BY <1>2, <1>6
    <3>2. QED
      BY <3>1 DEF OpenRefs
  <2>2. f.hasMore => f.ref \in OpenRefs
    BY DEF OpenRefs
  <2>3. CASE y \in RangeOf(Requeued(f))
    <3>1. CASE Split(f)
      <4>1. RangeOf(Requeued(f)) =
              {Len(ranges) + k : k \in 1 .. Len(NewRanges(f))}
        BY <1>2, <3>1, RequeuedFacts
      <4>2. f.hasMore
        BY <3>1 DEF Split
      <4>3. QED
        BY <2>2, <2>3, <3>1, <4>1, <4>2
    <3>2. CASE ~Split(f)
      <4>1. RangeOf(Requeued(f)) = IF f.hasMore THEN {f.ref} ELSE {}
        BY <1>2, <3>2, RequeuedFacts
      <4>2. QED
        BY <2>2, <2>3, <4>1
    <3>3. QED
      BY <3>1, <3>2
  <2>4. CASE y \in RangeOf(queue)
    <3>1. y \in OpenRefs /\ y \in Refs
      BY <2>4, RefsFacts DEF OpenRefs
    <3>2. QED
      BY <1>6, <2>4, <3>1
  <2>5. CASE y \in inflight \ {f.ref}
    <3>1. CASE y \in Answered
      <4>1. y \in inflight' /\ y \notin RangeOf(queue')
        BY <1>2, <2>5
      <4>2. y \in Answered'
        BY <1>1, <2>5, <3>1 DEF Answered
      <4>3. PICK g \in fetched' : y = g.ref /\ (g.hasMore \/ g.failure # "none")
        BY <4>1, <4>2 DEF OpenRefs
      <4>4. QED
        BY <1>6, <4>3 DEF OpenRefs
    <3>2. CASE y \notin Answered
      BY <2>5, <3>2, RefsFacts DEF OpenRefs
    <3>3. QED
      BY <3>1, <3>2
  <2>6. QED
    BY <1>2, <2>1, <2>3, <2>4, <2>5
<1>9. ASSUME f.ref \in OpenRefs
      PROVE  Reach(ranges[f.ref]) \cap (seen \cup f.data) = {}
  BY <1>5, <1>9 DEF Once
<1>10. ASSUME NEW y \in OpenRefs'
       PROVE  Reach(h[y]) \cap (seen \cup f.data) = {}
  <2>1. CASE y \in OpenRefs /\ y \in Refs /\ y # f.ref
    <3>1. Reach(ranges[y]) \cap seen = {}
      BY <1>5, <2>1 DEF Once
    <3>2. Reach(ranges[y]) \subseteq InScope(ranges[y])
      BY DEF Reach, InScope
    <3>3. f.data \cap InScope(ranges[y]) = {}
      BY <1>7, <2>1, RefsFacts
    <3>4. QED
      BY <1>4, <2>1, <3>1, <3>2, <3>3
  <2>2. CASE y = f.ref /\ y \in OpenRefs
    BY <1>4, <1>6, <1>9, <2>2
  <2>3. ASSUME Split(f), f.ref \in OpenRefs,
               NEW k \in 1 .. Len(NewRanges(f)), y = Len(ranges) + k
        PROVE  Reach(h[y]) \cap (seen \cup f.data) = {}
    <3>1. h[y] = NewRanges(f)[k]
      BY <1>4, <2>3
    <3>2. Reach(h[y]) \subseteq Reach(ranges[f.ref])
      BY <2>3, <3>1, ChildScope
    <3>3. QED
      BY <1>9, <2>3, <3>2
  <2>4. QED
    BY <1>8, <2>1, <2>2, <2>3
<1>11. ASSUME NEW g \in fetched'
       PROVE  g.data \cap (seen \cup f.data) = {}
  <2>1. g.data \cap seen = {}
    BY <1>5, <1>6 DEF Once
  <2>2. g.ref \in LiveRefs /\ g.data \subseteq InScope(ranges[g.ref])
    BY <1>6 DEF LiveRefs, Disjoint, PagesInside
  <2>3. f.data \cap InScope(ranges[g.ref]) = {}
    BY <1>6, <1>7, <2>2
  <2>4. QED
    BY <2>1, <2>2, <2>3
<1>12. ASSUME NEW g \in fetched', g.ref \in OpenRefs'
       PROVE  g.data \cap Reach(h[g.ref]) = {}
  <2>1. g.ref \in OpenRefs
    <3>1. \A k \in 1 .. Len(NewRanges(f)) : g.ref # Len(ranges) + k
      BY <1>4, <1>6 DEF Refs
    <3>2. QED
      BY <1>8, <1>12, <3>1
  <2>2. QED
    BY <1>4, <1>6, <2>1 DEF Once
<1>13. QED
  BY <1>1, <1>3, <1>5, <1>10, <1>11, <1>12 DEF Once

\* The steps of the message loop keep Once.
LEMMA LoopOnce ==
  ASSUME Bookkeeping, Once,
         \/ \E f \in fetched : TakeFailure(f)
         \/ Drained
         \/ EmitRecord \/ EmitState \/ EmitRangeComplete
         \/ EmitFinalState \/ EmitComplete
  PROVE  Once'
<1>1. UNCHANGED <<ranges, queue, inflight, fetched>>
  BY DEF TakeFailure, Drained, EmitRecord, EmitState, EmitRangeComplete,
         EmitFinalState, EmitComplete
<1>2. Shown' \subseteq Shown /\ seen' \cap event'.data = {}
  <2>1. CASE EmitRecord
    <3>1. PICK i \in event.data :
            /\ event' = [event EXCEPT !.data = @ \ {i}]
            /\ seen' = seen \cup {i}
      BY <2>1 DEF EmitRecord
    <3>2. event'.data = event.data \ {i}
      BY <3>1 DEF Bookkeeping, TypeOK
    <3>3. QED
      BY <3>1, <3>2 DEF Once, Shown
  <2>2. CASE EmitRangeComplete
    BY <2>2 DEF EmitRangeComplete, NoEvent, Shown
  <2>3. CASE UNCHANGED <<event, seen>>
    BY <2>3 DEF Once, Shown
  <2>4. QED
    BY <2>1, <2>2, <2>3 DEF TakeFailure, Drained, EmitState, EmitFinalState,
       EmitComplete
<1>3. OpenRefs' = OpenRefs
  BY <1>1 DEF OpenRefs, Answered
<1>4. QED
  BY <1>1, <1>2, <1>3 DEF Once

\* Every step keeps Once.
LEMMA NextOnce ==
  ASSUME Bookkeeping, Disjoint, Once, [Next]_vars
  PROVE  Once'
<1>1. ASSUME NEW tr, Begin(tr), phase = "idle"
      PROVE  Once'
  <2>1. seen' = {} /\ event'.data = {} /\ fetched' = {}
    BY <1>1 DEF Begin, Bookkeeping, IdleEmpty, NoEvent
  <2>2. QED
    BY <2>1 DEF Once, Shown
<1>2. ASSUME NEW tr, NEW st, NEW done, SilentReturn(tr, st, done)
      PROVE  Once'
  <2>1. UNCHANGED <<ranges, queue, inflight, fetched, event, seen>>
    BY <1>2 DEF SilentReturn, request
  <2>2. QED
    BY <2>1 DEF Once, Shown, OpenRefs, Answered
<1>3. CASE Work
  BY <1>3, FetchPageOnce, TakePageOnce, LoopOnce DEF Work
<1>4. ASSUME NEW x \in inflight, NEW failure \in {"error", "skip"},
             FetchRejects(x, failure)
      PROVE  Once'
  BY <1>4, FetchRejectsOnce
<1>5. CASE Eof \/ Crash
  <2>1. Discard
    BY <1>5 DEF Eof, Crash
  <2>2. seen' = {} /\ event'.data = {} /\ fetched' = {}
    BY <2>1 DEF Discard, NoEvent
  <2>3. QED
    BY <2>2 DEF Once, Shown
<1>6. CASE UNCHANGED vars
  BY <1>6 DEF vars, request, Once, Shown, OpenRefs, Answered
<1>7. QED
  BY <1>1, <1>2, <1>3, <1>4, <1>5, <1>6 DEF Next, NewRun, Continue

(***************************************************************************)
(* When time ranges meet, one request emits no object twice: not through   *)
(* two children of a split, two reconciled ranges, or a page and the page  *)
(* after it.                                                               *)
(***************************************************************************)
THEOREM NothingEmittedTwice ==
  ASSUME TimeRangesMeet
  PROVE  Spec => EmittedOnce
<1>1. Init => Once
  BY InitOnce
<1>2. Bookkeeping /\ Disjoint /\ Once /\ [Next]_vars => Once'
  BY NextOnce
<1>3. Bookkeeping /\ Once /\ [Next]_vars => [EmitRecord => seen' # seen]_vars
  BY DEF EmitRecord, Once
<1>4. QED
  BY <1>1, <1>2, <1>3, DeliveryInvariant, PTL DEF Spec, EmittedOnce
=============================================================================
