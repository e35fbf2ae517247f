---------------------------- MODULE ClientProofs ----------------------------
(***************************************************************************)
(* Proofs about the clients of a remote API that send again what may       *)
(* already have been done: the Stripe client, the Google Sheets writer and *)
(* the setup of its spreadsheet.                                           *)
(*                                                                         *)
(* StripeRequests first, for every set of callers, rate, number of retries *)
(* and set of delays.                                                      *)
(***************************************************************************)
EXTENDS StripeRequests, SheetsWrite, SheetsSetup, FiniteSetTheorems,
        SequenceTheorems, WellFoundedInduction, TLAPS

-----------------------------------------------------------------------------
(* Arithmetic.                                                              *)

LEMMA Parameters ==
    /\ Rate \in Nat /\ Rate >= 1 /\ BackoffBase \in Nat /\ BackoffBase >= 1
    /\ BackoffMax \in Nat /\ BackoffBase <= BackoffMax
    /\ MaxRetries \in Nat /\ Timeout \in Nat /\ MaxDelay \in Nat
    /\ LastStart \in Nat /\ MaxTime \in Nat
    /\ IsFiniteSet(Caller) /\ Cardinality(Caller) \in Nat
    /\ \A c \in Caller : Kind[c] \in {"list", "get", "post"}
    /\ LongestWait \in Nat
<1>1. IsFiniteSet(Caller)
  BY StripeRequestsAssumption DEF Caller
<1>2. Cardinality(Caller) \in Nat
  BY <1>1, FS_CardinalityType
<1>3. \A c \in Caller : Kind[c] \in {"list", "get", "post"}
  BY StripeRequestsAssumption DEF Caller
<1>4. QED
  BY <1>1, <1>2, <1>3, StripeRequestsAssumption DEF LongestWait

LEMMA MinOfTwo ==
    ASSUME NEW a \in Int, NEW b \in Int
    PROVE  Min({a, b}) = IF a <= b THEN a ELSE b
<1>1. \E x \in {a, b} : \A y \in {a, b} : x <= y
  OBVIOUS
<1>2. /\ Min({a, b}) \in {a, b}
      /\ \A y \in {a, b} : Min({a, b}) <= y
  BY <1>1 DEF Min
<1>3. QED
  BY <1>2

(* The longest pause before a retry. *)
Pause == Max({BackoffMax} \cup RetryAfter)

LEMMA LongestPause ==
    Pause \in Nat /\ BackoffMax <= Pause /\ \A delay \in RetryAfter : delay \in Nat /\ delay <= Pause
<1> DEFINE Pauses == {BackoffMax} \cup RetryAfter
<1>1. Pauses \subseteq Nat
  BY StripeRequestsAssumption
<1>2. PICK longest \in Pauses : \A delay \in RetryAfter : delay <= longest
  BY StripeRequestsAssumption
<1>3. \E x \in Pauses : \A y \in Pauses : x >= y
  <2>1. CASE longest >= BackoffMax
    BY <1>1, <1>2, <2>1
  <2>2. CASE longest < BackoffMax
    <3>1. \A y \in Pauses : BackoffMax >= y
      BY <1>1, <1>2, <2>2
    <3>2. QED
      BY <3>1
  <2>3. QED
    BY <1>1, <2>1, <2>2
<1>4. Max(Pauses) \in Pauses /\ \A y \in Pauses : Max(Pauses) >= y
  BY <1>3 DEF Max
<1>5. QED
  BY <1>1, <1>4 DEF Pause

(* The time that n attempts and the pauses after them may take. *)
Spent(n) == n * (Timeout + Pause)

LEMMA SpentTypes == ASSUME NEW n \in Nat PROVE Spent(n) \in Nat
  BY Parameters, LongestPause DEF Spent

LEMMA SpentOnce == Spent(0) = 0
  BY Parameters, LongestPause DEF Spent

LEMMA SpentNext ==
    ASSUME NEW n \in Nat PROVE Spent(n + 1) = Spent(n) + Timeout + Pause
  BY Parameters, LongestPause DEF Spent

LEMMA SpentMore ==
    ASSUME NEW m \in Nat, NEW n \in Nat, m <= n PROVE Spent(m) <= Spent(n)
<1>1. n - m \in Nat /\ Spent(n) = Spent(m) + (n - m) * (Timeout + Pause)
  BY Parameters, LongestPause DEF Spent
<1>2. (n - m) * (Timeout + Pause) \in Nat
  BY <1>1, Parameters, LongestPause
<1>3. QED
  BY <1>1, <1>2, SpentTypes

LEMMA LongestIs ==
    ASSUME NEW c \in Caller
    PROVE  /\ Kind[c] = "list" => Longest(c) = LongestWait + Spent(MaxRetries) + Timeout
           /\ Kind[c] = "get" => Longest(c) = Spent(MaxRetries) + Timeout
           /\ Kind[c] = "post" => Longest(c) = Timeout
<1>1. Spent(MaxRetries) + Timeout = (MaxRetries + 1) * Timeout + MaxRetries * Pause
  BY Parameters, LongestPause DEF Spent
<1> DEFINE tries == (MaxRetries + 1) * Timeout
           pauses == MaxRetries * Pause
<1>2. tries \in Nat /\ pauses \in Nat
  BY Parameters, LongestPause
<1>3. /\ Kind[c] = "list" => Longest(c) = LongestWait + tries + pauses
      /\ Kind[c] = "get" => Longest(c) = tries + pauses
      /\ Kind[c] = "post" => Longest(c) = Timeout
  BY DEF Longest, Pause
<1>4. Spent(MaxRetries) + Timeout = tries + pauses /\ Spent(MaxRetries) \in Nat
  BY <1>1, SpentTypes, Parameters
<1> HIDE DEF tries, pauses
<1>5. QED
  BY <1>2, <1>3, <1>4, Parameters

(* A set of naturals has a least element.                                   *)
LEMMA Least ==
    ASSUME NEW T \in SUBSET Nat, T # {}
    PROVE  \E x \in T : \A y \in T : x <= y
<1> DEFINE R == OpToRel(<, Nat)
<1>1. IsWellFoundedOn(R, Nat)
  BY NatLessThanWellFounded
<1>2. \A x, y \in Nat : y < x => <<y, x>> \in R
  BY DEF OpToRel
<1> HIDE DEF R
<1>3. PICK x \in T : \A y \in T : <<y, x>> \notin R
  BY <1>1, WFMin
<1>4. \A y \in T : ~ (y < x)
  BY <1>2, <1>3
<1>5. x \in Nat /\ \A y \in T : y \in Nat
  OBVIOUS
<1>6. \A y \in T : x <= y
  BY <1>4, <1>5
<1>7. QED
  BY <1>6

(* Things numbered apart, with numbers at most `width' apart, are at most   *)
(* width + 1 many.                                                          *)
LEMMA CountedByNumber ==
    ASSUME NEW S, NEW width \in Nat,
           \A g \in S : g.n \in Nat,
           \A g, h \in S : g.n = h.n => g = h,
           \A g, h \in S : g.n <= h.n => h.n - g.n <= width
    PROVE  IsFiniteSet(S) /\ Cardinality(S) <= width + 1
<1>1. CASE S = {}
  BY <1>1, FS_EmptySet
<1>2. CASE S # {}
  <2> DEFINE Numbers == {g.n : g \in S}
  <2>0. Numbers \in SUBSET Nat /\ Numbers # {}
    BY <1>2
  <2>1. PICK least \in Numbers : \A n \in Numbers : least <= n
    BY <2>0, Least
  <2>2. PICK first \in S : first.n = least
    OBVIOUS
  <2>3. least \in Nat /\ \A g \in S : g.n \in least .. least + width
    BY <2>1, <2>2
  <2> DEFINE f == [g \in S |-> g.n]
  <2>4. f \in Injection(S, least .. least + width)
    BY <2>3 DEF Injection, IsInjective
  <2>5. /\ IsFiniteSet(least .. least + width)
        /\ Cardinality(least .. least + width) = width + 1
    BY <2>3, FS_Interval
  <2>6. QED
    BY <2>4, <2>5, FS_Injection
<1>3. QED
  BY <1>1, <1>2

-----------------------------------------------------------------------------
(* The invariant.                                                           *)

States == Ends \cup {"idle", "asking", "waiting", "sent", "backoff"}

Delays == BackoffBase .. BackoffMax

Calls == [at : States, start : Nat, due : Nat, sends : Nat, delay : Delays,
          flying : BOOLEAN, since : Nat]

WellTyped ==
    /\ now \in 0 .. MaxTime /\ aborted \in BOOLEAN
    /\ bucket \in [tokens : Int, last : Nat]
    /\ call \in [Caller -> Calls]
    /\ grants \subseteq [n : Nat \ {0}, due : Int] /\ IsFiniteSet(grants)

Waits(c) == IF Kind[c] = "list" THEN LongestWait ELSE 0

(* How far a call is in the time that it may take, and how often it was     *)
(* sent.                                                                    *)
Fits(c, q) ==
    CASE q.at = "idle"    -> q.sends = 0 /\ ~q.flying
      [] q.at = "asking"  -> /\ q.sends = 0 /\ Kind[c] = "list" /\ ~q.flying
                             /\ q.since = q.start /\ q.start <= now
                             /\ now - q.since <= MaxDelay
      [] q.at = "waiting" -> /\ q.sends = 0 /\ Kind[c] = "list" /\ ~q.flying
                             /\ now <= q.due /\ q.due - q.start <= LongestWait
      [] q.at = "sent"    -> /\ q.sends \in 1 .. MaxRetries + 1 /\ q.flying
                             /\ Kind[c] = "post" => q.sends = 1
                             /\ q.since <= now /\ now - q.since <= Timeout
                             /\ q.since - q.start <= Waits(c) + Spent(q.sends - 1)
      [] q.at = "backoff" -> /\ q.sends \in 1 .. MaxRetries /\ Kind[c] # "post" /\ ~q.flying
                             /\ now <= q.due
                             /\ q.due - q.start <= Waits(c) + Spent(q.sends)
      [] OTHER            -> /\ q.sends <= MaxRetries + 1 /\ (Kind[c] = "post" => q.sends <= 1)
                             /\ q.flying => Kind[c] = "list" /\ aborted /\ q.at = "aborted"

CallsFit == \A c \in Caller : Fits(c, call[c])

(* The time up to which tokens are given away: each token taken moves it by *)
(* one at least.                                                            *)
Booked == bucket.last - bucket.tokens

Granted == Cardinality(grants)

Asked == {c \in Caller : call[c].at \notin {"idle", "asking"}}

Numbered ==
    /\ \A g \in grants : g.n <= Granted
    /\ \A g, h \in grants : g.n = h.n => g = h

(* No token is due much after Booked was when it was granted. *)
DueInTime ==
    \A g \in grants :
        /\ g.due <= Booked + MaxDelay + (Rate - 1) - (Granted - g.n)
        /\ g.due <= now \/ g.due <= Booked + MaxDelay - (Granted - g.n)

Spread ==
    \A g, h \in grants :
        g.n <= h.n => h.n - g.n <= (h.due - g.due) + MaxDelay + (Rate - 1)

BucketFits ==
    /\ bucket.last <= now
    /\ bucket.tokens <= Rate - (IF grants = {} THEN 0 ELSE 1)
    /\ Booked <= now + Granted /\ Granted <= Cardinality(Asked)
    /\ Numbered /\ DueInTime /\ Spread /\ FirstComeFirstServed

Inv == WellTyped /\ CallsFit /\ BucketFits

LEMMA GrantedType == ASSUME WellTyped PROVE Granted \in Nat
  BY FS_CardinalityType DEF WellTyped, Granted

LEMMA AskedType ==
    /\ IsFiniteSet(Asked) /\ Cardinality(Asked) \in Nat
    /\ Cardinality(Asked) <= Cardinality(Caller)
<1>1. Asked \subseteq Caller
  BY DEF Asked
<1>2. QED
  BY <1>1, Parameters, FS_Subset, FS_CardinalityType

LEMMA StatesAre ==
    /\ {"idle", "asking", "waiting", "sent", "backoff", "aborted"} \subseteq States
    /\ Ends \subseteq States
  BY DEF States, Ends

LEMMA NoCallIs ==
    /\ NoCall \in Calls
    /\ NoCall.at = "idle" /\ NoCall.sends = 0 /\ ~NoCall.flying
    /\ BackoffBase \in Delays
<1>1. BackoffBase \in Delays
  BY Parameters DEF Delays
<1>2. QED
  BY <1>1, StatesAre DEF NoCall, Calls

LEMMA InitialInv == Init => Inv
<1> SUFFICES ASSUME Init PROVE Inv
  OBVIOUS
<1>1. NoCall \in Calls /\ NoCall.at = "idle" /\ NoCall.sends = 0 /\ ~NoCall.flying
  BY NoCallIs
<1>2. \A c \in Caller : call[c] = NoCall
  BY DEF Init
<1>3. WellTyped
  <2>1. call \in [Caller -> Calls]
    BY <1>1 DEF Init
  <2>2. bucket \in [tokens : Int, last : Nat] /\ now \in 0 .. MaxTime
    BY Parameters DEF Init
  <2>3. QED
    BY <2>1, <2>2, FS_EmptySet DEF Init, WellTyped
<1>4. CallsFit
  BY <1>1, <1>2 DEF CallsFit, Fits
<1>5. Granted = 0 /\ Asked = {} /\ Cardinality(Asked) = 0
  BY <1>1, <1>2, FS_EmptySet DEF Init, Granted, Asked
<1>6. BucketFits
  BY <1>5, Parameters DEF Init, BucketFits, Booked, Numbered, DueInTime, Spread, FirstComeFirstServed
<1>7. QED
  BY <1>3, <1>4, <1>6 DEF Inv

-----------------------------------------------------------------------------
(* Steps of one call. What a caller does leaves the others' times alone.    *)

LEMMA OneCall ==
    ASSUME Inv, NEW c \in Caller, NEW q \in Calls, call' = [call EXCEPT ![c] = q],
           now' = now, aborted' = aborted, Fits(c, q)
    PROVE  /\ call' \in [Caller -> Calls] /\ CallsFit'
           /\ \A d \in Caller \ {c} : call'[d] = call[d]
           /\ call'[c] = q
<1>1. /\ call' \in [Caller -> Calls] /\ call'[c] = q
      /\ \A d \in Caller \ {c} : call'[d] = call[d]
  BY DEF Inv, WellTyped
<1>2. \A d \in Caller : Fits(d, call'[d])
  BY <1>1 DEF Inv, CallsFit
<1>3. CallsFit'
  BY <1>2 DEF CallsFit, Fits
<1>4. QED
  BY <1>1, <1>3

(* A step that takes no token and puts no call back.                        *)
LEMMA NoToken ==
    ASSUME Inv, call' \in [Caller -> Calls], CallsFit', now' \in 0 .. MaxTime, now <= now',
           aborted' \in BOOLEAN, UNCHANGED <<bucket, grants>>, Asked \subseteq Asked'
    PROVE  Inv'
<1>1. WellTyped'
  BY DEF Inv, WellTyped
<1>2. Cardinality(Asked) <= Cardinality(Asked')
  <2>1. Asked' \subseteq Caller
    BY DEF Asked
  <2>2. IsFiniteSet(Asked')
    BY <2>1, Parameters, FS_Subset
  <2>3. QED
    BY <2>2, FS_Subset
<1>3. Cardinality(Asked)' = Cardinality(Asked') /\ Cardinality(Asked') \in Nat
  BY <1>2, Parameters, FS_Subset, FS_CardinalityType DEF Asked
<1>4. now \in Nat /\ now' \in Nat /\ Granted \in Nat /\ Booked \in Int /\ Cardinality(Asked) \in Nat
  BY GrantedType, AskedType DEF Inv, WellTyped, Booked
<1>5. Booked' = Booked /\ Granted' = Granted /\ bucket'.last = bucket.last
  BY DEF Booked, Granted
<1>6. DueInTime'
  <2>1. ASSUME NEW g \in grants
        PROVE  g.due <= now' \/ g.due <= Booked + MaxDelay - (Granted - g.n)
    <3>1. g.due \in Int
      BY DEF Inv, WellTyped
    <3>2. QED
      BY <1>4, <3>1 DEF Inv, BucketFits, DueInTime
  <2>2. QED
    BY <1>5, <2>1 DEF Inv, BucketFits, DueInTime
<1>7. bucket'.last <= now' /\ Booked' <= now' + Granted'
  <2>1. bucket.last \in Nat /\ bucket.last <= now /\ Booked <= now + Granted
    BY DEF Inv, WellTyped, BucketFits
  <2>2. now <= now'
    OBVIOUS
  <2>3. bucket'.last <= now'
    BY <1>4, <1>5, <2>1, <2>2
  <2>4. Booked <= now' + Granted
    <3>1. ASSUME NEW a \in Int, NEW b \in Int, NEW d \in Int, NEW e \in Int, a <= b + e, b <= d
          PROVE  a <= d + e
      BY <3>1
    <3>2. now \in Int /\ now' \in Int /\ Granted \in Int /\ Booked \in Int
      BY <1>4
    <3>3. QED
      BY <2>1, <2>2, <3>1, <3>2
  <2>5. QED
    BY <1>5, <2>3, <2>4
<1>8. Granted' <= Cardinality(Asked)'
  BY <1>2, <1>3, <1>4, <1>5 DEF Inv, BucketFits
<1>9. /\ Numbered' /\ Spread' /\ FirstComeFirstServed'
      /\ bucket'.tokens <= Rate - (IF grants' = {} THEN 0 ELSE 1)
  BY <1>5 DEF Inv, BucketFits, Numbered, Spread, FirstComeFirstServed
<1>10. BucketFits'
  BY <1>6, <1>7, <1>8, <1>9 DEF BucketFits
<1>11. QED
  BY <1>1, <1>10 DEF Inv

LEMMA CallTypes ==
    ASSUME Inv, NEW c \in Caller
    PROVE  /\ call[c] \in Calls /\ Fits(c, call[c]) /\ now \in Nat
           /\ call[c].sends \in Nat /\ call[c].start \in Nat
           /\ call[c].due \in Nat /\ call[c].since \in Nat
           /\ call[c].at \in States /\ call[c].delay \in Delays
           /\ call[c].flying \in BOOLEAN
<1>1. call[c] \in Calls /\ Fits(c, call[c]) /\ now \in Nat
  BY Parameters DEF Inv, WellTyped, CallsFit
<1>2. QED
  BY <1>1 DEF Calls

LEMMA EndedFits ==
    ASSUME Inv, NEW c \in Caller, NEW how \in Ends
    PROVE  /\ Ended(c, how) \in Calls /\ Fits(c, Ended(c, how))
           /\ Ended(c, how).at = how /\ Ended(c, how).sends = call[c].sends
           /\ ~Ended(c, how).flying
<1>1. /\ Ended(c, how).at = how /\ Ended(c, how).sends = call[c].sends
      /\ ~Ended(c, how).flying /\ Ended(c, how) \in Calls
  BY NoCallIs, StatesAre, CallTypes DEF Ended, Calls
<1>2. call[c].sends <= MaxRetries + 1 /\ (Kind[c] = "post" => call[c].sends <= 1)
  BY CallTypes, Parameters DEF Fits, States
<1>3. how \notin {"idle", "asking", "waiting", "sent", "backoff"}
  BY DEF Ends
<1>4. QED
  BY <1>1, <1>2, <1>3 DEF Fits

LEMMA SendingIs ==
    ASSUME Inv, NEW c \in Caller
    PROVE  /\ Sending(c) \in Calls /\ Sending(c).at = "sent" /\ Sending(c).flying
           /\ Sending(c).sends = call[c].sends + 1
           /\ Sending(c).since = now /\ Sending(c).start = call[c].start
<1>1. call[c] \in Calls /\ call[c].sends + 1 \in Nat /\ now \in Nat
  BY CallTypes
<1>2. QED
  BY <1>1, StatesAre DEF Sending, Calls

(* An attempt from a call that may still make one, begun at a time that     *)
(* leaves the rest for the others.                                          *)
LEMMA AttemptFits ==
    ASSUME Inv, NEW c \in Caller, call[c].sends <= MaxRetries,
           Kind[c] = "post" => call[c].sends = 0,
           now - call[c].start <= Waits(c) + Spent(call[c].sends)
    PROVE  /\ Attempt(c) \in Calls /\ Fits(c, Attempt(c))
           /\ Attempt(c).at \in {"sent", "aborted"}
           /\ Attempt(c).sends = call[c].sends + (IF aborted THEN 0 ELSE 1)
<1>1. CASE aborted
  BY <1>1, EndedFits, CallTypes DEF Attempt, Ends
<1>2. CASE ~aborted
  <2> DEFINE q == Sending(c)
  <2>1. /\ q \in Calls /\ q.at = "sent" /\ q.sends = call[c].sends + 1 /\ q.flying
        /\ q.since = now /\ q.start = call[c].start
    BY SendingIs
  <2>2. Attempt(c) = q
    BY <1>2 DEF Attempt
  <2> HIDE DEF q
  <2>3. call[c].sends \in Nat /\ now \in Nat /\ q.sends - 1 = call[c].sends /\ now - q.since = 0
    BY <2>1, CallTypes
  <2>4. q.sends \in 1 .. MaxRetries + 1 /\ (Kind[c] = "post" => q.sends = 1)
    BY <2>1, <2>3, Parameters
  <2>5. q.since - q.start <= Waits(c) + Spent(q.sends - 1)
    BY <2>1, <2>3
  <2>6. Fits(c, q)
    BY <2>1, <2>3, <2>4, <2>5, Parameters DEF Fits
  <2>7. QED
    BY <1>2, <2>1, <2>2, <2>6
<1>3. QED
  BY <1>1, <1>2, CallTypes DEF Inv, WellTyped

(* A call that goes on without taking a token.                              *)
LEMMA CallGoesOn ==
    ASSUME Inv, NEW c \in Caller, NEW q \in Calls, call' = [call EXCEPT ![c] = q], Fits(c, q),
           q.at \notin {"idle", "asking"} \/ c \notin Asked,
           UNCHANGED <<now, bucket, aborted, grants>>
    PROVE  Inv'
<1>1. /\ call' \in [Caller -> Calls] /\ CallsFit'
      /\ \A d \in Caller \ {c} : call'[d] = call[d]
      /\ call'[c] = q
  BY OneCall
<1>2. Asked \subseteq Asked'
  BY <1>1 DEF Asked
<1>3. now \in 0 .. MaxTime /\ aborted \in BOOLEAN /\ now <= now
  BY Parameters DEF Inv, WellTyped
<1>4. QED
  BY <1>1, <1>2, <1>3, NoToken

LEMMA WaitsType == ASSUME NEW c \in Caller PROVE Waits(c) \in Nat
  BY Parameters DEF Waits

LEMMA BeginKeeps == ASSUME Inv, NEW c \in Caller, Begin(c) PROVE Inv'
<1>1. call[c].at = "idle" /\ call[c].sends = 0 /\ ~call[c].flying /\ c \notin Asked
  BY CallTypes DEF Begin, Fits, Asked
<1>2. CASE Kind[c] = "list" /\ ~aborted
  <2> DEFINE q == [NoCall EXCEPT !.at = "asking", !.start = now, !.since = now]
  <2>1. /\ q \in Calls /\ q.at = "asking" /\ q.start = now /\ q.since = now /\ q.sends = 0
        /\ ~q.flying
    BY NoCallIs, StatesAre, CallTypes DEF Calls
  <2>2. call' = [call EXCEPT ![c] = q]
    BY <1>2 DEF Begin
  <2> HIDE DEF q
  <2>3. now - q.since <= MaxDelay /\ q.start <= now
    BY <2>1, CallTypes, Parameters
  <2>4. Fits(c, q)
    BY <1>2, <2>1, <2>3 DEF Fits
  <2>5. QED
    BY <1>1, <2>1, <2>2, <2>4, CallGoesOn DEF Begin
<1>3. CASE aborted
  <2> DEFINE q == [Ended(c, "aborted") EXCEPT !.start = 0]
  <2>1. q \in Calls /\ q.at = "aborted" /\ q.sends = 0 /\ ~q.flying
    BY <1>1, EndedFits DEF Calls, Ends
  <2>2. call' = [call EXCEPT ![c] = q]
    BY <1>3 DEF Begin, Attempt
  <2> HIDE DEF q
  <2>3. Fits(c, q)
    BY <2>1, Parameters DEF Fits
  <2>4. QED
    BY <1>1, <2>1, <2>2, <2>3, CallGoesOn DEF Begin
<1>4. CASE ~aborted /\ Kind[c] # "list"
  <2> DEFINE q == [Sending(c) EXCEPT !.start = now]
  <2>1. /\ q \in Calls /\ q.at = "sent" /\ q.sends = 1 /\ q.flying
        /\ q.since = now /\ q.start = now
    <3>1. Sending(c) \in Calls /\ Sending(c).sends = 1 /\ Sending(c).since = now
      BY <1>1, SendingIs, CallTypes
    <3>2. QED
      BY <3>1, SendingIs, CallTypes DEF Calls
  <2>2. call' = [call EXCEPT ![c] = q]
    BY <1>4 DEF Begin, Attempt
  <2> HIDE DEF q
  <2>3. /\ q.sends \in 1 .. MaxRetries + 1 /\ q.since <= now /\ now - q.since <= Timeout
        /\ q.since - q.start <= Waits(c) + Spent(q.sends - 1)
    BY <2>1, CallTypes, Parameters, WaitsType, SpentOnce
  <2>4. Fits(c, q)
    BY <2>1, <2>3 DEF Fits
  <2>5. QED
    BY <1>1, <2>1, <2>2, <2>4, CallGoesOn DEF Begin
<1>5. QED
  BY <1>2, <1>3, <1>4 DEF Inv, WellTyped

LEMMA WakeKeeps == ASSUME Inv, NEW c \in Caller, Wake(c) PROVE Inv'
<1>1. call[c].at \in {"waiting", "backoff"} /\ call[c].due = now
  BY DEF Wake
<1>2. /\ call[c].sends <= MaxRetries /\ (Kind[c] = "post" => call[c].sends = 0)
      /\ now - call[c].start <= Waits(c) + Spent(call[c].sends)
  <2>1. CASE call[c].at = "waiting"
    BY <1>1, <2>1, CallTypes, Parameters, SpentOnce DEF Fits, Waits
  <2>2. CASE call[c].at = "backoff"
    BY <1>1, <2>2, CallTypes, Parameters DEF Fits
  <2>3. QED
    BY <1>1, <2>1, <2>2
<1>3. Attempt(c) \in Calls /\ Fits(c, Attempt(c)) /\ Attempt(c).at \in {"sent", "aborted"}
  BY <1>2, AttemptFits
<1>4. QED
  BY <1>3, CallGoesOn DEF Wake

LEMMA EndCallKeeps ==
    ASSUME Inv, NEW c \in Caller, NEW how \in {"ok", "empty", "failed"}, EndCall(c, how),
           UNCHANGED <<now, bucket, aborted, grants>>
    PROVE  Inv'
<1> DEFINE as == IF call[c].at = "aborted" THEN "aborted" ELSE how
<1>1. as \in Ends /\ as \notin {"idle", "asking"}
  BY DEF Ends
<1>2. call' = [call EXCEPT ![c] = Ended(c, as)]
  BY CallTypes DEF EndCall, Inv, WellTyped
<1> HIDE DEF as
<1>3. QED
  BY <1>1, <1>2, EndedFits, CallGoesOn

LEMMA FailForNowKeeps == ASSUME Inv, NEW c \in Caller, FailForNow(c) PROVE Inv'
<1>1. CASE Exhausted(c)
  BY <1>1, EndCallKeeps DEF FailForNow
<1>2. CASE ~Exhausted(c)
  <2>1. /\ call[c].flying /\ Kind[c] # "post" /\ call[c].sends <= MaxRetries
        /\ Retried(c) /\ UNCHANGED <<now, bucket, aborted, grants>>
    BY <1>2, CallTypes, Parameters DEF FailForNow, Exhausted
  <2>2. CASE call[c].at = "aborted"
    <3>1. call' = [call EXCEPT ![c] = Ended(c, "aborted")]
      BY <2>1, <2>2 DEF Retried
    <3>2. QED
      BY <2>1, <3>1, EndedFits, CallGoesOn DEF Ends
  <2>3. CASE call[c].at # "aborted"
    <3>1. call[c].at = "sent"
      BY <2>1, <2>3, CallTypes DEF Fits, States, Ends
    <3> DEFINE next == Min({2 * call[c].delay, BackoffMax})
    <3>2. next \in Delays
      <4>1. call[c].delay \in BackoffBase .. BackoffMax
        BY CallTypes DEF Delays
      <4>2. 2 * call[c].delay \in Int /\ BackoffMax \in Int
        BY <4>1, Parameters
      <4>3. next = IF 2 * call[c].delay <= BackoffMax THEN 2 * call[c].delay ELSE BackoffMax
        BY <4>2, MinOfTwo
      <4>4. QED
        BY <4>1, <4>3, Parameters DEF Delays
    <3> HIDE DEF next
    <3>3. PICK delay \in {call[c].delay} \cup RetryAfter :
            call' = [call EXCEPT ![c] = [call[c] EXCEPT !.at = "backoff", !.flying = FALSE,
                                            !.since = 0, !.due = now + delay, !.delay = next]]
      BY <2>1, <2>3 DEF Retried, next
    <3>4. delay \in Nat /\ delay <= Pause
      BY LongestPause, CallTypes, Parameters DEF Delays
    <3> DEFINE q == [call[c] EXCEPT !.at = "backoff", !.flying = FALSE,
                                    !.since = 0, !.due = now + delay, !.delay = next]
    <3>5. /\ q \in Calls /\ q.at = "backoff" /\ ~q.flying /\ q.sends = call[c].sends
          /\ q.due = now + delay /\ q.start = call[c].start
      <4>1. call[c] \in Calls /\ now + delay \in Nat /\ "backoff" \in States
        BY <3>4, CallTypes DEF States
      <4>2. QED
        BY <3>2, <4>1 DEF Calls
    <3>6. call' = [call EXCEPT ![c] = q]
      BY <3>3
    <3> HIDE DEF q
    <3>7. /\ call[c].sends \in 1 .. MaxRetries
          /\ now - call[c].since <= Timeout
          /\ call[c].since - call[c].start <= Waits(c) + Spent(call[c].sends - 1)
      BY <2>1, <3>1, CallTypes, Parameters DEF Fits
    <3>8. Spent(call[c].sends) = Spent(call[c].sends - 1) + Timeout + Pause
          /\ Spent(call[c].sends - 1) \in Nat
      <4>1. call[c].sends - 1 \in Nat /\ (call[c].sends - 1) + 1 = call[c].sends
        BY <3>7, Parameters
      <4>2. QED
        BY <4>1, SpentNext, SpentTypes
    <3>9. q.due - q.start <= Waits(c) + Spent(q.sends) /\ now <= q.due
      BY <3>4, <3>5, <3>7, <3>8, CallTypes, WaitsType, LongestPause, Parameters
    <3>10. Fits(c, q)
      BY <2>1, <3>5, <3>7, <3>9 DEF Fits
    <3>11. QED
      BY <2>1, <3>5, <3>6, <3>10, CallGoesOn
  <2>4. QED
    BY <2>2, <2>3
<1>3. QED
  BY <1>1, <1>2

LEMMA AbortKeeps == ASSUME Inv, Abort PROVE Inv'
<1>1. ASSUME NEW c \in Caller
      PROVE  /\ call'[c] \in Calls /\ Fits(c, call[c])'
             /\ call[c].at \notin {"idle", "asking"} => call'[c].at \notin {"idle", "asking"}
  <2>1. CASE ~(call[c].at \in {"waiting", "backoff", "sent"})
    <3>1. call'[c] = call[c]
      BY <2>1 DEF Abort
    <3>2. QED
      BY <2>1, <3>1, CallTypes DEF Abort, Fits
  <2>2. CASE call[c].at \in {"waiting", "backoff", "sent"} /\ ~(call[c].flying /\ Kind[c] = "list")
    <3>1. call'[c] = Ended(c, "aborted")
      BY <2>2 DEF Abort
    <3>2. /\ Ended(c, "aborted") \in Calls /\ Fits(c, Ended(c, "aborted"))
          /\ Ended(c, "aborted").at = "aborted" /\ ~Ended(c, "aborted").flying
      BY EndedFits DEF Ends
    <3>3. Fits(c, call[c])'
      BY <3>1, <3>2 DEF Fits
    <3>4. QED
      BY <3>1, <3>2, <3>3
  <2>3. CASE call[c].at \in {"waiting", "backoff", "sent"} /\ call[c].flying /\ Kind[c] = "list"
    <3>1. call'[c] = [call[c] EXCEPT !.at = "aborted"]
      BY <2>3 DEF Abort
    <3>2. /\ call'[c] \in Calls /\ call'[c].at = "aborted" /\ call'[c].sends = call[c].sends
      BY <3>1, CallTypes, StatesAre DEF Calls
    <3>3. call[c].sends <= MaxRetries + 1 /\ call[c].at = "sent"
      BY <2>3, CallTypes, Parameters DEF Fits
    <3>4. Fits(c, call[c])'
      BY <2>3, <3>2, <3>3 DEF Fits, Abort
    <3>5. QED
      BY <3>2, <3>4
  <2>4. QED
    BY <2>1, <2>2, <2>3
<1>2. call' \in [Caller -> Calls]
  <2>1. call' = [c \in Caller |-> call'[c]]
    BY DEF Abort
  <2>2. QED
    BY <1>1, <2>1
<1>3. CallsFit' /\ Asked \subseteq Asked'
  BY <1>1 DEF CallsFit, Asked
<1>4. now' = now /\ now \in 0 .. MaxTime /\ now <= now' /\ aborted' \in BOOLEAN
  BY Parameters DEF Abort, Inv, WellTyped
<1>5. QED
  BY <1>2, <1>3, <1>4, NoToken DEF Abort

LEMMA TickKeeps == ASSUME Inv, Tick PROVE Inv'
<1>1. now \in Nat /\ now' = now + 1 /\ now' \in 0 .. MaxTime /\ now <= now'
  BY Parameters DEF Tick, Inv, WellTyped
<1>2. call' = call /\ UNCHANGED <<bucket, aborted, grants>> /\ \A c \in Caller : ~Urgent(c)
  BY DEF Tick
<1>3. ASSUME NEW c \in Caller PROVE Fits(c, call[c])'
  <2>1. /\ call[c].at \in {"waiting", "backoff"} => call[c].due # now
        /\ call[c].at = "asking" => ~(now - call[c].since >= MaxDelay)
        /\ call[c].flying => ~(now - call[c].since >= Timeout)
    BY <1>2 DEF Urgent
  <2>2. /\ call[c].at \in {"waiting", "backoff"} => now' <= call[c].due
        /\ call[c].at = "asking" => call[c].start <= now' /\ now' - call[c].since <= MaxDelay
        /\ call[c].at = "sent" => call[c].since <= now' /\ now' - call[c].since <= Timeout
    <3>1. CASE call[c].at \in {"waiting", "backoff"}
      BY <1>1, <2>1, <3>1, CallTypes DEF Fits
    <3>2. CASE call[c].at = "asking"
      BY <1>1, <2>1, <3>2, CallTypes, Parameters DEF Fits
    <3>3. CASE call[c].at = "sent"
      BY <1>1, <2>1, <3>3, CallTypes, Parameters DEF Fits
    <3>4. QED
      BY <3>1, <3>2, <3>3
  <2>3. call'[c] = call[c] /\ aborted' = aborted
    BY <1>2
  <2>4. QED
    BY <2>2, <2>3, CallTypes DEF Fits
<1>4. CallsFit' /\ Asked' = Asked
  BY <1>2, <1>3 DEF CallsFit, Asked
<1>5. QED
  BY <1>1, <1>2, <1>4, NoToken DEF Inv, WellTyped

(* What a token costs: it moves Booked on by one at least, and is due       *)
(* neither before it nor long after.                                        *)
LEMMA TokenTaken ==
    ASSUME Inv, NEW c \in Caller, Acquire(c)
    PROVE  LET stamp == call[c].since
               left  == Refilled(stamp) - 1
               due   == now + Deficit(left) IN
           /\ stamp \in Nat /\ stamp <= now /\ left \in Int /\ left <= Rate - 1
           /\ due \in Nat /\ now <= due
           /\ stamp - left >= Booked + 1 /\ stamp - left <= due
           /\ stamp - left = Booked + 1 \/ (stamp - left = stamp - Rate + 1 /\ due = now)
           /\ due <= (stamp - left) + MaxDelay + (Rate - 1)
           /\ due = now \/ due <= (stamp - left) + MaxDelay
           /\ due = now \/ due - now = (stamp - left) - stamp
<1> DEFINE stamp == call[c].since
           left  == Refilled(stamp) - 1
           due   == now + Deficit(left)
<1>1. stamp \in Nat /\ stamp <= now /\ now - stamp <= MaxDelay /\ now \in Nat
  BY CallTypes DEF Acquire, Fits
<1>2. bucket.tokens \in Int /\ bucket.last \in Nat /\ Rate \in Nat /\ Rate >= 1 /\ MaxDelay \in Nat
  BY Parameters DEF Inv, WellTyped
<1>3. Refilled(stamp) = IF Rate <= stamp - Booked THEN Rate ELSE stamp - Booked
  <2>1. bucket.tokens + (stamp - bucket.last) \in Int
        /\ bucket.tokens + (stamp - bucket.last) = stamp - Booked
    BY <1>1, <1>2 DEF Booked
  <2> HIDE DEF stamp
  <2>2. QED
    BY <1>2, <2>1, MinOfTwo DEF Refilled
<1>4. Booked \in Int
  BY <1>2 DEF Booked
<1>5. left \in Int /\ left <= Rate - 1 /\ due = now + (IF left >= 0 THEN 0 ELSE -left)
  BY <1>1, <1>2, <1>3, <1>4 DEF Deficit
<1>6. (left = Rate - 1 /\ Rate <= stamp - Booked) \/ left = stamp - Booked - 1
  BY <1>1, <1>2, <1>3, <1>4
<1> HIDE DEF stamp, left, due
<1>7. /\ due \in Nat /\ now <= due
      /\ stamp - left >= Booked + 1 /\ stamp - left <= due
      /\ stamp - left = Booked + 1 \/ (stamp - left = stamp - Rate + 1 /\ due = now)
      /\ due <= (stamp - left) + MaxDelay + (Rate - 1)
      /\ due = now \/ due <= (stamp - left) + MaxDelay
      /\ due = now \/ due - now = (stamp - left) - stamp
  BY <1>1, <1>2, <1>4, <1>5, <1>6
<1>8. QED
  BY <1>1, <1>5, <1>7 DEF stamp, left, due

(* The bucket after a token that moved Booked to `booked' and is due at     *)
(* `due'.                                                                   *)
LEMMA GrantFits ==
    ASSUME Inv, NEW booked \in Int, NEW due \in Int, Booked' = booked, now' = now,
           grants' = grants \cup {[n |-> Granted + 1, due |-> due]},
           now <= due, booked >= Booked + 1, booked <= due,
           due <= booked + MaxDelay + (Rate - 1),
           due = now \/ due <= booked + MaxDelay
    PROVE  /\ IsFiniteSet(grants') /\ grants' \subseteq [n : Nat \ {0}, due : Int]
           /\ Granted' = Granted + 1
           /\ Numbered' /\ DueInTime' /\ Spread' /\ FirstComeFirstServed'
<1> DEFINE new == [n |-> Granted + 1, due |-> due]
<1>1. /\ Granted \in Nat /\ Booked \in Int /\ now \in Nat /\ Rate \in Nat /\ Rate >= 1
      /\ MaxDelay \in Nat
  BY GrantedType, Parameters DEF Inv, WellTyped, Booked
<1>2. /\ IsFiniteSet(grants) /\ grants \subseteq [n : Nat \ {0}, due : Int]
      /\ \A g \in grants : g.n \in Nat /\ g.due \in Int /\ g.n <= Granted
  BY DEF Inv, WellTyped, BucketFits, Numbered
<1>3. new.n = Granted + 1 /\ new.due = due /\ new \in [n : Nat \ {0}, due : Int] /\ new \notin grants
  BY <1>1, <1>2
<1>4. grants' = grants \cup {new}
  OBVIOUS
<1> HIDE DEF new
<1>5. IsFiniteSet(grants') /\ Granted' = Granted + 1
  <2>1. /\ IsFiniteSet(grants \cup {new})
        /\ Cardinality(grants \cup {new}) = Cardinality(grants) + 1
    BY <1>2, <1>3, FS_AddElement
  <2>2. QED
    BY <1>4, <2>1 DEF Granted
<1>6. Numbered'
  BY <1>1, <1>2, <1>3, <1>4, <1>5 DEF Inv, BucketFits, Numbered
<1>7. ASSUME NEW g \in grants
      PROVE  /\ g.due <= booked + MaxDelay + (Rate - 1) - (Granted + 1 - g.n)
             /\ g.due <= now \/ g.due <= booked + MaxDelay - (Granted + 1 - g.n)
  <2>1. /\ g.due <= Booked + MaxDelay + (Rate - 1) - (Granted - g.n)
        /\ g.due <= now \/ g.due <= Booked + MaxDelay - (Granted - g.n)
    BY DEF Inv, BucketFits, DueInTime
  <2>2. g.due \in Int /\ g.n \in Nat
    BY <1>2
  <2>3. QED
    BY <1>1, <2>1, <2>2
<1>8. DueInTime'
  <2>1. ASSUME NEW g \in grants'
        PROVE  /\ g.due <= booked + MaxDelay + (Rate - 1) - (Granted + 1 - g.n)
               /\ g.due <= now \/ g.due <= booked + MaxDelay - (Granted + 1 - g.n)
    <3>1. CASE g \in grants
      BY <1>7, <3>1
    <3>2. CASE g = new
      BY <1>1, <1>3, <3>2
    <3>3. QED
      BY <1>4, <3>1, <3>2
  <2>2. QED
    <3>1. Booked' = booked /\ now' = now
      OBVIOUS
    <3>2. ASSUME NEW g \in grants'
          PROVE  /\ g.due <= Booked' + MaxDelay + (Rate - 1) - (Granted' - g.n)
                 /\ g.due <= now' \/ g.due <= Booked' + MaxDelay - (Granted' - g.n)
      <4>1. g.due \in Int /\ g.n \in Int
        BY <1>2, <1>3, <1>4, <1>1
      <4>2. Booked' \in Int /\ Granted' \in Int /\ now' \in Int
        BY <1>1, <1>5, <3>1
      <4>3. /\ g.due <= booked + MaxDelay + (Rate - 1) - (Granted + 1 - g.n)
            /\ g.due <= now \/ g.due <= booked + MaxDelay - (Granted + 1 - g.n)
        BY <2>1
      <4>4. QED
        BY <1>1, <1>5, <3>1, <4>1, <4>2, <4>3
    <3>3. QED
      BY <3>2 DEF DueInTime
<1>9. Spread'
  <2>1. ASSUME NEW g \in grants', NEW h \in grants', g.n <= h.n
        PROVE  h.n - g.n <= (h.due - g.due) + MaxDelay + (Rate - 1)
    <3>1. CASE g \in grants /\ h \in grants
      BY <2>1, <3>1 DEF Inv, BucketFits, Spread
    <3>2. CASE g \in grants /\ h = new
      <4>1. g.due \in Int /\ g.n \in Nat
        BY <1>2, <3>2
      <4>2. QED
        BY <1>1, <1>3, <1>7, <3>2, <4>1
    <3>3. CASE g = new /\ h = new
      BY <1>1, <1>3, <3>3
    <3>4. CASE g = new /\ h \in grants
      BY <1>1, <1>2, <1>3, <2>1, <3>4
    <3>5. QED
      BY <1>4, <3>1, <3>2, <3>3, <3>4
  <2>2. QED
    BY <2>1 DEF Spread
<1>10. FirstComeFirstServed'
  <2>1. ASSUME NEW g \in grants', NEW h \in grants', g.n < h.n, g.n + MaxDelay <= h.n
        PROVE  g.due <= h.due
    <3>1. CASE g \in grants /\ h \in grants
      BY <2>1, <3>1 DEF Inv, BucketFits, FirstComeFirstServed
    <3>2. CASE g \in grants /\ h = new
      <4>1. g.due \in Int /\ g.n \in Nat
        BY <1>2, <3>2
      <4>2. QED
        BY <1>1, <1>3, <1>7, <2>1, <3>2, <4>1
    <3>3. CASE g = new /\ h = new
      BY <1>1, <1>3, <2>1, <3>3
    <3>4. CASE g = new /\ h \in grants
      BY <1>1, <1>2, <1>3, <2>1, <3>4
    <3>5. QED
      BY <1>4, <3>1, <3>2, <3>3, <3>4
  <2>2. QED
    BY <2>1 DEF FirstComeFirstServed
<1>11. grants' \subseteq [n : Nat \ {0}, due : Int]
  BY <1>2, <1>3, <1>4
<1>12. QED
  BY <1>5, <1>6, <1>8, <1>9, <1>10, <1>11

LEMMA AcquireKeeps == ASSUME Inv, NEW c \in Caller, Acquire(c) PROVE Inv'
<1> DEFINE stamp == call[c].since
           left  == Refilled(stamp) - 1
           due   == now + Deficit(left)
           q     == IF due = now \/ aborted THEN Attempt(c)
                    ELSE [call[c] EXCEPT !.at = "waiting", !.due = due, !.since = 0]
<1>1. /\ call[c].at = "asking" /\ UNCHANGED <<now, aborted>>
      /\ bucket' = [tokens |-> left, last |-> stamp]
      /\ grants' = grants \cup {[n |-> Granted + 1, due |-> due]}
      /\ call' = [call EXCEPT ![c] = q]
  BY CallTypes DEF Acquire, Granted, Inv, WellTyped
<1>2. /\ stamp \in Nat /\ stamp <= now /\ left \in Int /\ left <= Rate - 1
      /\ due \in Nat /\ now <= due
      /\ stamp - left >= Booked + 1 /\ stamp - left <= due
      /\ stamp - left = Booked + 1 \/ (stamp - left = stamp - Rate + 1 /\ due = now)
      /\ due <= (stamp - left) + MaxDelay + (Rate - 1)
      /\ due = now \/ due <= (stamp - left) + MaxDelay
      /\ due = now \/ due - now = (stamp - left) - stamp
  BY TokenTaken
<1>3. /\ call[c].sends = 0 /\ Kind[c] = "list" /\ ~call[c].flying
      /\ call[c].start = stamp /\ now - stamp <= MaxDelay
  BY <1>1, CallTypes DEF Fits
<1> HIDE DEF stamp, left, due, q
<1>4. /\ now \in Nat /\ Granted \in Nat /\ Booked \in Int /\ Rate \in Nat /\ Rate >= 1
      /\ MaxDelay \in Nat /\ Cardinality(Caller) \in Nat
      /\ LongestWait = Cardinality(Caller) + 2 * MaxDelay
  BY GrantedType, Parameters DEF Inv, WellTyped, Booked, LongestWait
<1>5. bucket'.last = stamp /\ bucket'.tokens = left /\ Booked' = stamp - left
  BY <1>1 DEF Booked
<1>6. /\ IsFiniteSet(grants') /\ grants' \subseteq [n : Nat \ {0}, due : Int]
      /\ Granted' = Granted + 1
      /\ Numbered' /\ DueInTime' /\ Spread' /\ FirstComeFirstServed'
  <2>1. stamp - left \in Int /\ due \in Int /\ now' = now
    BY <1>1, <1>2
  <2>2. QED
    BY <1>1, <1>2, <1>5, <2>1, GrantFits
(* The caller counts as one that has asked: there are no more tokens than those. *)
<1>7. /\ Cardinality(Asked \cup {c}) = Cardinality(Asked) + 1
      /\ Cardinality(Asked) + 1 <= Cardinality(Caller)
      /\ Cardinality(Asked) \in Nat
  <2>1. c \notin Asked /\ Asked \cup {c} \subseteq Caller
    BY <1>1 DEF Asked
  <2>2. IsFiniteSet(Asked) /\ Cardinality(Asked) \in Nat
    BY AskedType
  <2>3. Cardinality(Asked \cup {c}) = Cardinality(Asked) + 1
    BY <2>1, <2>2, FS_AddElement
  <2>4. Cardinality(Asked \cup {c}) <= Cardinality(Caller)
    BY <2>1, Parameters, FS_Subset
  <2>5. QED
    BY <2>2, <2>3, <2>4
<1>8. Booked <= now + Granted /\ Granted <= Cardinality(Asked)
  BY DEF Inv, BucketFits
<1>9. q \in Calls /\ Fits(c, q) /\ q.at \notin {"idle", "asking"}
  <2>1. CASE due = now \/ aborted
    <3>1. now - call[c].start <= Waits(c) + Spent(call[c].sends)
      BY <1>2, <1>3, <1>4, SpentOnce DEF Waits
    <3>2. Attempt(c) \in Calls /\ Fits(c, Attempt(c)) /\ Attempt(c).at \in {"sent", "aborted"}
      BY <1>3, <3>1, AttemptFits, Parameters
    <3>3. QED
      BY <2>1, <3>2 DEF q
  <2>2. CASE ~(due = now \/ aborted)
    <3>1. q = [call[c] EXCEPT !.at = "waiting", !.due = due, !.since = 0]
      BY <2>2 DEF q
    <3>2. /\ q \in Calls /\ q.at = "waiting" /\ q.due = due /\ q.start = stamp
          /\ q.sends = 0 /\ ~q.flying
      BY <1>2, <1>3, <3>1, CallTypes, StatesAre DEF Calls
    <3>3. due - stamp <= LongestWait
      BY <1>2, <1>3, <1>4, <1>7, <1>8, <2>2
    <3>4. Fits(c, q)
      BY <1>2, <1>3, <3>2, <3>3 DEF Fits
    <3>5. QED
      BY <3>2, <3>4
  <2>3. QED
    BY <2>1, <2>2
<1>10. /\ call' \in [Caller -> Calls] /\ CallsFit'
       /\ \A d \in Caller \ {c} : call'[d] = call[d]
       /\ call'[c] = q
  BY <1>1, <1>9, OneCall
<1>11. WellTyped'
  BY <1>1, <1>2, <1>6, <1>10 DEF Inv, WellTyped
<1>12. Asked' = Asked \cup {c}
  BY <1>9, <1>10 DEF Asked
<1>13. Booked' <= now + Granted + 1
  BY <1>2, <1>4, <1>5, <1>8
<1>14. BucketFits'
  <2>1. bucket'.last <= now' /\ bucket'.tokens <= Rate - 1 /\ grants' # {}
    BY <1>1, <1>2, <1>5
  <2>2. Booked' <= now' + Granted' /\ Granted' <= Cardinality(Asked)'
    BY <1>1, <1>4, <1>6, <1>7, <1>8, <1>12, <1>13
  <2>3. QED
    BY <1>6, <2>1, <2>2 DEF BucketFits
<1>15. QED
  BY <1>10, <1>11, <1>14 DEF Inv

LEMMA InvStep == Inv /\ [Next]_vars => Inv'
<1> SUFFICES ASSUME Inv, [Next]_vars PROVE Inv'
  OBVIOUS
<1>1. CASE Tick
  BY <1>1, TickKeeps
<1>2. CASE Abort
  BY <1>2, AbortKeeps
<1>3. ASSUME NEW c \in Caller, Begin(c) PROVE Inv'
  BY <1>3, BeginKeeps
<1>4. ASSUME NEW c \in Caller, Acquire(c) PROVE Inv'
  BY <1>4, AcquireKeeps
<1>5. ASSUME NEW c \in Caller, Wake(c) PROVE Inv'
  BY <1>5, WakeKeeps
<1>6. ASSUME NEW c \in Caller, Succeed(c) PROVE Inv'
  BY <1>6, EndCallKeeps DEF Succeed
<1>7. ASSUME NEW c \in Caller, FailForNow(c) PROVE Inv'
  BY <1>7, FailForNowKeeps
<1>8. ASSUME NEW c \in Caller, Fail(c) PROVE Inv'
  BY <1>8, EndCallKeeps DEF Fail
<1>9. CASE UNCHANGED vars
  <2>1. /\ call' = call /\ now' = now /\ aborted' = aborted /\ UNCHANGED <<bucket, grants>>
    BY <1>9 DEF vars
  <2>2. CallsFit' /\ Asked' = Asked /\ now \in 0 .. MaxTime /\ now <= now'
    BY <2>1, Parameters DEF CallsFit, Fits, Asked, Inv, WellTyped
  <2>3. QED
    BY <2>1, <2>2, NoToken DEF Inv, WellTyped
<1>10. QED
  BY <1>1, <1>2, <1>3, <1>4, <1>5, <1>6, <1>7, <1>8, <1>9 DEF Next

LEMMA InvAlways == Spec => []Inv
  BY InitialInv, InvStep, PTL DEF Spec

-----------------------------------------------------------------------------
(* What the invariant gives.                                                *)

LEMMA RateFollows == Inv => RateKept
<1> SUFFICES ASSUME Inv PROVE RateKept
  OBVIOUS
<1>1. TypeOK
  <2>1. ASSUME NEW c \in Caller
        PROVE  /\ call[c].at \in Ends \cup {"idle", "asking", "waiting", "sent", "backoff"}
               /\ call[c].at = "sent" => call[c].flying
               /\ call[c].flying => call[c].at = "sent" \/ (Kind[c] = "list" /\ aborted)
               /\ call[c].delay \in BackoffBase .. BackoffMax
    BY CallTypes DEF Fits, States, Delays
  <2>2. bucket.tokens \in Int /\ bucket.last \in 0 .. now
    <3>1. bucket.tokens \in Int /\ bucket.last \in Nat /\ now \in Nat /\ bucket.last <= now
      BY Parameters DEF Inv, WellTyped, BucketFits
    <3>2. QED
      BY <3>1
  <2>3. QED
    BY <2>1, <2>2 DEF TypeOK, Inv, WellTyped, BucketFits
<1>2. TokensWithinRate
  <2>1. ASSUME NEW first \in {g.due : g \in grants}, NEW last \in {g.due : g \in grants},
               first <= last
        PROVE  Cardinality({g \in grants : g.due \in first .. last})
                 <= Rate + (last - first) + MaxDelay
    <3> DEFINE S == {g \in grants : g.due \in first .. last}
               width == (last - first) + MaxDelay + (Rate - 1)
    <3>1. first \in Int /\ last \in Int /\ Rate \in Nat /\ Rate >= 1 /\ MaxDelay \in Nat
      BY Parameters DEF Inv, WellTyped
    <3>2. width \in Nat
      BY <2>1, <3>1
    <3>3. \A g \in S : g.n \in Nat /\ g.due \in Int /\ first <= g.due /\ g.due <= last
      BY <3>1 DEF Inv, WellTyped
    <3>4. \A g, h \in S : g.n = h.n => g = h
      BY DEF Inv, BucketFits, Numbered
    <3>5. ASSUME NEW g \in S, NEW h \in S, g.n <= h.n PROVE h.n - g.n <= width
      <4>1. h.n - g.n <= (h.due - g.due) + MaxDelay + (Rate - 1)
        BY <3>5 DEF Inv, BucketFits, Spread
      <4>2. QED
        BY <3>1, <3>3, <4>1
    <3> HIDE DEF S, width
    <3>6. Cardinality(S) <= width + 1
      BY <3>2, <3>3, <3>4, <3>5, CountedByNumber
    <3>7. width + 1 = Rate + (last - first) + MaxDelay
      BY <3>1 DEF width
    <3>8. QED
      BY <3>6, <3>7 DEF S
  <2>2. QED
    BY <2>1 DEF TokensWithinRate
<1>3. QED
  BY <1>1, <1>2 DEF Inv, BucketFits, RateKept

LEMMA RetriesFollow == Inv => RetriesEnd
<1> SUFFICES ASSUME Inv PROVE RetriesEnd
  OBVIOUS
<1>1. RetriesAreSafe
  BY CallTypes, Parameters DEF RetriesAreSafe, Fits
<1>2. ASSUME NEW c \in Caller, Active(c) PROVE now - call[c].start <= Longest(c)
  <2>1. /\ now \in Nat /\ call[c].start \in Nat /\ call[c].since \in Nat /\ call[c].due \in Nat
        /\ call[c].sends \in Nat /\ Fits(c, call[c])
    BY CallTypes
  <2>2. Spent(MaxRetries) \in Nat /\ Timeout \in Nat /\ LongestWait \in Nat /\ MaxDelay \in Nat
        /\ MaxDelay <= LongestWait /\ MaxRetries \in Nat
    BY Parameters, SpentTypes DEF LongestWait
  <2>3. call[c].at \in {"asking", "waiting", "sent", "backoff"}
    BY <1>2, CallTypes DEF Active, States
  <2>4. CASE call[c].at \in {"asking", "waiting"}
    <3>1. Kind[c] = "list" /\ now - call[c].start <= LongestWait
      BY <2>1, <2>2, <2>4 DEF Fits
    <3>2. QED
      BY <2>1, <2>2, <3>1, LongestIs
  <2>5. CASE call[c].at = "sent"
    <3>1. /\ call[c].sends \in 1 .. MaxRetries + 1 /\ (Kind[c] = "post" => call[c].sends = 1)
          /\ now - call[c].since <= Timeout
          /\ call[c].since - call[c].start <= Waits(c) + Spent(call[c].sends - 1)
      BY <2>1, <2>5 DEF Fits
    <3>2. call[c].sends - 1 \in Nat /\ call[c].sends - 1 <= MaxRetries
      BY <2>1, <2>2, <3>1
    <3>3. Spent(call[c].sends - 1) <= Spent(MaxRetries) /\ Spent(call[c].sends - 1) \in Nat
      BY <2>2, <3>2, SpentMore, SpentTypes
    <3>4. CASE Kind[c] = "list"
      BY <2>1, <2>2, <3>1, <3>3, <3>4, LongestIs DEF Waits
    <3>5. CASE Kind[c] = "get"
      BY <2>1, <2>2, <3>1, <3>3, <3>5, LongestIs DEF Waits
    <3>6. CASE Kind[c] = "post"
      <4>1. Spent(call[c].sends - 1) = 0
        BY <3>1, <3>6, SpentOnce
      <4>2. QED
        BY <2>1, <2>2, <3>1, <3>6, <4>1, LongestIs DEF Waits
    <3>7. QED
      BY <3>4, <3>5, <3>6, Parameters
  <2>6. CASE call[c].at = "backoff"
    <3>1. /\ call[c].sends <= MaxRetries /\ Kind[c] # "post" /\ now <= call[c].due
          /\ call[c].due - call[c].start <= Waits(c) + Spent(call[c].sends)
      BY <2>1, <2>2, <2>6 DEF Fits
    <3>2. Spent(call[c].sends) <= Spent(MaxRetries) /\ Spent(call[c].sends) \in Nat
      BY <2>1, <2>2, <3>1, SpentMore, SpentTypes
    <3>3. CASE Kind[c] = "list"
      BY <2>1, <2>2, <3>1, <3>2, <3>3, LongestIs DEF Waits
    <3>4. CASE Kind[c] = "get"
      BY <2>1, <2>2, <3>1, <3>2, <3>4, LongestIs DEF Waits
    <3>5. QED
      BY <3>1, <3>3, <3>4, Parameters
  <2>7. QED
    BY <2>3, <2>4, <2>5, <2>6
<1>3. QED
  BY <1>1, <1>2 DEF RetriesEnd, EndsInTime

(* However callers interleave, and although transactions reach the row      *)
(* late: no window of time holds more tokens than a full bucket and what    *)
(* refills meanwhile, and whom MaxDelay others follow is not overtaken.     *)
THEOREM RateIsKept == Spec => []RateKept
  BY InvAlways, RateFollows, PTL

(* A request is repeated MAX_RETRIES times at most, one that creates or     *)
(* deletes never; and every call ends within its waits, attempts and        *)
(* pauses, however many callers share the bucket.                           *)
THEOREM RetriesComeToAnEnd == Spec => []RetriesEnd
  BY InvAlways, RetriesFollow, PTL

LEMMA NothingSent ==
    ASSUME Inv, [Next]_vars, aborted, NEW c \in Caller
    PROVE  call'[c].sends = call[c].sends
<1>1. ASSUME NEW d \in Caller, NEW q \in Calls, q.sends = call[d].sends,
             call' = [call EXCEPT ![d] = q]
      PROVE  call'[c].sends = call[c].sends
  BY <1>1 DEF Inv, WellTyped
<1>2. ASSUME NEW d \in Caller, NEW how \in Ends, call' = [call EXCEPT ![d] = Ended(d, how)]
      PROVE  call'[c].sends = call[c].sends
  BY <1>1, <1>2, EndedFits
<1>3. \A d \in Caller : Attempt(d) = Ended(d, "aborted")
  BY DEF Attempt
<1>4. CASE Tick
  BY <1>4 DEF Tick
<1>5. ASSUME NEW d \in Caller, Begin(d) PROVE call'[c].sends = call[c].sends
  <2> DEFINE q == [Ended(d, "aborted") EXCEPT !.start = 0]
  <2>1. call' = [call EXCEPT ![d] = q]
    BY <1>3, <1>5 DEF Begin
  <2>2. q \in Calls /\ q.sends = call[d].sends
    BY EndedFits DEF Calls, Ends
  <2> HIDE DEF q
  <2>3. QED
    BY <1>1, <2>1, <2>2
<1>6. ASSUME NEW d \in Caller, Acquire(d) PROVE call'[c].sends = call[c].sends
  <2>1. call' = [call EXCEPT ![d] = Ended(d, "aborted")]
    BY <1>3, <1>6 DEF Acquire
  <2>2. QED
    BY <1>2, <2>1 DEF Ends
<1>7. ASSUME NEW d \in Caller, Wake(d) PROVE call'[c].sends = call[c].sends
  BY <1>2, <1>3, <1>7 DEF Wake, Ends
<1>8. ASSUME NEW d \in Caller, NEW how \in {"ok", "empty", "failed"}, EndCall(d, how)
      PROVE  call'[c].sends = call[c].sends
  <2> DEFINE as == IF call[d].at = "aborted" THEN "aborted" ELSE how
  <2>1. as \in Ends /\ call' = [call EXCEPT ![d] = Ended(d, as)]
    BY <1>8 DEF EndCall, Ends, Inv, WellTyped
  <2> HIDE DEF as
  <2>2. QED
    BY <1>2, <2>1
<1>9. ASSUME NEW d \in Caller, Retried(d) PROVE call'[c].sends = call[c].sends
  <2>1. CASE c # d
    BY <1>9, <2>1 DEF Retried, Inv, WellTyped
  <2>2. CASE c = d /\ call[c].at = "aborted"
    BY <1>2, <1>9, <2>2 DEF Retried, Ends
  <2>3. CASE c = d /\ call[c].at # "aborted"
    BY <1>9, <2>3 DEF Retried, Inv, WellTyped, Calls
  <2>4. QED
    BY <2>1, <2>2, <2>3
<1>10. CASE Abort
  BY <1>10 DEF Abort
<1>11. CASE UNCHANGED vars
  BY <1>11 DEF vars
<1>12. QED
  BY <1>4, <1>5, <1>6, <1>7, <1>8, <1>9, <1>10, <1>11 DEF Next, Succeed, FailForNow, Fail

(* After an abort no request goes out any more, whatever its caller was     *)
(* doing.                                                                   *)
THEOREM AbortStopsRequests == Spec => NothingAfterAbort
<1>1. Inv /\ [Next]_vars => [aborted => \A c \in Caller : call'[c].sends = call[c].sends]_vars
  BY NothingSent
<1>2. QED
  BY <1>1, InvAlways, PTL DEF Spec, NothingAfterAbort

-----------------------------------------------------------------------------
(***************************************************************************)
(* SheetsWrite, for every set of keys, any number of versions, records and *)
(* requests.  A tab is described by its cells, a row beyond its end being  *)
(* blank; a plan by what it makes of each row.                             *)
(***************************************************************************)
-----------------------------------------------------------------------------
(* Sets of numbers.                                                        *)

\* A nonempty set of numbers up to n has a greatest one.
LEMMA HasGreatest ==
    ASSUME NEW n \in Nat, NEW T \in SUBSET (0 .. n), T # {}
    PROVE  Max(T) \in T /\ \A t \in T : t <= Max(T)
<1> DEFINE D == {x \in Nat : n - x \in T}
<1>1. PICK t \in T : t \in 0 .. n
  OBVIOUS
<1>2. n - t \in D
  BY <1>1
<1>3. PICK d \in D : \A c \in D : <<c, d>> \notin OpToRel(<, Nat)
  BY <1>2, WFMin, NatLessThanWellFounded
<1>4. d \in Nat /\ n - d \in T /\ \A c \in D : ~(c < d)
  BY <1>3 DEF OpToRel
<1>5. ASSUME NEW h \in T
      PROVE  n - d >= h
  <2>1. h \in 0 .. n /\ n - h \in Nat /\ n - (n - h) = h
    OBVIOUS
  <2>2. n - h \in D
    BY <2>1
  <2> QED BY <1>4, <2>1, <2>2
<1>6. \E m \in T : \A h \in T : m >= h
  BY <1>4, <1>5
<1>7. Max(T) \in T /\ \A h \in T : Max(T) >= h
  BY <1>6 DEF Max
<1> QED BY <1>7

\* The places in a finite set of numbers are those from 1 to its size, one
\* number at each, and the higher the number the later its place.
LEMMA Places ==
    ASSUME NEW n \in Nat, NEW S \in SUBSET (1 .. n)
    PROVE  /\ IsFiniteSet(S) /\ Cardinality(S) \in Nat
           /\ \A x \in S : Rank(x, S) \in 1 .. Cardinality(S) /\ Nth(S, Rank(x, S)) = x
           /\ \A k \in 1 .. Cardinality(S) : Nth(S, k) \in S /\ Rank(Nth(S, k), S) = k
           /\ \A x, y \in S : x < y => Rank(x, S) < Rank(y, S)
<1>1. IsFiniteSet(S) /\ Cardinality(S) \in Nat
  <2>1. IsFiniteSet(1 .. n)
    BY FS_Interval
  <2> QED BY <2>1, FS_Subset, FS_CardinalityType
<1> DEFINE Below(x) == {m \in S : m <= x}
<1>2. ASSUME NEW x \in S
      PROVE  Rank(x, S) \in 1 .. Cardinality(S)
  <2>1. Below(x) \in SUBSET S /\ {x} \in SUBSET Below(x) /\ x \in Nat
    OBVIOUS
  <2> HIDE DEF Below
  <2>2. /\ IsFiniteSet(Below(x)) /\ Cardinality(Below(x)) <= Cardinality(S)
        /\ Cardinality(Below(x)) \in Nat
    BY <1>1, <2>1, FS_Subset, FS_CardinalityType
  <2>3. Cardinality({x}) <= Cardinality(Below(x)) /\ Cardinality({x}) = 1
    BY <2>1, <2>2, FS_Subset, FS_Singleton
  <2>4. Rank(x, S) = Cardinality(Below(x))
    BY DEF Rank, Below
  <2> QED BY <1>1, <2>2, <2>3, <2>4
<1>3. ASSUME NEW x \in S, NEW y \in S, x < y
      PROVE  Rank(x, S) < Rank(y, S)
  <2>1. Below(x) \cup {y} \in SUBSET Below(y) /\ y \notin Below(x) /\ Below(y) \in SUBSET S
        /\ Below(x) \in SUBSET S
    <3>1. S \subseteq Nat /\ x \in Nat /\ y \in Nat
      OBVIOUS
    <3>2. \A m \in S : m <= x => m <= y
      BY <1>3, <3>1
    <3>3. ~(y <= x) /\ y <= y
      BY <1>3, <3>1
    <3> QED BY <3>2, <3>3
  <2> HIDE DEF Below
  <2>2. IsFiniteSet(Below(x)) /\ IsFiniteSet(Below(y))
    BY <1>1, <2>1, FS_Subset
  <2>3. /\ Cardinality(Below(x) \cup {y}) = Cardinality(Below(x)) + 1
        /\ Cardinality(Below(x) \cup {y}) <= Cardinality(Below(y))
        /\ Cardinality(Below(x)) \in Nat /\ Cardinality(Below(y)) \in Nat
    BY <2>1, <2>2, FS_AddElement, FS_Subset, FS_CardinalityType
  <2>4. Rank(x, S) = Cardinality(Below(x)) /\ Rank(y, S) = Cardinality(Below(y))
    BY DEF Rank, Below
  <2> QED BY <2>3, <2>4
<1>4. ASSUME NEW x \in S, NEW y \in S, Rank(x, S) = Rank(y, S)
      PROVE  x = y
  <2>1. x \in Nat /\ y \in Nat /\ Rank(x, S) \in Nat
    BY <1>1, <1>2
  <2> QED BY <1>3, <1>4, <2>1
<1>5. ASSUME NEW k \in 1 .. Cardinality(S)
      PROVE  \E x \in S : Rank(x, S) = k
  <2> DEFINE f == [x \in S |-> Rank(x, S)]
  <2>1. f \in Injection(S, 1 .. Cardinality(S))
    BY <1>2, <1>4 DEF Injection, IsInjective
  <2>2. IsFiniteSet(1 .. Cardinality(S)) /\ Cardinality(1 .. Cardinality(S)) = Cardinality(S)
    BY <1>1, FS_Interval
  <2>3. f \in Surjection(S, 1 .. Cardinality(S))
    BY <2>1, <2>2, FS_Injection
  <2> QED BY <2>3 DEF Surjection
<1>6. \A k \in 1 .. Cardinality(S) : Nth(S, k) \in S /\ Rank(Nth(S, k), S) = k
  BY <1>5 DEF Nth
<1>7. ASSUME NEW x \in S
      PROVE  Nth(S, Rank(x, S)) = x
  BY <1>2, <1>4, <1>6
<1> QED BY <1>1, <1>2, <1>3, <1>6, <1>7

-----------------------------------------------------------------------------
(* Cells.                                                                  *)

Content == Row \cup {Header, Blank}

\* What a row shows: nothing beyond the last one.
Cell(s, i) == IF i \in DOMAIN s THEN s[i] ELSE Blank

Neat(s) == s \in Seq(Content) /\ (Len(s) > 0 => s[Len(s)] # Blank)

\* The bounds are numbers.
LEMMA Sizes ==
    /\ IsFiniteSet(Key) /\ MaxVersion \in Nat \ {0} /\ MaxBatch \in Nat \ {0}
    /\ MaxRequests \in Nat \ {0}
BY SheetsAssumption DEF SheetsAssumption

\* A row holds data, the header and a blank row do not.
LEMMA ContentsAre ==
    /\ \A row \in Row : IsData(row) /\ row # Header /\ row # Blank /\ row.key \in Key
                        /\ row.version \in Versions /\ row.version \in Nat /\ row.version > 0
    /\ ~IsData(Header) /\ ~IsData(Blank) /\ Header # Blank
    /\ Header \in Content /\ Blank \in Content /\ Row \subseteq Content
BY Sizes DEF Row, IsData, Header, Blank, Versions, Content

\* What values.get returns shows the same cells.
LEMMA TrimmedIs ==
    ASSUME NEW m \in Nat, NEW s \in [1 .. m -> Content]
    PROVE  /\ Neat(Trimmed(s))
           /\ \A i \in Nat \ {0} : Cell(Trimmed(s), i) = Cell(s, i)
<1> DEFINE used == {i \in DOMAIN s : s[i] # Blank}
           last == LastRow(s)
<1>1. s \in Seq(Content) /\ Len(s) = m /\ DOMAIN s = 1 .. m
  OBVIOUS
<1>2. last \in 0 .. m /\ (last > 0 => s[last] # Blank)
      /\ \A i \in 1 .. m : i > last => s[i] = Blank
  <2>1. CASE used = {}
    BY <1>1, <2>1 DEF LastRow
  <2>2. CASE used # {}
    <3>1. used \in SUBSET (0 .. m) /\ used \in SUBSET (1 .. m)
      BY <1>1
    <3>2. last = Max(used)
      BY <2>2 DEF LastRow
    <3>3. last \in used /\ \A i \in used : i <= last
      BY <2>2, <3>1, <3>2, HasGreatest
    <3>4. last \in 1 .. m /\ s[last] # Blank
      BY <3>1, <3>3
    <3>5. ASSUME NEW i \in 1 .. m, i > last
          PROVE  s[i] = Blank
      <4>1. i \notin used
        BY <3>3, <3>4, <3>5
      <4> QED BY <1>1, <4>1
    <3> QED BY <3>4, <3>5
  <2> QED BY <2>1, <2>2
<1>3. Trimmed(s) = SubSeq(s, 1, last)
  BY DEF Trimmed
<1> HIDE DEF last
<1>4. /\ Trimmed(s) \in Seq(Content) /\ Len(Trimmed(s)) = last /\ DOMAIN Trimmed(s) = 1 .. last
      /\ \A i \in 1 .. last : Trimmed(s)[i] = s[i]
  <2>1. last \in 0 .. m /\ 1 \in 1 .. m + 1
    BY <1>2
  <2> QED BY <1>1, <1>3, <2>1, SubSeqProperties
<1> QED BY <1>1, <1>2, <1>4 DEF Neat, Cell

\* Two neat tabs that show the same are the same.
LEMMA NeatAreSame ==
    ASSUME NEW s, NEW t, Neat(s), Neat(t), \A i \in Nat \ {0} : Cell(s, i) = Cell(t, i)
    PROVE  s = t
<1>1. /\ s \in Seq(Content) /\ t \in Seq(Content) /\ Len(s) \in Nat /\ Len(t) \in Nat
      /\ DOMAIN s = 1 .. Len(s) /\ DOMAIN t = 1 .. Len(t)
  BY DEF Neat
<1>2. ~(Len(s) < Len(t))
  <2> SUFFICES ASSUME Len(s) < Len(t) PROVE FALSE
    OBVIOUS
  <2>1. Cell(s, Len(t)) = Blank /\ Cell(t, Len(t)) # Blank /\ Len(t) \in Nat \ {0}
    BY <1>1 DEF Cell, Neat
  <2> QED BY <2>1
<1>3. ~(Len(t) < Len(s))
  <2> SUFFICES ASSUME Len(t) < Len(s) PROVE FALSE
    OBVIOUS
  <2>1. Cell(t, Len(s)) = Blank /\ Cell(s, Len(s)) # Blank /\ Len(s) \in Nat \ {0}
    BY <1>1 DEF Cell, Neat
  <2> QED BY <2>1
<1>4. Len(s) = Len(t)
  <2>1. \A a, b \in Nat : ~(a < b) /\ ~(b < a) => a = b
    OBVIOUS
  <2>2. Len(s) \in Nat /\ Len(t) \in Nat
    BY <1>1
  <2> QED BY <1>2, <1>3, <2>1, <2>2, Zenon
<1>5. \A i \in 1 .. Len(s) : s[i] = t[i]
  BY <1>1, <1>4 DEF Cell
<1> QED BY <1>1, <1>4, <1>5, SeqEqual

\* What a plan can be, whatever was read: an update never touches the header.
PlanTyped(plan) ==
    /\ \E top \in Nat : DOMAIN plan.updates \subseteq 2 .. top
    /\ \A r \in DOMAIN plan.updates : plan.updates[r] \in Row \cup {Blank}
    /\ plan.appends \in Seq(Row) /\ Len(plan.appends) <= MaxBatch
    /\ plan.start \in Nat \ {0}

\* A batchUpdate writes the plan's cells and leaves the others.
LEMMA PasteIs ==
    ASSUME NEW s \in Seq(Content), NEW plan, PlanTyped(plan)
    PROVE  /\ Neat(Paste(s, plan))
           /\ \A i \in Nat \ {0} :
                 Cell(Paste(s, plan), i) = IF i \in DOMAIN Cells(plan) THEN Cells(plan)[i]
                                           ELSE Cell(s, i)
<1> DEFINE cells == Cells(plan)
           block == plan.start .. plan.start + Len(plan.appends) - 1
           height == Max(DOMAIN cells \cup {Len(s)})
<1>0. /\ Len(s) \in Nat /\ DOMAIN s = 1 .. Len(s) /\ \A i \in DOMAIN s : s[i] \in Content
      /\ Len(plan.appends) \in Nat /\ plan.start \in Nat \ {0}
      /\ \A i \in 1 .. Len(plan.appends) : plan.appends[i] \in Row
  BY DEF PlanTyped
<1>1. /\ DOMAIN cells = block \cup DOMAIN plan.updates
      /\ \A i \in DOMAIN cells : cells[i] = IF i \in block THEN plan.appends[i - plan.start + 1]
                                            ELSE plan.updates[i]
  BY DEF Cells, Over
<1>2. PICK top \in Nat : DOMAIN plan.updates \subseteq 2 .. top
  BY DEF PlanTyped
<1>3. \A i \in DOMAIN cells : i \in Nat \ {0} /\ cells[i] \in Content
  <2> SUFFICES ASSUME NEW i \in DOMAIN cells PROVE i \in Nat \ {0} /\ cells[i] \in Content
    OBVIOUS
  <2>1. CASE i \in block
    <3>1. i \in Nat \ {0} /\ i - plan.start + 1 \in 1 .. Len(plan.appends)
      BY <1>0, <2>1
    <3> QED BY <1>0, <1>1, <2>1, <3>1 DEF Content
  <2>2. CASE i \notin block
    <3>1. i \in DOMAIN plan.updates /\ i \in 2 .. top
      BY <1>1, <1>2, <2>2
    <3>2. plan.updates[i] \in Content
      BY <3>1 DEF PlanTyped, Content
    <3> QED BY <1>1, <2>2, <3>1, <3>2
  <2> QED BY <2>1, <2>2
<1> DEFINE hi == top + plan.start + Len(plan.appends) + Len(s)
<1>4. hi \in Nat /\ DOMAIN cells \cup {Len(s)} \in SUBSET (0 .. hi)
  <2>1. \A t, a, b, c \in Nat :
           /\ t + a + b + c \in Nat /\ c \in 0 .. t + a + b + c
           /\ a .. a + b - 1 \subseteq 0 .. t + a + b + c /\ 2 .. t \subseteq 0 .. t + a + b + c
    OBVIOUS
  <2>2. plan.start \in Nat /\ Len(plan.appends) \in Nat /\ Len(s) \in Nat
    BY <1>0
  <2>3. hi \in Nat /\ Len(s) \in 0 .. hi /\ block \subseteq 0 .. hi /\ 2 .. top \subseteq 0 .. hi
    BY <2>1, <2>2, Zenon
  <2> QED BY <1>1, <1>2, <2>3
<1> HIDE DEF cells, hi
<1>5. height \in Nat /\ \A i \in DOMAIN cells \cup {Len(s)} : i <= height
  <2>1. DOMAIN cells \cup {Len(s)} # {}
    OBVIOUS
  <2>2. height \in DOMAIN cells \cup {Len(s)} /\ \A i \in DOMAIN cells \cup {Len(s)} : i <= height
    BY <1>4, <2>1, HasGreatest
  <2>3. 0 .. hi \subseteq Nat
    BY <1>4
  <2> QED BY <1>4, <2>2, <2>3, Zenon
<1> HIDE DEF height
<1> DEFINE over == [i \in 1 .. height |->
                       IF i \in DOMAIN cells THEN cells[i] ELSE IF i <= Len(s) THEN s[i] ELSE Blank]
<1>6. over = Overwritten(s, Cells(plan))
  BY DEF Overwritten, cells, height
<1>7. over \in [1 .. height -> Content]
  BY <1>0, <1>3, <1>5, ContentsAre
<1>8. \A i \in Nat \ {0} :
         Cell(over, i) = IF i \in DOMAIN cells THEN cells[i] ELSE Cell(s, i)
  BY <1>0, <1>3, <1>5 DEF Cell
<1>9. Paste(s, plan) = Trimmed(over)
  BY <1>6 DEF Paste
<1> HIDE DEF over
<1>10. /\ Neat(Trimmed(over))
       /\ \A i \in Nat \ {0} : Cell(Trimmed(over), i) = Cell(over, i)
  BY <1>5, <1>7, TrimmedIs
<1> QED BY <1>8, <1>9, <1>10 DEF cells

\* A batchUpdate repeated changes nothing.
LEMMA PasteTwice ==
    ASSUME NEW s \in Seq(Content), NEW plan, PlanTyped(plan)
    PROVE  Paste(Paste(s, plan), plan) = Paste(s, plan)
<1> DEFINE once == Paste(s, plan)
<1>1. once \in Seq(Content) /\ Neat(once)
  BY PasteIs DEF Neat
<1>2. \A i \in Nat \ {0} :
         Cell(once, i) = IF i \in DOMAIN Cells(plan) THEN Cells(plan)[i] ELSE Cell(s, i)
  BY PasteIs
<1> HIDE DEF once
<1>3. Neat(Paste(once, plan))
  BY <1>1, PasteIs
<1>4. \A i \in Nat \ {0} :
         Cell(Paste(once, plan), i) = IF i \in DOMAIN Cells(plan) THEN Cells(plan)[i]
                                      ELSE Cell(once, i)
  BY <1>1, PasteIs
<1>5. \A i \in Nat \ {0} : Cell(Paste(once, plan), i) = Cell(once, i)
  BY <1>2, <1>4
<1> QED BY <1>1, <1>3, <1>5, NeatAreSame DEF once

-----------------------------------------------------------------------------
(* The plan.                                                               *)

\* A tab, whatever has happened to it: it begins with something.
Tab(s) == /\ Neat(s) /\ Len(s) >= 1 /\ s[1] # Blank
          /\ \A i \in 2 .. Len(s) : s[i] \in Row \cup {Blank}

\* A batch holds one record of a key.
Drafted(b) ==
    /\ b \in [appends : Seq(Row), deletes : SUBSET Key] /\ Len(b.appends) <= MaxBatch
    /\ \A i, j \in DOMAIN b.appends : b.appends[i].key = b.appends[j].key => i = j

\* The row map finds a row of the key where there is one.
LEMMA RowsAre ==
    ASSUME NEW s, Tab(s), NEW k
    PROVE  /\ Len(s) \in Nat \ {0} /\ DOMAIN s = 1 .. Len(s)
           /\ RowsOf(s, k) \in SUBSET (2 .. Len(s))
           /\ OnSheet(s, k) => RowMap(s, k) \in RowsOf(s, k)
           /\ \A i \in RowsOf(s, k) : s[i] \in Row /\ s[i].key = k
<1>1. Len(s) \in Nat \ {0} /\ DOMAIN s = 1 .. Len(s)
  BY DEF Tab, Neat
<1>2. RowsOf(s, k) \in SUBSET (2 .. Len(s))
  BY DEF RowsOf
<1>3. RowsOf(s, k) \in SUBSET (0 .. Len(s))
  BY <1>1, <1>2
<1>4. OnSheet(s, k) => RowMap(s, k) \in RowsOf(s, k)
  BY <1>1, <1>3, HasGreatest DEF OnSheet, RowMap
<1>5. \A i \in RowsOf(s, k) : s[i] \in Row /\ s[i].key = k
  BY ContentsAre DEF RowsOf, Tab
<1> QED BY <1>1, <1>2, <1>4, <1>5

\* Deletes resolve to rows below the header.
LEMMA DeletedAre ==
    ASSUME NEW s, Tab(s), NEW b, Drafted(b)
    PROVE  /\ DeletedRows(s, b) \in SUBSET (2 .. Len(s))
           /\ \A r \in DeletedRows(s, b) : s[r] \in Row /\ s[r].key \in b.deletes
<1> SUFFICES ASSUME NEW r \in DeletedRows(s, b)
             PROVE  r \in 2 .. Len(s) /\ s[r] \in Row /\ s[r].key \in b.deletes
  OBVIOUS
<1>1. PICK k \in b.deletes : OnSheet(s, k) /\ r = RowMap(s, k)
  BY DEF DeletedRows
<1> QED BY <1>1, RowsAre

\* What is left to append: one record for each new key that is not deleted.
LEMMA RemainingAre ==
    ASSUME NEW s, Tab(s), NEW b, Drafted(b)
    PROVE  /\ Remaining(s, b) \in Seq(Row) /\ Len(Remaining(s, b)) <= MaxBatch
           /\ Len(Remaining(s, b)) \in Nat
           /\ \A n \in 1 .. Len(Remaining(s, b)) :
                 /\ ~OnSheet(s, Remaining(s, b)[n].key) /\ Remaining(s, b)[n].key \notin b.deletes
                 /\ Remaining(s, b)[n] \in Row
           /\ \A m, n \in 1 .. Len(Remaining(s, b)) :
                 Remaining(s, b)[m].key = Remaining(s, b)[n].key => m = n
           /\ \A i \in New(s, b) : \E n \in 1 .. Len(Remaining(s, b)) : Remaining(s, b)[n] = b.appends[i]
<1> DEFINE new == New(s, b)
           rem == Remaining(s, b)
           count == Cardinality(new)
           len == Len(b.appends)
<1>1. /\ len \in Nat /\ DOMAIN b.appends = 1 .. len /\ \A i \in 1 .. len : b.appends[i] \in Row
      /\ len <= MaxBatch
  BY DEF Drafted
<1>2. new \in SUBSET (1 .. len)
  BY <1>1 DEF New
<1>3. /\ count \in Nat
      /\ \A i \in new : Rank(i, new) \in 1 .. count /\ Nth(new, Rank(i, new)) = i
      /\ \A n \in 1 .. count : Nth(new, n) \in new /\ Rank(Nth(new, n), new) = n
  BY <1>1, <1>2, Places
<1>4. count <= MaxBatch
  <2>1. IsFiniteSet(1 .. len) /\ Cardinality(1 .. len) = len
    BY <1>1, FS_Interval
  <2>2. count <= len
    BY <1>2, <2>1, FS_Subset
  <2> QED BY <1>1, <1>3, <2>2, Sizes
<1>5. rem = [n \in 1 .. count |-> b.appends[Nth(new, n)]]
  BY DEF Remaining
<1>6. ASSUME NEW n \in 1 .. count
      PROVE  /\ rem[n] = b.appends[Nth(new, n)] /\ rem[n] \in Row
             /\ ~OnSheet(s, rem[n].key) /\ rem[n].key \notin b.deletes
  BY <1>1, <1>2, <1>3, <1>5 DEF New
<1>7. rem \in Seq(Row) /\ Len(rem) = count
  BY <1>3, <1>5, <1>6
<1>8. ASSUME NEW m \in 1 .. count, NEW n \in 1 .. count, rem[m].key = rem[n].key
      PROVE  m = n
  <2>1. Nth(new, m) \in DOMAIN b.appends /\ Nth(new, n) \in DOMAIN b.appends
    BY <1>1, <1>2, <1>3
  <2>2. Nth(new, m) = Nth(new, n)
    BY <1>6, <1>8, <2>1 DEF Drafted
  <2> QED BY <1>3, <2>2
<1>9. ASSUME NEW i \in new
      PROVE  \E n \in 1 .. count : rem[n] = b.appends[i]
  BY <1>3, <1>6
<1> HIDE DEF new, rem, count, len
<1>10. /\ \A n \in 1 .. Len(rem) : /\ ~OnSheet(s, rem[n].key) /\ rem[n].key \notin b.deletes
                                   /\ rem[n] \in Row
       /\ \A m, n \in 1 .. Len(rem) : rem[m].key = rem[n].key => m = n
       /\ \A i \in new : \E n \in 1 .. Len(rem) : rem[n] = b.appends[i]
  BY <1>6, <1>7, <1>8, <1>9
<1> QED BY <1>3, <1>4, <1>7, <1>10 DEF new, rem

\* An update replaces a row by a newer version of its object.
LEMMA ConvertedAre ==
    ASSUME NEW s, Tab(s), NEW b, Drafted(b), NEW r \in DOMAIN Converted(s, b)
    PROVE  /\ r \in 2 .. Len(s) /\ s[r] \in Row
           /\ Converted(s, b)[r] \in Row /\ Converted(s, b)[r].key = s[r].key
           /\ Converted(s, b)[r].version > s[r].version
<1> DEFINE newer == {i \in DOMAIN b.appends :
                        /\ OnSheet(s, b.appends[i].key)
                        /\ b.appends[i].version > s[RowMap(s, b.appends[i].key)].version}
           target(i) == RowMap(s, b.appends[i].key)
           chosen == CHOOSE i \in newer : target(i) = r
<1>1. /\ DOMAIN Converted(s, b) = {target(i) : i \in newer}
      /\ Converted(s, b)[r] = b.appends[chosen]
  BY DEF Converted
<1>2. \E i \in newer : target(i) = r
  BY <1>1
<1>3. chosen \in newer /\ target(chosen) = r
  BY <1>2
<1> HIDE DEF chosen
<1>4. /\ b.appends[chosen] \in Row /\ OnSheet(s, b.appends[chosen].key)
      /\ b.appends[chosen].version > s[r].version /\ r = RowMap(s, b.appends[chosen].key)
  BY <1>3 DEF Drafted
<1>5. r \in 2 .. Len(s) /\ s[r] \in Row /\ s[r].key = b.appends[chosen].key
  BY <1>4, RowsAre
<1> QED BY <1>1, <1>4, <1>5

\* The deleted rows that q new keys fill, the rows taken from the bottom of n,
\* and the deleted rows that those fill.
Slots(D, q)     == {r \in D : Rank(r, D) <= q}
Bottom(n, D, q) == n - Cardinality(D \ Slots(D, q)) + 1 .. n
Gaps(n, D, q)   == (D \ Slots(D, q)) \ Bottom(n, D, q)

\* The holes that no new key fills are as many as the rows taken from the
\* bottom; none of the filled ones lies there, and the survivors of the bottom
\* are as many as the holes above it.
LEMMA MovesAre ==
    ASSUME NEW n \in Nat \ {0}, NEW D \in SUBSET (2 .. n), NEW q \in Nat
    PROVE  /\ Cardinality(D) \in Nat /\ Cardinality(D \ Slots(D, q)) \in 0 .. n - 1
           /\ Bottom(n, D, q) \in SUBSET (2 .. n) /\ Slots(D, q) \cap Bottom(n, D, q) = {}
           /\ Cardinality(Gaps(n, D, q)) = Cardinality(Bottom(n, D, q) \ D)
           /\ Cardinality(D \ Slots(D, q)) > 0 => q < Cardinality(D)
<1> DEFINE slots == Slots(D, q)
           tail == Bottom(n, D, q)
<1>1. /\ slots \in SUBSET D /\ \A r \in D : r \in slots <=> Rank(r, D) <= q
      /\ tail = n - Cardinality(D \ slots) + 1 .. n
      /\ Gaps(n, D, q) = (D \ slots) \ tail
  BY DEF Slots, Bottom, Gaps
<1> HIDE DEF slots, tail
<1>2. 2 .. n \in SUBSET (1 .. n) /\ 2 .. n \in SUBSET Nat
  OBVIOUS
<1> DEFINE holes == D \ slots
           h == Cardinality(holes)
<1>3. /\ D \in SUBSET (1 .. n) /\ holes \in SUBSET D /\ D \subseteq Nat
      /\ holes \in SUBSET (2 .. n)
  BY <1>2, Zenon
<1>4. /\ IsFiniteSet(D) /\ Cardinality(D) \in Nat
      /\ \A x \in D : Rank(x, D) \in 1 .. Cardinality(D)
      /\ \A x, y \in D : x < y => Rank(x, D) < Rank(y, D)
  <2>1. n \in Nat
    OBVIOUS
  <2> QED BY <1>3, <2>1, Places
<1>5. IsFiniteSet(holes) /\ h \in Nat
  BY <1>3, <1>4, FS_Subset, FS_CardinalityType
<1>6. h <= n - 1
  <2>1. IsFiniteSet(2 .. n) /\ Cardinality(2 .. n) = n - 1
    BY FS_Interval
  <2> QED BY <1>3, <2>1, FS_Subset
<1>7. tail \in SUBSET (2 .. n) /\ IsFiniteSet(tail) /\ Cardinality(tail) = h
  <2> SUFFICES ASSUME NEW c \in Nat, c <= n - 1, c = h
               PROVE  /\ n - c + 1 .. n \in SUBSET (2 .. n) /\ IsFiniteSet(n - c + 1 .. n)
                      /\ Cardinality(n - c + 1 .. n) = c
    BY <1>5, <1>6, <1>1
  <2> HIDE DEF h
  <2>1. n - c + 1 \in Int /\ n \in Int /\ 2 <= n - c + 1
    OBVIOUS
  <2>2. n - c + 1 .. n \in SUBSET (2 .. n)
    BY <2>1
  <2>3. (IF n - c + 1 > n THEN 0 ELSE n - (n - c + 1) + 1) = c
    OBVIOUS
  <2>4. /\ IsFiniteSet(n - c + 1 .. n)
        /\ Cardinality(n - c + 1 .. n) = IF n - c + 1 > n THEN 0 ELSE n - (n - c + 1) + 1
    BY <2>1, FS_Interval
  <2> QED BY <2>2, <2>3, <2>4
<1>8. slots \cap tail = {}
  <2> SUFFICES ASSUME NEW r \in slots, r \in tail PROVE FALSE
    OBVIOUS
  <2>1. r \in D /\ r \in 2 .. n /\ Rank(r, D) <= q /\ r > n - h
    BY <1>5, <1>6, <1>7, <1>1
  <2>2. ASSUME NEW x \in holes
        PROVE  x \in r + 1 .. n
    <3>1. x \in D /\ x \in 2 .. n /\ ~(Rank(x, D) <= q)
      BY <1>3, <1>1
    <3>2. ~(x < r) /\ x # r
      BY <1>4, <2>1, <3>1
    <3> QED BY <2>1, <3>1, <3>2
  <2>3. IsFiniteSet(r + 1 .. n) /\ Cardinality(r + 1 .. n) = n - r
    <3>1. r \in Nat /\ r <= n
      BY <2>1
    <3>2. (IF r + 1 > n THEN 0 ELSE n - (r + 1) + 1) = n - r
      BY <3>1
    <3> QED BY <3>1, <3>2, FS_Interval
  <2>4. h <= n - r
    <3>1. holes \in SUBSET (r + 1 .. n)
      BY <2>2
    <3> QED BY <2>3, <3>1, FS_Subset
  <2> QED BY <1>5, <2>1, <2>4
<1>9. Cardinality(holes \ tail) = Cardinality(tail \ D)
  <2>1. holes \cap tail = tail \cap D
    BY <1>3, <1>8, <1>1
  <2> HIDE DEF holes
  <2>2. Cardinality(holes \ tail) = h - Cardinality(holes \cap tail)
    BY <1>5, FS_Difference
  <2>3. Cardinality(tail \ D) = h - Cardinality(tail \cap D)
    BY <1>7, FS_Difference
  <2> QED BY <2>1, <2>2, <2>3
<1>10. ASSUME h > 0
       PROVE  q < Cardinality(D)
  <2>1. PICK x : x \in holes
    <3> SUFFICES ASSUME holes = {} PROVE FALSE
      OBVIOUS
    <3>1. h = 0
      BY FS_EmptySet, Zenon
    <3> QED BY <1>10, <3>1
  <2>2. x \in D /\ ~(Rank(x, D) <= q)
    BY <2>1, <1>1
  <2> QED BY <1>4, <2>2
<1>11. h \in 0 .. n - 1
  <2> HIDE DEF h
  <2> QED BY <1>5, <1>6
<1> QED BY <1>4, <1>7, <1>8, <1>9, <1>10, <1>11, <1>1 DEF slots, tail

\* Every hole is filled by one of as many rows, each by another one.
LEMMA FillersAre ==
    ASSUME NEW n \in Nat, NEW S \in SUBSET (1 .. n), NEW T \in SUBSET (1 .. n),
           Cardinality(S) = Cardinality(T)
    PROVE  /\ \A r \in S : Nth(T, Rank(r, S)) \in T
           /\ \A r, p \in S : Nth(T, Rank(r, S)) = Nth(T, Rank(p, S)) => r = p
           /\ \A t \in T : \E r \in S : Nth(T, Rank(r, S)) = t
<1>1. /\ \A r \in S : Rank(r, S) \in 1 .. Cardinality(S) /\ Nth(S, Rank(r, S)) = r
      /\ \A k \in 1 .. Cardinality(S) : Nth(S, k) \in S /\ Rank(Nth(S, k), S) = k
  BY Places
<1>2. /\ \A t \in T : Rank(t, T) \in 1 .. Cardinality(T) /\ Nth(T, Rank(t, T)) = t
      /\ \A k \in 1 .. Cardinality(T) : Nth(T, k) \in T /\ Rank(Nth(T, k), T) = k
  BY Places
<1>3. ASSUME NEW r \in S
      PROVE  Nth(T, Rank(r, S)) \in T /\ Rank(Nth(T, Rank(r, S)), T) = Rank(r, S)
  BY <1>1, <1>2
<1>4. ASSUME NEW r \in S, NEW p \in S, Nth(T, Rank(r, S)) = Nth(T, Rank(p, S))
      PROVE  r = p
  <2>1. Rank(r, S) = Rank(p, S)
    BY <1>3, <1>4
  <2> QED BY <1>1, <2>1
<1>5. ASSUME NEW t \in T
      PROVE  \E r \in S : Nth(T, Rank(r, S)) = t
  <2>1. Nth(S, Rank(t, T)) \in S /\ Rank(Nth(S, Rank(t, T)), S) = Rank(t, T)
    BY <1>1, <1>2
  <2> QED BY <1>2, <2>1
<1> QED BY <1>3, <1>4, <1>5


\* What a plan makes of each row: those at the bottom go blank, a deleted one
\* shows a new key or a row of the bottom, another one at most a newer version;
\* and the new keys that no deleted row takes are appended.
PlanMakes(s, D, R, plan) ==
    LET slots == Slots(D, Len(R))
        tail  == Bottom(Len(s), D, Len(R))
        body  == Gaps(Len(s), D, Len(R))
    IN  /\ plan.start = Len(s) + 1
        /\ DOMAIN plan.updates \subseteq 2 .. Len(s)
        /\ tail \cup body \cup slots \subseteq DOMAIN plan.updates
        /\ \A r \in tail : plan.updates[r] = Blank
        /\ \A r \in body : plan.updates[r] = s[Nth(tail \ D, Rank(r, body))]
        /\ \A r \in slots : Rank(r, D) \in 1 .. Len(R) /\ plan.updates[r] = R[Rank(r, D)]
        /\ \A r \in DOMAIN plan.updates \ (tail \cup D) :
              /\ s[r] \in Row /\ plan.updates[r] \in Row /\ plan.updates[r].key = s[r].key
              /\ plan.updates[r].version > s[r].version
        /\ Len(plan.appends) = IF Len(R) > Cardinality(D) THEN Len(R) - Cardinality(D) ELSE 0
        /\ \A i \in 1 .. Len(plan.appends) : plan.appends[i] = R[Cardinality(D) + i]

\* That is what a flush plans, and it is a batchUpdate.
LEMMA PlanIs ==
    ASSUME NEW s, Tab(s), NEW b, Drafted(b)
    PROVE  /\ PlanTyped(Planned(s, b))
           /\ PlanMakes(s, DeletedRows(s, b), Remaining(s, b), Planned(s, b))
<1> DEFINE D == DeletedRows(s, b)
           R == Remaining(s, b)
           plan == Planned(s, b)
           slots == Slots(D, Len(R))
           tail == Bottom(Len(s), D, Len(R))
           body == Gaps(Len(s), D, Len(R))
           n == Len(s)
           move == [r \in tail |-> Blank]
           fill == Filled(s, (D \ slots) \ tail, tail \ D)
           donated == [r \in slots |-> R[Rank(r, D)]]
           conv == Converted(s, b)
           q == Len(R)
           d == Cardinality(D)
<1>1. n \in Nat \ {0} /\ DOMAIN s = 1 .. n /\ 2 .. n \in SUBSET (1 .. n)
  BY DEF Tab, Neat
<1>2. D \in SUBSET (2 .. n) /\ \A r \in D : s[r] \in Row /\ s[r].key \in b.deletes
  BY DeletedAre
<1>3. /\ R \in Seq(Row) /\ q <= MaxBatch /\ q \in Nat /\ \A i \in 1 .. q : R[i] \in Row
  BY RemainingAre
<1>4. plan = [updates |-> Over(Over(move, fill), Over(donated, conv)),
              appends |-> SubSeq(R, d + 1, q), start |-> n + 1]
  BY DEF Planned, Moved, Bottom, Slots
<1>5. \A r \in DOMAIN conv : /\ r \in 2 .. n /\ s[r] \in Row /\ conv[r] \in Row
                             /\ conv[r].key = s[r].key /\ conv[r].version > s[r].version
  BY ConvertedAre
<1>6. /\ DOMAIN fill = (D \ slots) \ tail
      /\ \A r \in (D \ slots) \ tail : fill[r] = s[Nth(tail \ D, Rank(r, (D \ slots) \ tail))]
  BY DEF Filled
<1>7. DOMAIN move = tail /\ DOMAIN donated = slots
      /\ (\A r \in tail : move[r] = Blank) /\ \A r \in slots : donated[r] = R[Rank(r, D)]
  OBVIOUS
<1>8. body = (D \ slots) \ tail
  BY DEF Gaps
<1>9. /\ slots \in SUBSET D /\ \A r \in D : r \in slots <=> Rank(r, D) <= q
      /\ tail = n - Cardinality(D \ slots) + 1 .. n
  BY DEF Slots, Bottom
<1>10. q = Len(R) /\ d = Cardinality(D)
  OBVIOUS
<1>11. slots = Slots(D, q) /\ tail = Bottom(n, D, q) /\ body = Gaps(n, D, q)
  OBVIOUS
<1> HIDE DEF n, move, fill, donated, conv, q, d, D, R, plan, slots, tail, body
<1>12. /\ plan.updates = Over(Over(move, fill), Over(donated, conv))
       /\ plan.appends = SubSeq(R, d + 1, q) /\ plan.start = n + 1
  BY <1>4
<1>13. /\ d \in Nat /\ Cardinality(D \ slots) \in 0 .. n - 1 /\ tail \in SUBSET (2 .. n)
       /\ slots \cap tail = {}
       /\ Cardinality(body) = Cardinality(tail \ D)
  <2>1. n \in Nat \ {0}
    BY <1>1
  <2>2. D \in SUBSET (2 .. n)
    BY <1>2
  <2>3. q \in Nat
    BY <1>3
  <2>4. /\ Cardinality(D) \in Nat /\ Cardinality(D \ Slots(D, q)) \in 0 .. n - 1
        /\ Bottom(n, D, q) \in SUBSET (2 .. n) /\ Slots(D, q) \cap Bottom(n, D, q) = {}
        /\ Cardinality(Gaps(n, D, q)) = Cardinality(Bottom(n, D, q) \ D)
    BY <2>1, <2>2, <2>3, MovesAre
  <2> QED BY <2>4, <1>11, <1>10
<1>14. body \in SUBSET (2 .. n) /\ tail \ D \in SUBSET (1 .. n) /\ body \in SUBSET (1 .. n)
       /\ slots \in SUBSET (2 .. n) /\ slots \in SUBSET D
  BY <1>1, <1>2, <1>13, <1>8, <1>9, <1>10
<1>15. \A r \in body : Nth(tail \ D, Rank(r, body)) \in tail \ D
  <2>1. n \in Nat /\ Cardinality(body) = Cardinality(tail \ D)
    BY <1>1, <1>13
  <2> QED BY <1>14, <2>1, FillersAre, Zenon
<1>16. DOMAIN conv \subseteq 2 .. n
       /\ \A r \in DOMAIN conv : /\ s[r] \in Row /\ conv[r] \in Row /\ conv[r].key = s[r].key
                                 /\ conv[r].version > s[r].version
  BY <1>5
<1>17. \A r \in slots : Rank(r, D) \in 1 .. q
  <2>1. D \in SUBSET (1 .. n) /\ n \in Nat
    BY <1>1, <1>2
  <2>2. \A r \in D : Rank(r, D) \in 1 .. d
    BY <1>10, <2>1, Places
  <2>3. \A r \in slots : r \in D /\ Rank(r, D) <= q
    BY <1>9
  <2> QED BY <1>3, <1>13, <2>2, <2>3
<1>18. /\ DOMAIN plan.updates = tail \cup body \cup slots \cup DOMAIN conv
       /\ \A r \in DOMAIN plan.updates :
             plan.updates[r] = IF r \in tail \cup body
                               THEN IF r \in tail THEN move[r] ELSE fill[r]
                               ELSE IF r \in slots THEN donated[r] ELSE conv[r]
  BY <1>12, <1>8, <1>6, <1>7 DEF Over
<1>19. \A r \in slots : r \notin tail \cup body
  BY <1>13, <1>8, <1>10
<1>20. /\ DOMAIN plan.updates \subseteq 2 .. n
       /\ \A r \in tail : plan.updates[r] = Blank
       /\ \A r \in body : plan.updates[r] = s[Nth(tail \ D, Rank(r, body))]
       /\ \A r \in slots : Rank(r, D) \in 1 .. q /\ plan.updates[r] = R[Rank(r, D)]
  BY <1>13, <1>14, <1>16, <1>17, <1>6, <1>7, <1>18, <1>19, <1>8
<1>21. ASSUME NEW r \in DOMAIN plan.updates \ (tail \cup D)
       PROVE  /\ s[r] \in Row /\ plan.updates[r] \in Row /\ plan.updates[r].key = s[r].key
              /\ plan.updates[r].version > s[r].version
  <2>1. r \in DOMAIN conv /\ r \notin tail \cup body /\ r \notin slots
    BY <1>14, <1>18, <1>8, <1>10
  <2>2. plan.updates[r] = conv[r]
    BY <1>18, <2>1
  <2> QED BY <1>16, <2>1, <2>2
<1>22. /\ Len(plan.appends) = IF q > d THEN q - d ELSE 0
       /\ \A i \in 1 .. Len(plan.appends) : plan.appends[i] = R[d + i]
       /\ plan.appends \in Seq(Row)
       /\ Len(plan.appends) <= MaxBatch
  <2>1. plan.appends = SubSeq(R, d + 1, q)
    BY <1>12
  <2>2. CASE q > d
    <3>1. /\ plan.appends \in Seq(Row) /\ Len(plan.appends) = q - (d + 1) + 1
          /\ \A i \in 1 .. q - (d + 1) + 1 : plan.appends[i] = R[d + 1 + i - 1]
      <4>1. d + 1 \in Int /\ q \in Int /\ d + 1 <= q /\ \A i \in d + 1 .. q : R[i] \in Row
        BY <1>3, <1>13, <2>2
      <4> QED BY <1>3, <2>1, <4>1, SubSeqProperties
    <3>2. q - (d + 1) + 1 = q - d /\ \A i \in Nat : d + 1 + i - 1 = d + i
      BY <1>3, <1>13
    <3>3. q - d <= MaxBatch
      BY <1>3, <1>13, Sizes
    <3> QED BY <2>2, <3>1, <3>2, <3>3
  <2>3. CASE ~(q > d)
    <3>1. plan.appends = << >>
      <4>1. d + 1 > q
        BY <1>3, <1>13, <2>3
      <4>2. SubSeq(R, d + 1, q) = << >>
        BY <1>3, <1>13, <4>1
      <4> QED BY <2>1, <4>2
    <3> QED BY <2>3, <3>1, Sizes
  <2> QED BY <2>2, <2>3
<1>23. plan.start = n + 1 /\ n + 1 \in Nat \ {0}
  BY <1>1, <1>12
<1>24. \A r \in DOMAIN plan.updates : plan.updates[r] \in Row \cup {Blank}
  <2> SUFFICES ASSUME NEW r \in DOMAIN plan.updates PROVE plan.updates[r] \in Row \cup {Blank}
    OBVIOUS
  <2>1. CASE r \in body
    <3>1. Nth(tail \ D, Rank(r, body)) \in 2 .. n
      BY <1>13, <1>15, <2>1
    <3>2. \A i \in 2 .. n : s[i] \in Row \cup {Blank}
      BY DEF Tab, n
    <3> QED BY <1>20, <2>1, <3>1, <3>2
  <2>2. CASE r \in slots
    BY <1>3, <1>20, <2>2
  <2>3. CASE r \in tail
    BY <1>20, <2>3
  <2>4. CASE r \notin tail \cup body \cup slots
    BY <1>18, <1>21, <1>16, <2>4
  <2> QED BY <2>1, <2>2, <2>3, <2>4
<1>25. PlanTyped(plan)
  <2>1. n \in Nat
    BY <1>1
  <2> QED BY <1>20, <1>22, <1>23, <1>24, <2>1 DEF PlanTyped
<1>26. PlanMakes(s, D, R, plan)
  BY <1>18, <1>20, <1>21, <1>22, <1>23 DEF PlanMakes, n, q, d, slots, tail, body
<1> QED BY <1>25, <1>26 DEF plan, D, R

\* Whatever is written onto a tab, it stays one.
LEMMA TabKept ==
    ASSUME NEW s, Tab(s), NEW plan, PlanTyped(plan)
    PROVE  Tab(Paste(s, plan))
<1> DEFINE new == Paste(s, plan)
<1>1. s \in Seq(Content) /\ Len(s) \in Nat \ {0} /\ DOMAIN s = 1 .. Len(s)
  BY DEF Tab, Neat
<1>2. /\ Neat(new)
      /\ \A i \in Nat \ {0} : Cell(new, i) = IF i \in DOMAIN Cells(plan) THEN Cells(plan)[i]
                                             ELSE Cell(s, i)
  BY <1>1, PasteIs
<1>3. PICK top \in Nat : DOMAIN plan.updates \subseteq 2 .. top
  BY DEF PlanTyped
<1>4. ASSUME NEW i \in DOMAIN Cells(plan)
      PROVE  Cells(plan)[i] \in Row \cup {Blank} /\ (i = 1 => Cells(plan)[i] \in Row)
  <2>1. CASE i \in plan.start .. plan.start + Len(plan.appends) - 1
    <3>1. Cells(plan)[i] = plan.appends[i - plan.start + 1]
      BY <2>1 DEF Cells, Over
    <3>2. i - plan.start + 1 \in 1 .. Len(plan.appends)
      BY <2>1 DEF PlanTyped
    <3> QED BY <3>1, <3>2 DEF PlanTyped
  <2>2. CASE i \notin plan.start .. plan.start + Len(plan.appends) - 1
    <3>1. Cells(plan)[i] = plan.updates[i] /\ i \in DOMAIN plan.updates
      BY <2>2 DEF Cells, Over
    <3>2. i # 1
      BY <1>3, <3>1
    <3> QED BY <3>1, <3>2 DEF PlanTyped
  <2> QED BY <2>1, <2>2
<1> HIDE DEF new
<1>5. Len(new) \in Nat /\ DOMAIN new = 1 .. Len(new)
  BY <1>2 DEF Neat
<1>6. Cell(new, 1) # Blank
  <2>1. Cell(s, 1) # Blank
    BY <1>1 DEF Tab, Cell
  <2> QED BY <1>2, <1>4, <2>1, ContentsAre
<1>7. Len(new) >= 1 /\ new[1] # Blank
  BY <1>5, <1>6 DEF Cell
<1>8. ASSUME NEW i \in 2 .. Len(new)
      PROVE  new[i] \in Row \cup {Blank}
  <2>1. i \in Nat \ {0} /\ i \in DOMAIN new /\ Cell(new, i) = new[i]
    BY <1>5 DEF Cell
  <2>2. CASE i \in DOMAIN Cells(plan)
    BY <1>2, <1>4, <2>1, <2>2
  <2>3. CASE i \notin DOMAIN Cells(plan)
    <3>1. new[i] = Cell(s, i)
      BY <1>2, <2>1, <2>3
    <3>2. i \in DOMAIN s => i \in 2 .. Len(s)
      BY <1>1
    <3> QED BY <3>1, <3>2 DEF Cell, Tab
  <2> QED BY <2>2, <2>3
<1> QED BY <1>2, <1>7, <1>8 DEF Tab, new

\* A neat tab ends where its cells do.
LEMMA LengthIs ==
    ASSUME NEW s, Neat(s), NEW m \in Nat \ {0}, Cell(s, m) # Blank,
           \A i \in Nat : i > m => Cell(s, i) = Blank
    PROVE  Len(s) = m
<1>1. s \in Seq(Content) /\ Len(s) \in Nat /\ DOMAIN s = 1 .. Len(s)
  BY DEF Neat
<1>2. m <= Len(s)
  BY <1>1 DEF Cell
<1>3. Cell(s, Len(s)) # Blank
  BY <1>1, <1>2 DEF Cell, Neat
<1>4. ~(Len(s) > m)
  BY <1>1, <1>3
<1>5. \A l, c \in Nat : c <= l /\ ~(l > c) => l = c
  OBVIOUS
<1>6. Len(s) \in Nat /\ m \in Nat
  BY <1>1
<1> QED BY <1>2, <1>4, <1>5, <1>6, Zenon

\* How far the tab reaches after a batch: the rows above the ones taken from the
\* bottom, then what no deleted row had room for; never both.
LEMMA HeightIs ==
    ASSUME NEW n \in Nat \ {0}, NEW D \in SUBSET (2 .. n), NEW q \in Nat
    PROVE  LET d == Cardinality(D)
               a == IF q > d THEN q - d ELSE 0
               m == n - Cardinality(D \ Slots(D, q)) + a
           IN  /\ d \in Nat /\ a \in Nat /\ m \in Nat \ {0}
               /\ 2 .. m = ((2 .. n) \ Bottom(n, D, q)) \cup (n + 1 .. n + a)
               /\ \A i \in Nat : i > m => i \in Bottom(n, D, q) \/ i > n + a
<1> DEFINE d == Cardinality(D)
           a == IF q > d THEN q - d ELSE 0
           h == Cardinality(D \ Slots(D, q))
           tail == Bottom(n, D, q)
<1>1. d \in Nat /\ h \in 0 .. n - 1 /\ (h > 0 => q < d)
  BY MovesAre
<1>2. tail = n - h + 1 .. n
  BY DEF Bottom
<1> HIDE DEF h, tail, d
<1>3. a \in Nat /\ (h > 0 => a = 0)
  BY <1>1
<1> HIDE DEF a
<1>4. CASE h = 0
  <2>1. tail = {}
    BY <1>2, <1>4
  <2>2. n - h + a = n + a /\ n + a \in Nat \ {0}
    BY <1>3, <1>4
  <2>3. \A c \in Nat : 2 .. n + c = (2 .. n) \cup (n + 1 .. n + c)
    OBVIOUS
  <2>4. 2 .. n + a = ((2 .. n) \ tail) \cup (n + 1 .. n + a)
    BY <1>3, <2>1, <2>3
  <2> QED BY <1>1, <1>3, <2>2, <2>4 DEF h, tail, d, a
<1>5. CASE h # 0
  <2>1. a = 0 /\ n - h + a = n - h /\ n - h \in Nat \ {0}
    BY <1>1, <1>3, <1>5
  <2>2. n + 1 .. n + a = {} /\ n + a = n
    BY <2>1
  <2>3. 2 .. n - h = (2 .. n) \ tail
    BY <1>1, <1>2
  <2>4. \A i \in Nat : i > n - h => i \in tail \/ i > n
    BY <1>1, <1>2
  <2>5. 2 .. n - h + a = ((2 .. n) \ tail) \cup (n + 1 .. n + a)
    BY <2>1, <2>2, <2>3
  <2>6. \A i \in Nat : i > n - h + a => i \in tail \/ i > n + a
    BY <2>1, <2>2, <2>4
  <2>7. n - h + a \in Nat \ {0}
    BY <2>1
  <2> QED BY <1>1, <1>3, <2>5, <2>6, <2>7 DEF h, tail, d, a
<1> QED BY <1>4, <1>5

\* A table: one row for each object under the header, and no blank ones.
Sound(s) ==
    /\ Tab(s) /\ s[1] = Header
    /\ \A i \in 2 .. Len(s) : s[i] \in Row
    /\ \A i, j \in 2 .. Len(s) : s[i].key = s[j].key => i = j

\* On a table the rows of an object are the one that shows it.
LEMMA RowsOfSound ==
    ASSUME NEW s, Sound(s), NEW k
    PROVE  /\ RowsOf(s, k) = {i \in 2 .. Len(s) : s[i].key = k}
           /\ \A i, j \in RowsOf(s, k) : i = j
<1>1. RowsOf(s, k) = {i \in 2 .. Len(s) : s[i].key = k}
  BY ContentsAre DEF RowsOf, Sound
<1> QED BY <1>1 DEF Sound

\* On a table the deleted rows are those of the deleted keys.
LEMMA DeletedOfSound ==
    ASSUME NEW s, Sound(s), NEW b, Drafted(b)
    PROVE  DeletedRows(s, b) = {i \in 2 .. Len(s) : s[i].key \in b.deletes}
<1>0. Tab(s)
  BY DEF Sound
<1>1. ASSUME NEW i \in 2 .. Len(s), s[i].key \in b.deletes
      PROVE  i \in DeletedRows(s, b)
  <2> DEFINE k == s[i].key
  <2>1. i \in RowsOf(s, k)
    BY RowsOfSound
  <2>2. OnSheet(s, k)
    BY <2>1 DEF OnSheet
  <2>3. RowMap(s, k) \in RowsOf(s, k)
    BY <1>0, <2>2, RowsAre
  <2>4. RowMap(s, k) = i
    BY <2>1, <2>3, RowsOfSound
  <2> QED BY <1>1, <2>2, <2>4 DEF DeletedRows
<1> QED BY <1>0, <1>1, DeletedAre

\* Where each row of N comes from: a row of s kept, maybe in a newer version, or
\* a new key; every row of s outside D is kept and every new key has its place.
Origins(s, D, R, N) ==
    \E kept \in SUBSET Nat, fresh \in SUBSET Nat :
    \E src \in [kept -> (2 .. Len(s)) \ D], idx \in [fresh -> 1 .. Len(R)] :
       /\ kept \cup fresh = 2 .. Len(N) /\ N[1] = Header
       /\ \A i \in kept : /\ N[i] \in Row /\ N[i].key = s[src[i]].key
                          /\ N[i].version >= s[src[i]].version
       /\ \A i \in fresh : N[i] = R[idx[i]]
       /\ \A i, j \in kept : src[i] = src[j] => i = j
       /\ \A i, j \in fresh : idx[i] = idx[j] => i = j
       /\ \A r \in (2 .. Len(s)) \ D : \E i \in kept : src[i] = r
       /\ \A x \in 1 .. Len(R) : \E i \in fresh : idx[i] = x

\* After a batch every row of the tab has an origin.
LEMMA OriginsAre ==
    ASSUME NEW s, Sound(s), NEW b, Drafted(b)
    PROVE  Origins(s, DeletedRows(s, b), Remaining(s, b), Paste(s, Planned(s, b)))
<1> DEFINE D == DeletedRows(s, b)
           R == Remaining(s, b)
           plan == Planned(s, b)
           N == Paste(s, plan)
           n == Len(s)
           q == Len(R)
           d == Cardinality(D)
           a == IF q > d THEN q - d ELSE 0
           slots == Slots(D, q)
           tail == Bottom(n, D, q)
           body == Gaps(n, D, q)
           rest == (2 .. n) \ (tail \cup D)
           m == n - Cardinality(D \ slots) + a
<1>1. Tab(s) /\ s \in Seq(Content) /\ n \in Nat \ {0} /\ DOMAIN s = 1 .. n
  BY DEF Sound, Tab, Neat
<1>2. D \in SUBSET (2 .. n)
  BY <1>1, DeletedAre
<1>3. /\ q \in Nat
      /\ \A x \in 1 .. q : R[x] \in Row
  BY <1>1, RemainingAre
<1>4. PlanTyped(plan) /\ PlanMakes(s, D, R, plan)
  BY <1>1, PlanIs
<1>5. /\ tail \in SUBSET (2 .. n) /\ slots \cap tail = {}
      /\ Cardinality(body) = Cardinality(tail \ D) /\ d \in Nat
  BY <1>1, <1>2, <1>3, MovesAre
<1>6. /\ a \in Nat /\ m \in Nat \ {0}
      /\ 2 .. m = ((2 .. n) \ tail) \cup (n + 1 .. n + a)
      /\ \A i \in Nat : i > m => i \in tail \/ i > n + a
  BY <1>1, <1>2, <1>3, HeightIs
<1>7. slots \in SUBSET D /\ body = (D \ slots) \ tail
  BY DEF Slots, Gaps
<1>8. DOMAIN s = 1 .. Len(s) /\ n = Len(s) /\ q = Len(R) /\ d = Cardinality(D)
  BY <1>1
<1>9. /\ Neat(N)
      /\ \A i \in Nat \ {0} : Cell(N, i) = IF i \in DOMAIN Cells(plan) THEN Cells(plan)[i]
                                           ELSE Cell(s, i)
  BY <1>1, <1>4, PasteIs
<1>10. /\ \A x \in D : Rank(x, D) \in 1 .. d /\ Nth(D, Rank(x, D)) = x
       /\ \A k \in 1 .. d : Nth(D, k) \in D /\ Rank(Nth(D, k), D) = k
       /\ \A x \in D : x \in slots <=> Rank(x, D) <= q
  <2>1. D \in SUBSET (1 .. n) /\ n \in Nat
    BY <1>1, <1>2
  <2>2. \A x \in D : x \in slots <=> Rank(x, D) <= q
    BY DEF Slots
  <2> QED BY <2>1, <2>2, Places
<1>11. a = IF q > d THEN q - d ELSE 0
  OBVIOUS
<1>12. slots = Slots(D, q) /\ tail = Bottom(n, D, q) /\ body = Gaps(n, D, q)
  OBVIOUS
<1> HIDE DEF N, plan, R, D, n, q, d, a, slots, tail, body, m
<1>13. /\ plan.start = n + 1
       /\ DOMAIN plan.updates \subseteq 2 .. n
       /\ tail \cup body \cup slots \subseteq DOMAIN plan.updates
       /\ \A r \in tail : plan.updates[r] = Blank
       /\ \A r \in body : plan.updates[r] = s[Nth(tail \ D, Rank(r, body))]
       /\ \A r \in slots : Rank(r, D) \in 1 .. q /\ plan.updates[r] = R[Rank(r, D)]
       /\ \A r \in DOMAIN plan.updates \ (tail \cup D) :
             /\ s[r] \in Row /\ plan.updates[r] \in Row /\ plan.updates[r].key = s[r].key
             /\ plan.updates[r].version > s[r].version
       /\ Len(plan.appends) = a
       /\ \A i \in 1 .. Len(plan.appends) : plan.appends[i] = R[d + i]
  BY <1>4, <1>8, <1>12, <1>11 DEF PlanMakes
<1>14. /\ DOMAIN Cells(plan) = (n + 1 .. n + a) \cup DOMAIN plan.updates
       /\ \A i \in n + 1 .. n + a : Cells(plan)[i] = R[d + i - n] /\ d + i - n \in d + 1 .. q
       /\ \A i \in DOMAIN plan.updates : Cells(plan)[i] = plan.updates[i] /\ i \notin n + 1 .. n + a
  <2>1. plan.start .. plan.start + Len(plan.appends) - 1 = n + 1 .. n + a
    <3>1. n + 1 + a - 1 = n + a
      BY <1>1, <1>6
    <3> QED BY <1>13, <3>1
  <2>2. /\ DOMAIN Cells(plan) = (n + 1 .. n + a) \cup DOMAIN plan.updates
        /\ \A i \in n + 1 .. n + a : Cells(plan)[i] = plan.appends[i - (n + 1) + 1]
        /\ \A i \in DOMAIN plan.updates \ (n + 1 .. n + a) : Cells(plan)[i] = plan.updates[i]
    BY <1>13, <2>1 DEF Cells, Over
  <2>3. ASSUME NEW i \in n + 1 .. n + a
        PROVE  i - (n + 1) + 1 \in 1 .. a /\ d + (i - (n + 1) + 1) = d + i - n
               /\ d + i - n \in d + 1 .. q
    BY <1>1, <1>3, <1>5, <1>6, <1>11
  <2>4. ASSUME NEW i \in n + 1 .. n + a
        PROVE  Cells(plan)[i] = R[d + i - n]
    BY <1>13, <2>2, <2>3
  <2>5. \A i \in DOMAIN plan.updates : i \notin n + 1 .. n + a
    BY <1>1, <1>13, <1>6
  <2> QED BY <2>2, <2>3, <2>4, <2>5
<1>15. ASSUME NEW i \in rest
       PROVE  Cell(N, i) \in Row /\ Cell(N, i).key = s[i].key /\ Cell(N, i).version >= s[i].version
  <2>1. i \in 2 .. n /\ i \in Nat \ {0} /\ s[i] \in Row /\ i \notin n + 1 .. n + a
    BY <1>1, <1>6, <1>8 DEF Sound
  <2>2. CASE i \in DOMAIN plan.updates
    <3>1. Cell(N, i) = plan.updates[i]
      BY <1>9, <1>14, <2>1, <2>2
    <3>2. /\ plan.updates[i] \in Row /\ plan.updates[i].key = s[i].key
          /\ plan.updates[i].version > s[i].version
      BY <1>13, <2>2
    <3> QED BY <2>1, <3>1, <3>2, ContentsAre
  <2>3. CASE i \notin DOMAIN plan.updates
    <3>1. Cell(N, i) = s[i]
      BY <1>1, <1>9, <1>14, <2>1, <2>3 DEF Cell
    <3> QED BY <2>1, <3>1, ContentsAre
  <2> QED BY <2>2, <2>3
<1>16. ASSUME NEW i \in n + 1 .. n + a
       PROVE  Cell(N, i) = R[d + i - n] /\ d + i - n \in d + 1 .. q
  <2>1. i \in Nat \ {0}
    BY <1>1, <1>6
  <2> QED BY <1>9, <1>14, <2>1
<1>17. \A i \in DOMAIN plan.updates : Cell(N, i) = plan.updates[i]
  BY <1>13, <1>9, <1>14
<1>18. ASSUME NEW i \in Nat, i > m
       PROVE  Cell(N, i) = Blank
  <2>1. CASE i \in tail
    BY <1>13, <1>17, <2>1
  <2>2. CASE i > n + a
    <3>1. i \in Nat \ {0} /\ i \notin 2 .. n /\ i \notin n + 1 .. n + a /\ i \notin 1 .. n
      BY <1>1, <1>6, <2>2
    <3> QED BY <1>1, <1>13, <1>9, <1>14, <3>1 DEF Cell
  <2> QED BY <1>6, <1>18, <2>1, <2>2
<1>19. Cell(N, 1) = Header
  <2>1. 1 \notin DOMAIN Cells(plan) /\ 1 \in 1 .. n
    BY <1>1, <1>13, <1>6, <1>14
  <2> QED BY <1>8, <1>9, <2>1 DEF Cell, Sound
<1>20. n \in Nat /\ body \in SUBSET (1 .. n) /\ tail \ D \in SUBSET (1 .. n)
  BY <1>1, <1>2, <1>5, <1>7
<1>21. /\ \A i \in body : Nth(tail \ D, Rank(i, body)) \in tail \ D
       /\ \A i, j \in body : Nth(tail \ D, Rank(i, body)) = Nth(tail \ D, Rank(j, body)) => i = j
  BY <1>5, <1>20, FillersAre
<1>22. \A t \in tail \ D : \E i \in body : Nth(tail \ D, Rank(i, body)) = t
  BY <1>5, <1>20, FillersAre
<1>23. ASSUME NEW i \in body
       PROVE  /\ Nth(tail \ D, Rank(i, body)) \in (2 .. n) \ D
              /\ Cell(N, i) = s[Nth(tail \ D, Rank(i, body))] /\ Cell(N, i) \in Row
  <2>1. Nth(tail \ D, Rank(i, body)) \in (2 .. n) \ D
    BY <1>5, <1>21
  <2>2. Cell(N, i) = s[Nth(tail \ D, Rank(i, body))]
    BY <1>13, <1>17
  <2>3. \A r \in 2 .. n : s[r] \in Row
    BY <1>8 DEF Sound
  <2> QED BY <2>1, <2>2, <2>3
<1>24. ASSUME NEW i \in slots
       PROVE  Cell(N, i) = R[Rank(i, D)] /\ Rank(i, D) \in 1 .. q
  BY <1>13, <1>17
<1> DEFINE kept == body \cup rest
           new == n + 1 .. n + a
           fresh == slots \cup new
<1>25. kept \cup fresh = 2 .. m /\ kept \in SUBSET Nat /\ fresh \in SUBSET Nat
       /\ \A i \in slots : i \notin new
  <2>1. (2 .. n) \ tail = body \cup slots \cup rest
    BY <1>2, <1>5, <1>7
  <2>2. kept \cup fresh = 2 .. m
    BY <1>6, <2>1
  <2>3. 2 .. m \subseteq Nat
    BY <1>6
  <2>4. \A i \in 2 .. n : i \notin new
    BY <1>1, <1>6
  <2> HIDE DEF kept, new
  <2> QED BY <1>2, <1>7, <2>2, <2>3, <2>4
<1>26. ASSUME NEW i \in 2 .. m
       PROVE  Cell(N, i) \in Row
  <2>1. CASE i \in body
    BY <1>23, <2>1
  <2>2. CASE i \in rest
    BY <1>15, <2>2
  <2>3. CASE i \in slots
    BY <1>3, <1>24, <2>3
  <2>4. CASE i \in new
    <3>1. d + i - n \in 1 .. q
      BY <1>5, <1>16, <2>4
    <3> QED BY <1>3, <1>16, <2>4, <3>1
  <2> QED BY <1>25, <2>1, <2>2, <2>3, <2>4
<1>27. Len(N) = m
  <2>1. Cell(N, m) # Blank
    <3>1. CASE m = 1
      BY <1>19, <3>1, ContentsAre
    <3>2. CASE m # 1
      <4>1. m \in 2 .. m
        BY <1>6, <3>2
      <4> QED BY <1>26, <4>1, ContentsAre
    <3> QED BY <3>1, <3>2
  <2> QED BY <1>6, <1>9, <1>18, <2>1, LengthIs
<1>28. DOMAIN N = 1 .. m /\ N[1] = Header /\ \A i \in 2 .. m : N[i] = Cell(N, i)
  <2>1. DOMAIN N = 1 .. Len(N)
    BY <1>9 DEF Neat
  <2> QED BY <1>6, <1>19, <1>27, <2>1 DEF Cell
<1> DEFINE src == [i \in kept |-> IF i \in body THEN Nth(tail \ D, Rank(i, body)) ELSE i]
           idx == [i \in fresh |-> IF i \in slots THEN Rank(i, D) ELSE d + i - n]
<1>29. /\ \A i \in body : i \notin rest
       /\ rest \in SUBSET ((2 .. n) \ D) /\ \A i \in rest : i \notin tail
       /\ \A r \in (2 .. n) \ D : r \in rest \/ r \in tail \ D
  BY <1>7
<1>30. /\ \A i \in body : src[i] = Nth(tail \ D, Rank(i, body)) /\ src[i] \in tail \ D
       /\ \A i \in rest : src[i] = i
  BY <1>21, <1>29
<1>31. /\ \A i \in slots : idx[i] = Rank(i, D) /\ idx[i] \in 1 .. q
       /\ \A i \in new : idx[i] = d + i - n /\ idx[i] \in d + 1 .. q
  BY <1>16, <1>24, <1>25
<1>32. src \in [kept -> (2 .. n) \ D] /\ idx \in [fresh -> 1 .. q]
  <2>1. \A i \in kept : src[i] \in (2 .. n) \ D
    BY <1>5, <1>29, <1>30
  <2>2. \A x \in d + 1 .. q : x \in 1 .. q
    BY <1>3, <1>5
  <2>3. \A i \in fresh : idx[i] \in 1 .. q
    BY <1>31, <2>2
  <2> QED BY <2>1, <2>3
<1> HIDE DEF src, idx, rest, new
<1>33. ASSUME NEW i \in kept
       PROVE  N[i] \in Row /\ N[i].key = s[src[i]].key /\ N[i].version >= s[src[i]].version
  <2>1. N[i] = Cell(N, i) /\ s[src[i]] \in Row
    <3>1. \A r \in 2 .. n : s[r] \in Row
      BY <1>8 DEF Sound
    <3> QED BY <1>25, <1>28, <1>32, <3>1
  <2>2. CASE i \in body
    <3>1. N[i] = s[src[i]]
      BY <1>23, <1>30, <2>1, <2>2
    <3>2. s[src[i]].version \in Nat
      BY <2>1, ContentsAre
    <3> QED BY <2>1, <3>1, <3>2
  <2>3. CASE i \in rest
    BY <1>15, <1>30, <2>1, <2>3
  <2> QED BY <2>2, <2>3
<1>34. ASSUME NEW i \in fresh
       PROVE  N[i] = R[idx[i]]
  <2>1. N[i] = Cell(N, i)
    BY <1>25, <1>28
  <2>2. CASE i \in slots
    BY <1>24, <1>31, <2>1, <2>2
  <2>3. CASE i \in new
    BY <1>16, <1>31, <2>1, <2>3 DEF new
  <2> QED BY <2>2, <2>3
<1>35. ASSUME NEW i \in kept, NEW j \in kept, src[i] = src[j]
       PROVE  i = j
  <2>1. CASE i \in body /\ j \in body
    <3>1. Nth(tail \ D, Rank(i, body)) = Nth(tail \ D, Rank(j, body))
      BY <1>30, <1>35, <2>1
    <3> QED BY <1>21, <2>1, <3>1
  <2>2. CASE i \in rest /\ j \in rest
    BY <1>30, <1>35, <2>2
  <2>3. ASSUME NEW u \in body, NEW v \in rest
        PROVE  src[u] # src[v]
    BY <1>29, <1>30
  <2> QED BY <1>35, <2>1, <2>2, <2>3
<1>36. ASSUME NEW i \in fresh, NEW j \in fresh, idx[i] = idx[j]
       PROVE  i = j
  <2>1. CASE i \in slots /\ j \in slots
    BY <1>7, <1>10, <1>31, <1>36, <2>1
  <2>2. CASE i \in new /\ j \in new
    <3>1. d + i - n = d + j - n /\ i \in Nat /\ j \in Nat
      BY <1>25, <1>31, <1>36, <2>2
    <3> QED BY <1>1, <1>5, <3>1
  <2>3. ASSUME NEW u \in slots, NEW v \in new
        PROVE  idx[u] # idx[v]
    <3>1. idx[u] \in 1 .. d /\ idx[v] \in d + 1 .. q
      BY <1>7, <1>10, <1>31
    <3> QED BY <1>3, <1>5, <3>1
  <2> QED BY <1>36, <2>1, <2>2, <2>3
<1>37. ASSUME NEW r \in (2 .. n) \ D
       PROVE  \E i \in kept : src[i] = r
  <2>1. CASE r \in rest
    BY <1>30, <2>1
  <2>2. CASE r \in tail \ D
    BY <1>22, <1>30, <2>2
  <2> QED BY <1>29, <2>1, <2>2
<1>38. ASSUME NEW x \in 1 .. q
       PROVE  \E i \in fresh : idx[i] = x
  <2>1. CASE x <= d
    <3>1. x \in 1 .. d
      BY <1>5, <2>1
    <3>2. Nth(D, x) \in D /\ Rank(Nth(D, x), D) = x
      BY <1>10, <3>1
    <3>3. Nth(D, x) \in slots
      BY <1>10, <3>2
    <3> QED BY <1>31, <3>2, <3>3
  <2>2. CASE x > d
    <3>1. a = q - d /\ n + x - d \in n + 1 .. n + a
      BY <1>1, <1>3, <1>5, <1>11, <2>2
    <3>2. d + (n + x - d) - n = x
      BY <1>1, <1>5
    <3>3. n + x - d \in new
      BY <3>1 DEF new
    <3> QED BY <1>31, <3>2, <3>3
  <2> QED BY <1>3, <1>5, <2>1, <2>2
<1> HIDE DEF kept, fresh
<1>39. kept \in SUBSET Nat /\ fresh \in SUBSET Nat /\ kept \cup fresh = 2 .. Len(N)
  BY <1>25, <1>27
<1>40. /\ \A r \in (2 .. Len(s)) \ D : \E i \in kept : src[i] = r
       /\ \A x \in 1 .. Len(R) : \E i \in fresh : idx[i] = x
  BY <1>8, <1>37, <1>38
<1>41. Origins(s, D, R, N)
  <2> SUFFICES
        \E k \in SUBSET Nat, f \in SUBSET Nat :
        \E g \in [k -> (2 .. Len(s)) \ D], x \in [f -> 1 .. Len(R)] :
           /\ k \cup f = 2 .. Len(N) /\ N[1] = Header
           /\ \A i \in k : N[i] \in Row /\ N[i].key = s[g[i]].key /\ N[i].version >= s[g[i]].version
           /\ \A i \in f : N[i] = R[x[i]]
           /\ \A i, j \in k : g[i] = g[j] => i = j
           /\ \A i, j \in f : x[i] = x[j] => i = j
           /\ \A r \in (2 .. Len(s)) \ D : \E i \in k : g[i] = r
           /\ \A y \in 1 .. Len(R) : \E i \in f : x[i] = y
    BY DEF Origins
  <2> kept \in SUBSET Nat /\ fresh \in SUBSET Nat
    BY <1>39
  <2> WITNESS kept \in SUBSET Nat, fresh \in SUBSET Nat
  <2> src \in [kept -> (2 .. Len(s)) \ D] /\ idx \in [fresh -> 1 .. Len(R)]
    BY <1>8, <1>32
  <2> WITNESS src \in [kept -> (2 .. Len(s)) \ D], idx \in [fresh -> 1 .. Len(R)]
  <2> QED BY <1>28, <1>33, <1>34, <1>35, <1>36, <1>39, <1>40
<1> QED BY <1>41 DEF N, R, D, plan

\* A batch of records makes a table of a table: the deleted objects are off it,
\* the new ones and the others are on it, and no row is older than it was.
THEOREM ResultIs ==
    ASSUME NEW s, Sound(s), NEW b, Drafted(b)
    PROVE  LET N == Paste(s, Planned(s, b))
           IN  /\ Sound(N)
               /\ \A k \in b.deletes : ~OnSheet(N, k)
               /\ \A k : k \notin b.deletes /\ OnSheet(s, k) => OnSheet(N, k)
               /\ \A i \in DOMAIN b.appends :
                     b.appends[i].key \notin b.deletes => OnSheet(N, b.appends[i].key)
               /\ \A k : \A i \in RowsOf(s, k) : \A j \in RowsOf(N, k) :
                     N[j].version >= s[i].version
<1> DEFINE N == Paste(s, Planned(s, b))
           D == DeletedRows(s, b)
           R == Remaining(s, b)
           rows == (2 .. Len(s)) \ D
<1>1. Tab(s) /\ PlanTyped(Planned(s, b)) /\ Tab(N)
  BY PlanIs, TabKept DEF Sound
<1>2. D = {i \in 2 .. Len(s) : s[i].key \in b.deletes}
  BY DeletedOfSound
<1>3. /\ \A n \in 1 .. Len(R) : ~OnSheet(s, R[n].key) /\ R[n].key \notin b.deletes /\ R[n] \in Row
      /\ \A m, n \in 1 .. Len(R) : R[m].key = R[n].key => m = n
      /\ \A i \in New(s, b) : \E n \in 1 .. Len(R) : R[n] = b.appends[i]
  BY <1>1, RemainingAre
<1>4. Origins(s, D, R, N)
  BY OriginsAre
<1> HIDE DEF N, D, R
<1>5. PICK kept \in SUBSET Nat, fresh \in SUBSET Nat :
      \E src \in [kept -> rows], idx \in [fresh -> 1 .. Len(R)] :
       /\ kept \cup fresh = 2 .. Len(N) /\ N[1] = Header
       /\ \A i \in kept : /\ N[i] \in Row /\ N[i].key = s[src[i]].key
                          /\ N[i].version >= s[src[i]].version
       /\ \A i \in fresh : N[i] = R[idx[i]]
       /\ \A i, j \in kept : src[i] = src[j] => i = j
       /\ \A i, j \in fresh : idx[i] = idx[j] => i = j
       /\ \A r \in rows : \E i \in kept : src[i] = r
       /\ \A x \in 1 .. Len(R) : \E i \in fresh : idx[i] = x
  BY <1>4 DEF Origins
<1>6. PICK src \in [kept -> rows], idx \in [fresh -> 1 .. Len(R)] :
       /\ kept \cup fresh = 2 .. Len(N) /\ N[1] = Header
       /\ \A i \in kept : /\ N[i] \in Row /\ N[i].key = s[src[i]].key
                          /\ N[i].version >= s[src[i]].version
       /\ \A i \in fresh : N[i] = R[idx[i]]
       /\ \A i, j \in kept : src[i] = src[j] => i = j
       /\ \A i, j \in fresh : idx[i] = idx[j] => i = j
       /\ \A r \in rows : \E i \in kept : src[i] = r
       /\ \A x \in 1 .. Len(R) : \E i \in fresh : idx[i] = x
  BY <1>5
<1>7. ASSUME NEW i \in kept
      PROVE  /\ src[i] \in 2 .. Len(s) /\ s[src[i]].key \notin b.deletes
             /\ src[i] \in RowsOf(s, N[i].key)
  <2>1. src[i] \in rows
    BY <1>6
  <2>2. src[i] \in 2 .. Len(s) /\ s[src[i]].key \notin b.deletes
    BY <1>2, <2>1
  <2> QED BY <1>6, <2>2, RowsOfSound
<1>8. ASSUME NEW i \in fresh
      PROVE  /\ N[i] \in Row /\ idx[i] \in 1 .. Len(R) /\ N[i].key = R[idx[i]].key
             /\ ~OnSheet(s, N[i].key) /\ N[i].key \notin b.deletes
  BY <1>3, <1>6
<1>9. ASSUME NEW i \in 2 .. Len(N)
      PROVE  N[i] \in Row /\ N[i].key \notin b.deletes /\ (i \in kept \/ i \in fresh)
  <2>1. i \in kept \/ i \in fresh
    BY <1>6
  <2>2. CASE i \in kept
    BY <1>6, <1>7, <2>2
  <2>3. CASE i \in fresh
    BY <1>8, <2>3
  <2> QED BY <2>1, <2>2, <2>3
<1>10. ASSUME NEW i \in 2 .. Len(N), NEW j \in 2 .. Len(N), N[i].key = N[j].key
       PROVE  i = j
  <2>1. CASE i \in kept /\ j \in kept
    <3>1. src[i] = src[j]
      <4>1. src[i] \in 2 .. Len(s) /\ src[j] \in 2 .. Len(s) /\ s[src[i]].key = s[src[j]].key
        BY <1>6, <1>7, <1>10, <2>1
      <4> QED BY <4>1 DEF Sound
    <3> QED BY <1>6, <2>1, <3>1
  <2>2. CASE i \in fresh /\ j \in fresh
    <3>1. idx[i] = idx[j]
      BY <1>3, <1>8, <1>10, <2>2
    <3> QED BY <1>6, <2>2, <3>1
  <2>3. ASSUME NEW u \in kept, NEW v \in fresh
        PROVE  N[u].key # N[v].key
    BY <1>7, <1>8 DEF OnSheet
  <2> QED BY <1>9, <1>10, <2>1, <2>2, <2>3
<1>11. Sound(N)
  BY <1>1, <1>6, <1>9, <1>10 DEF Sound
<1>12. ASSUME NEW k
       PROVE  RowsOf(N, k) = {i \in 2 .. Len(N) : N[i].key = k}
  BY <1>11, RowsOfSound
<1>13. ASSUME NEW k \in b.deletes
       PROVE  ~OnSheet(N, k)
  BY <1>9, <1>12 DEF OnSheet
<1>14. ASSUME NEW k, k \notin b.deletes, OnSheet(s, k)
       PROVE  OnSheet(N, k)
  <2>1. PICK r \in RowsOf(s, k) : TRUE
    BY <1>14 DEF OnSheet
  <2>2. r \in 2 .. Len(s) /\ s[r].key = k
    BY <2>1, RowsOfSound
  <2>3. r \in rows
    BY <1>2, <1>14, <2>2
  <2>4. PICK i \in kept : src[i] = r
    BY <1>6, <2>3
  <2>5. i \in 2 .. Len(N) /\ N[i].key = k
    BY <1>6, <2>2, <2>4
  <2> QED BY <1>12, <2>5 DEF OnSheet
<1>15. ASSUME NEW i \in DOMAIN b.appends, b.appends[i].key \notin b.deletes
       PROVE  OnSheet(N, b.appends[i].key)
  <2>1. CASE OnSheet(s, b.appends[i].key)
    BY <1>14, <1>15, <2>1
  <2>2. CASE ~OnSheet(s, b.appends[i].key)
    <3>1. i \in New(s, b)
      BY <1>15, <2>2 DEF New
    <3>2. PICK n \in 1 .. Len(R) : R[n] = b.appends[i]
      BY <1>3, <3>1
    <3>3. PICK j \in fresh : idx[j] = n
      BY <1>6
    <3>4. j \in 2 .. Len(N) /\ N[j] = b.appends[i]
      BY <1>6, <3>2, <3>3
    <3> QED BY <1>12, <3>4 DEF OnSheet
  <2> QED BY <2>1, <2>2
<1>16. ASSUME NEW k, NEW i \in RowsOf(s, k), NEW j \in RowsOf(N, k)
       PROVE  N[j].version >= s[i].version
  <2>1. j \in 2 .. Len(N) /\ N[j].key = k
    BY <1>12
  <2>2. OnSheet(s, k)
    BY DEF OnSheet
  <2>3. j \in kept
    BY <1>8, <1>9, <2>1, <2>2
  <2>4. src[j] \in RowsOf(s, k) /\ N[j].version >= s[src[j]].version
    BY <1>6, <1>7, <2>1, <2>3
  <2>5. src[j] = i
    BY <2>4, RowsOfSound
  <2> QED BY <2>4, <2>5
<1> QED BY <1>11, <1>13, <1>14, <1>15, <1>16 DEF N

\* A record added to a batch leaves one of each key.
LEMMA UpsertedIs ==
    ASSUME NEW b, Drafted(b), Len(b.appends) < MaxBatch, NEW row \in Row
    PROVE  Drafted(Upserted(b, row)) /\ Upserted(b, row).deletes = b.deletes
<1>1. /\ b.appends \in Seq(Row) /\ b.deletes \in SUBSET Key /\ Len(b.appends) \in Nat
      /\ DOMAIN b.appends = 1 .. Len(b.appends)
      /\ b = [appends |-> b.appends, deletes |-> b.deletes]
  BY DEF Drafted
<1> DEFINE len == Len(b.appends)
<1>2. CASE Pending(b, row.key) = {}
  <2> DEFINE new == Append(b.appends, row)
  <2>1. Upserted(b, row) = [appends |-> new, deletes |-> b.deletes]
    BY <1>1, <1>2 DEF Upserted
  <2>2. /\ new \in Seq(Row) /\ Len(new) = len + 1 /\ DOMAIN new = 1 .. len + 1
        /\ \A i \in 1 .. len : new[i] = b.appends[i]
        /\ new[len + 1] = row
    BY <1>1
  <2>3. \A i \in 1 .. len : b.appends[i].key # row.key
    BY <1>1, <1>2 DEF Pending
  <2> HIDE DEF new
  <2>4. ASSUME NEW i \in 1 .. len + 1, NEW j \in 1 .. len + 1, new[i].key = new[j].key
        PROVE  i = j
    <3>1. (i \in 1 .. len \/ i = len + 1) /\ (j \in 1 .. len \/ j = len + 1)
      BY <1>1
    <3>2. CASE i \in 1 .. len /\ j \in 1 .. len
      BY <1>1, <2>2, <2>4, <3>2 DEF Drafted
    <3>3. CASE ~(i \in 1 .. len /\ j \in 1 .. len)
      BY <2>2, <2>3, <2>4, <3>1, <3>3
    <3> QED BY <3>2, <3>3
  <2>5. len + 1 <= MaxBatch
    BY <1>1, Sizes
  <2> QED BY <1>1, <2>1, <2>2, <2>4, <2>5 DEF Drafted
<1>3. CASE Pending(b, row.key) # {}
  <2> DEFINE new == [i \in DOMAIN b.appends |->
                        IF b.appends[i].key = row.key /\ row.version > b.appends[i].version
                        THEN row ELSE b.appends[i]]
  <2>1. Upserted(b, row) = [appends |-> new, deletes |-> b.deletes]
    BY <1>1, <1>3 DEF Upserted
  <2>2. /\ DOMAIN new = 1 .. len
        /\ \A i \in 1 .. len : new[i] \in Row /\ new[i].key = b.appends[i].key
    BY <1>1
  <2>3. new \in Seq(Row) /\ Len(new) = len
    BY <1>1, <2>2
  <2> HIDE DEF new
  <2> QED BY <1>1, <2>1, <2>2, <2>3 DEF Drafted
<1> QED BY <1>2, <1>3

-----------------------------------------------------------------------------
(* The destination.                                                        *)

\* A flush is not under way, about to read, or about to apply what it planned.
SlotTyped(f) ==
    \/ f = NoFlush
    \/ /\ f.at \in {"refresh", "apply"}
       /\ Drafted(f.batch) /\ f.batch.deletes \subseteq gone
       /\ f.at = "apply" => PlanTyped(f.plan)

StateTyped ==
    /\ gone \subseteq Key
    /\ Tab(sheet)
    /\ reading \in BOOLEAN /\ clean \in BOOLEAN
    /\ Drafted(batch) /\ batch.deletes \subseteq gone
    /\ flushes = [s \in Slot |-> flushes[s]]
    /\ \A s \in Slot : SlotTyped(flushes[s])
    /\ accounted \in [Key -> 0 .. MaxVersion]
    /\ requests \in 0 .. MaxRequests

\* What a flush planned from a table is on the tab entirely or not at all.
PlannedFrom(read, f) ==
    /\ Sound(read) /\ f.plan = Planned(read, f.batch)
    /\ sheet = read \/ sheet = Paste(read, f.plan)

\* As long as every flush read the tab and none ran beside an abandoned one, the
\* tab is a table, one flush is under way, and its plan fits the tab.
Undisturbed ==
    clean => /\ Sound(sheet)
             /\ ~(Flushing("current") /\ Flushing("abandoned"))
             /\ \A s \in Slot : flushes[s].at = "apply" => \E read : PlannedFrom(read, flushes[s])
             /\ \A k \in Key \ gone : accounted[k] > 0 => OnSheet(sheet, k)

IInv == StateTyped /\ Undisturbed

\* An empty batch is one.
LEMMA EmptyDrafted == Drafted(EmptyBatch) /\ EmptyBatch.deletes = {}
<1>1. EmptyBatch.appends = << >> /\ EmptyBatch.deletes = {}
      /\ EmptyBatch \in [appends : Seq(Row), deletes : SUBSET Key]
  BY DEF EmptyBatch
<1>2. Len(EmptyBatch.appends) <= MaxBatch /\ DOMAIN EmptyBatch.appends = {}
  BY <1>1, Sizes
<1> QED BY <1>1, <1>2 DEF Drafted

\* What is planned without having read the tab is a batchUpdate all the same.
LEMMA UnreadTyped ==
    ASSUME NEW b, Drafted(b), NEW count \in Nat
    PROVE  PlanTyped(PlannedUnread(b, count))
<1> DEFINE plan == PlannedUnread(b, count)
<1>1. plan.updates = << >> /\ plan.appends = b.appends /\ plan.start = count + 1
  BY DEF PlannedUnread
<1>2. DOMAIN plan.updates = {}
  BY <1>1
<1>3. b.appends \in Seq(Row) /\ Len(b.appends) <= MaxBatch
  BY DEF Drafted
<1>4. DOMAIN plan.updates \subseteq 2 .. 0
  BY <1>2
<1>5. \A r \in DOMAIN plan.updates : plan.updates[r] \in Row \cup {Blank}
  BY <1>2
<1>6. plan.start \in Nat \ {0} /\ plan.appends \in Seq(Row) /\ Len(plan.appends) <= MaxBatch
  BY <1>1, <1>3
<1>7. \E top \in Nat : DOMAIN plan.updates \subseteq 2 .. top
  BY <1>4
<1> HIDE DEF plan
<1>8. PlanTyped(plan)
  BY <1>5, <1>6, <1>7 DEF PlanTyped
<1> QED BY <1>8 DEF plan

\* The versions of a batch are versions; what it covers it brings.
LEMMA CoversAre ==
    ASSUME NEW b, Drafted(b), NEW k \in Key
    PROVE  /\ Covers(b)[k] \in 0 .. MaxVersion
           /\ Covers(b)[k] > 0 => \E i \in DOMAIN b.appends : b.appends[i].key = k
<1>1. Covers(b)[k] = IF Pending(b, k) = {} THEN 0
                     ELSE b.appends[CHOOSE i \in Pending(b, k) : TRUE].version
  BY DEF Covers
<1>2. CASE Pending(b, k) = {}
  BY <1>1, <1>2, Sizes
<1>3. CASE Pending(b, k) # {}
  <2> DEFINE i == CHOOSE i \in Pending(b, k) : TRUE
  <2>1. i \in Pending(b, k)
    BY <1>3
  <2> HIDE DEF i
  <2>2. i \in DOMAIN b.appends /\ b.appends[i].key = k /\ b.appends[i] \in Row
    BY <2>1 DEF Pending, Drafted
  <2>3. Covers(b)[k] = b.appends[i].version
    BY <1>1, <1>3 DEF i
  <2> QED BY <2>2, <2>3, Sizes DEF Row, Versions
<1> QED BY <1>2, <1>3

\* What is accounted for is what was, or what the batch covers.
LEMMA AccountedAre ==
    ASSUME StateTyped, NEW s \in Slot, flushes[s] # NoFlush, Finish(s)
    PROVE  /\ accounted' \in [Key -> 0 .. MaxVersion]
           /\ \A k \in Key : accounted'[k] > 0 =>
                 accounted[k] > 0 \/ \E i \in DOMAIN flushes[s].batch.appends :
                                        flushes[s].batch.appends[i].key = k
<1>1. Drafted(flushes[s].batch)
  BY DEF StateTyped, SlotTyped
<1>2. CASE s = "abandoned"
  BY <1>2 DEF StateTyped, Finish
<1>3. CASE s # "abandoned"
  <2> DEFINE cov(k) == Covers(flushes[s].batch)[k]
             both(k) == {accounted[k], cov(k)}
  <2>1. accounted' = [k \in Key |-> Max(both(k))]
    BY <1>3 DEF Finish
  <2>2. ASSUME NEW k \in Key
        PROVE  /\ Max(both(k)) \in 0 .. MaxVersion
               /\ Max(both(k)) = accounted[k] \/ Max(both(k)) = cov(k)
    <3>1. accounted[k] \in 0 .. MaxVersion /\ cov(k) \in 0 .. MaxVersion
      BY <1>1, CoversAre DEF StateTyped
    <3>2. both(k) \in SUBSET (0 .. MaxVersion) /\ both(k) # {} /\ MaxVersion \in Nat
      BY <3>1, Sizes
    <3>3. Max(both(k)) \in both(k)
      BY <3>2, HasGreatest
    <3> QED BY <3>1, <3>3
  <2>3. ASSUME NEW k \in Key, accounted'[k] > 0
        PROVE  accounted[k] > 0 \/ \E i \in DOMAIN flushes[s].batch.appends :
                                      flushes[s].batch.appends[i].key = k
    <3>1. accounted'[k] = accounted[k] \/ accounted'[k] = cov(k)
      BY <2>1, <2>2
    <3>2. cov(k) > 0 => \E i \in DOMAIN flushes[s].batch.appends :
                           flushes[s].batch.appends[i].key = k
      BY <1>1, CoversAre
    <3> QED BY <2>3, <3>1, <3>2
  <2> HIDE DEF cov, both
  <2>4. accounted' \in [Key -> 0 .. MaxVersion]
    BY <2>1, <2>2
  <2> QED BY <2>3, <2>4
<1> QED BY <1>2, <1>3

\* A flush that is set leaves the other as it was.
LEMMA SlotSet ==
    ASSUME StateTyped, NEW s \in Slot, NEW f, flushes' = [flushes EXCEPT ![s] = f]
    PROVE  /\ flushes' = [t \in Slot |-> flushes'[t]]
           /\ flushes'[s] = f /\ \A t \in Slot \ {s} : flushes'[t] = flushes[t]
BY DEF StateTyped

\* The deletes of the batch that is buffered were all delivered.
LEMMA BufferTyped ==
    ASSUME StateTyped, NEW b, Buffer(b), Drafted(b), b.deletes \subseteq gone', gone \subseteq gone',
           gone' \subseteq Key
    PROVE  StateTyped'
<1>1. /\ batch' = b /\ UNCHANGED <<sheet, reading, flushes, accounted, clean, requests>>
  BY DEF Buffer
<1>2. \A s \in Slot : SlotTyped(flushes[s])'
  BY <1>1 DEF StateTyped, SlotTyped
<1> QED BY <1>1, <1>2 DEF StateTyped

\* No step makes a state the program cannot be in.
LEMMA TypesKept ==
    ASSUME StateTyped, [WriteNext]_destination
    PROVE  StateTyped'
<1>1. CASE Start
  BY <1>1, EmptyDrafted, Sizes DEF StateTyped, Start, SlotTyped
<1>2. CASE Upsert
  <2>1. PICK row \in Row : Buffer(Upserted(batch, row)) /\ gone' = gone
    BY <1>2 DEF Upsert
  <2>2. Len(batch.appends) < MaxBatch
    <3>1. batch.deletes \subseteq Key /\ Len(batch.appends) \in Nat
      BY DEF StateTyped, Drafted
    <3>2. Cardinality(batch.deletes) \in Nat
      BY <3>1, Sizes, FS_Subset, FS_CardinalityType
    <3>3. Len(batch.appends) + Cardinality(batch.deletes) < MaxBatch
      BY <2>1 DEF Buffer
    <3> QED BY <3>1, <3>2, <3>3, Sizes
  <2>3. Drafted(Upserted(batch, row)) /\ Upserted(batch, row).deletes = batch.deletes
    BY <2>2, UpsertedIs DEF StateTyped
  <2>4. Upserted(batch, row).deletes \subseteq gone' /\ gone \subseteq gone' /\ gone' \subseteq Key
    BY <2>1, <2>3 DEF StateTyped
  <2> QED BY <2>1, <2>3, <2>4, BufferTyped
<1>3. CASE DeleteRecord
  <2>1. PICK k \in Key : /\ Buffer([batch EXCEPT !.deletes = @ \cup {k}])
                         /\ gone' = gone \cup {k}
    BY <1>3 DEF DeleteRecord
  <2> DEFINE b == [batch EXCEPT !.deletes = @ \cup {k}]
  <2>2. Drafted(b) /\ b.deletes = batch.deletes \cup {k}
    BY DEF StateTyped, Drafted
  <2>3. b.deletes \subseteq gone' /\ gone \subseteq gone' /\ gone' \subseteq Key
    BY <2>1, <2>2 DEF StateTyped
  <2> HIDE DEF b
  <2>4. Buffer(b)
    BY <2>1 DEF b
  <2> QED BY <2>2, <2>3, <2>4, BufferTyped
<1>4. CASE Reject
  BY <1>4, EmptyDrafted DEF StateTyped, Reject, SlotTyped
<1>5. CASE Drained
  <2> DEFINE f == [at |-> "refresh", batch |-> batch]
  <2>1. /\ flushes' = [flushes EXCEPT !["current"] = f]
        /\ reading' = FALSE /\ batch' = EmptyBatch /\ clean' = (clean /\ ~Flushing("abandoned"))
        /\ UNCHANGED <<gone, sheet, accounted, requests>>
    BY <1>5 DEF Drained
  <2>2. SlotTyped(f)
    BY DEF SlotTyped, StateTyped
  <2>3. "current" \in Slot
    BY DEF Slot
  <2> HIDE DEF f
  <2>4. /\ flushes' = [t \in Slot |-> flushes'[t]]
        /\ \A t \in Slot : flushes'[t] = f \/ flushes'[t] = flushes[t]
    BY <2>1, <2>3, SlotSet
  <2>5. \A t \in Slot : SlotTyped(flushes[t])'
    BY <2>1, <2>2, <2>4 DEF StateTyped, SlotTyped
  <2> QED BY <2>1, <2>4, <2>5, EmptyDrafted DEF StateTyped
<1>6. ASSUME NEW s \in Slot, NEW f, SlotTyped(f), flushes' = [flushes EXCEPT ![s] = f],
             gone' = gone, Tab(sheet'), UNCHANGED <<reading, batch, requests>>,
             clean' \in BOOLEAN, accounted' \in [Key -> 0 .. MaxVersion]
      PROVE  StateTyped'
  <2>1. /\ flushes' = [t \in Slot |-> flushes'[t]]
        /\ \A t \in Slot : flushes'[t] = f \/ flushes'[t] = flushes[t]
    BY <1>6, SlotSet
  <2>2. \A t \in Slot : SlotTyped(flushes[t])'
    BY <1>6, <2>1 DEF StateTyped, SlotTyped
  <2> QED BY <1>6, <2>1, <2>2 DEF StateTyped
<1>7. SlotTyped(NoFlush)
  BY DEF SlotTyped
<1>8. ASSUME NEW s \in Slot, Refresh(s)
      PROVE  StateTyped'
  <2> DEFINE b == flushes[s].batch
             f == [at |-> "apply", batch |-> b, plan |-> Planned(sheet, b)]
  <2>1. Drafted(b) /\ b.deletes \subseteq gone
    BY <1>8 DEF Refresh, StateTyped, SlotTyped, NoFlush
  <2>2. SlotTyped(f)
    BY <2>1, PlanIs DEF SlotTyped, StateTyped
  <2>3. flushes' = [flushes EXCEPT ![s] = f] /\ UNCHANGED <<gone, sheet, reading, batch, accounted, clean, requests>>
    BY <1>8 DEF Refresh
  <2> HIDE DEF f, b
  <2> QED BY <1>6, <2>2, <2>3 DEF StateTyped
<1>9. ASSUME NEW s \in Slot, RefreshFails(s)
      PROVE  StateTyped'
  <2> DEFINE b == flushes[s].batch
             f(count) == [at |-> "apply", batch |-> b, plan |-> PlannedUnread(b, count)]
  <2>1. Drafted(b) /\ b.deletes \subseteq gone
    BY <1>9 DEF RefreshFails, StateTyped, SlotTyped, NoFlush
  <2>2. PICK count \in {0, Len(sheet)} : flushes' = [flushes EXCEPT ![s] = f(count)]
    BY <1>9 DEF RefreshFails
  <2>3. count \in Nat
    BY DEF StateTyped, Tab, Neat
  <2>4. SlotTyped(f(count))
    BY <2>1, <2>3, UnreadTyped DEF SlotTyped
  <2>5. clean' = FALSE /\ UNCHANGED <<gone, sheet, reading, batch, accounted, requests>>
    BY <1>9 DEF RefreshFails
  <2> HIDE DEF f, b
  <2> QED BY <1>6, <2>2, <2>4, <2>5 DEF StateTyped
<1>10. ASSUME NEW s \in Slot, NothingToFlush(s)
       PROVE  StateTyped'
  <2>1. /\ flushes[s] # NoFlush /\ Finish(s)
        /\ UNCHANGED <<gone, sheet, reading, batch, clean, requests>>
    BY <1>10 DEF NothingToFlush, NoFlush
  <2>2. accounted' \in [Key -> 0 .. MaxVersion]
    BY <2>1, AccountedAre
  <2> QED BY <1>6, <1>7, <2>1, <2>2 DEF StateTyped, Finish
<1>11. ASSUME NEW s \in Slot, flushes[s].at = "apply"
       PROVE  Tab(Paste(sheet, flushes[s].plan))
  <2>1. PlanTyped(flushes[s].plan)
    BY <1>11 DEF StateTyped, SlotTyped, NoFlush
  <2> QED BY <2>1, TabKept DEF StateTyped
<1>12. ASSUME NEW s \in Slot, Apply(s)
       PROVE  StateTyped'
  <2>1. /\ flushes[s] # NoFlush /\ Finish(s) /\ flushes[s].at = "apply"
        /\ sheet' = Paste(sheet, flushes[s].plan)
        /\ UNCHANGED <<gone, reading, batch, clean, requests>>
    BY <1>12 DEF Apply, NoFlush
  <2>2. accounted' \in [Key -> 0 .. MaxVersion]
    BY <2>1, AccountedAre
  <2> QED BY <1>6, <1>7, <1>11, <2>1, <2>2 DEF StateTyped, Finish
<1>13. ASSUME NEW s \in Slot, ApplyRetried(s)
       PROVE  StateTyped'
  <2>1. /\ flushes[s].at = "apply" /\ sheet' = Paste(sheet, flushes[s].plan)
        /\ UNCHANGED <<gone, reading, batch, flushes, accounted, clean, requests>>
    BY <1>13 DEF ApplyRetried
  <2>2. Tab(sheet')
    BY <1>11, <2>1
  <2>3. \A t \in Slot : SlotTyped(flushes[t])'
    BY <2>1 DEF StateTyped, SlotTyped
  <2> QED BY <2>1, <2>2, <2>3 DEF StateTyped
<1>14. ASSUME NEW s \in Slot, ApplyFails(s)
       PROVE  StateTyped'
  <2>1. /\ flushes' = [flushes EXCEPT ![s] = NoFlush]
        /\ UNCHANGED <<gone, sheet, reading, batch, accounted, clean, requests>>
    BY <1>14 DEF ApplyFails
  <2> QED BY <1>6, <1>7, <2>1 DEF StateTyped
<1>15. CASE HardLimit
  <2>1. /\ reading' = FALSE /\ batch' = EmptyBatch
        /\ UNCHANGED <<gone, sheet, accounted, clean, requests>>
    BY <1>15 DEF HardLimit
  <2>2. \/ flushes' = [s \in Slot |-> IF s = "current" THEN NoFlush ELSE flushes["current"]]
        \/ flushes' = flushes
    BY <1>15 DEF HardLimit
  <2>3. flushes' = [t \in Slot |-> flushes'[t]]
    BY <2>2 DEF StateTyped
  <2>4. \A t \in Slot : SlotTyped(flushes[t])'
    <3>1. "current" \in Slot
      BY DEF Slot
    <3> QED BY <1>7, <2>1, <2>2, <3>1 DEF StateTyped, SlotTyped
  <2> QED BY <2>1, <2>3, <2>4, EmptyDrafted DEF StateTyped
<1>16. CASE Crash
  <2>1. /\ flushes' = [s \in Slot |-> NoFlush] /\ reading' = FALSE /\ batch' = EmptyBatch
        /\ UNCHANGED <<gone, sheet, accounted, clean, requests>>
    BY <1>16 DEF Crash
  <2> QED BY <1>7, <2>1, EmptyDrafted DEF StateTyped, SlotTyped
<1>17. CASE UNCHANGED destination
  BY <1>17 DEF StateTyped, SlotTyped, destination
<1> QED BY <1>1, <1>2, <1>3, <1>4, <1>5, <1>8, <1>9, <1>10, <1>12, <1>13, <1>14, <1>15,
            <1>16, <1>17 DEF WriteNext

\* As long as the flushes are undisturbed, a batchUpdate, the first or a repeated
\* one, makes the table its batch asks for of the table on the tab.
LEMMA AppliedIs ==
    ASSUME IInv, clean, NEW s \in Slot, flushes[s].at = "apply"
    PROVE  LET b == flushes[s].batch
               N == Paste(sheet, flushes[s].plan)
           IN  /\ Sound(N)
               /\ \E read : /\ Sound(read) /\ flushes[s].plan = Planned(read, b)
                            /\ N = Paste(read, flushes[s].plan)
               /\ \A k \in b.deletes : ~OnSheet(N, k)
               /\ \A k : k \notin b.deletes /\ OnSheet(sheet, k) => OnSheet(N, k)
               /\ \A i \in DOMAIN b.appends :
                     b.appends[i].key \notin b.deletes => OnSheet(N, b.appends[i].key)
               /\ \A k : \A i \in RowsOf(sheet, k) : \A j \in RowsOf(N, k) :
                     N[j].version >= sheet[i].version
<1> DEFINE b == flushes[s].batch
           plan == flushes[s].plan
           N == Paste(sheet, plan)
<1>1. Drafted(b) /\ PlanTyped(plan)
  BY DEF IInv, StateTyped, SlotTyped, NoFlush
<1>2. PICK read : PlannedFrom(read, flushes[s])
  BY DEF IInv, Undisturbed
<1>3. Sound(read) /\ plan = Planned(read, b) /\ (sheet = read \/ sheet = Paste(read, plan))
  BY <1>2 DEF PlannedFrom
<1>4. read \in Seq(Content)
  BY <1>3 DEF Sound, Tab, Neat
<1> HIDE DEF b, plan
<1>5. N = Paste(read, plan)
  BY <1>1, <1>3, <1>4, PasteTwice
<1> HIDE DEF N
<1>6. /\ Sound(N)
      /\ \A k \in b.deletes : ~OnSheet(N, k)
      /\ \A k : k \notin b.deletes /\ OnSheet(read, k) => OnSheet(N, k)
      /\ \A i \in DOMAIN b.appends : b.appends[i].key \notin b.deletes => OnSheet(N, b.appends[i].key)
      /\ \A k : \A i \in RowsOf(read, k) : \A j \in RowsOf(N, k) : N[j].version >= read[i].version
  BY <1>1, <1>3, <1>5, ResultIs
<1>7. sheet = read \/ sheet = N
  BY <1>3, <1>5
<1>8. ASSUME NEW k, NEW i \in RowsOf(N, k), NEW j \in RowsOf(N, k)
      PROVE  N[j].version >= N[i].version
  <2>1. i = j /\ i \in 2 .. Len(N)
    BY <1>6, RowsOfSound
  <2>2. N[i] \in Row
    BY <1>6, <2>1 DEF Sound
  <2>3. N[i].version \in Nat
    BY <2>2, ContentsAre
  <2> QED BY <2>1, <2>3
<1>9. \A k : k \notin b.deletes /\ OnSheet(sheet, k) => OnSheet(N, k)
  BY <1>6, <1>7
<1>10. \A k : \A i \in RowsOf(sheet, k) : \A j \in RowsOf(N, k) : N[j].version >= sheet[i].version
  BY <1>6, <1>7, <1>8
<1> QED BY <1>3, <1>5, <1>6, <1>9, <1>10 DEF b, plan, N

\* No step disturbs the flushes without `clean' saying so.
LEMMA UndisturbedKept ==
    ASSUME IInv, [WriteNext]_destination
    PROVE  Undisturbed'
<1> SUFFICES ASSUME clean'
             PROVE  /\ Sound(sheet')
                    /\ ~(flushes'["current"].at # "none" /\ flushes'["abandoned"].at # "none")
                    /\ \A s \in Slot : flushes'[s].at = "apply" => \E read : PlannedFrom(read, flushes[s])'
                    /\ \A k \in Key \ gone' : accounted'[k] > 0 => OnSheet(sheet', k)
  BY DEF Undisturbed, Flushing
<1> DEFINE Goal == /\ Sound(sheet')
                   /\ ~(flushes'["current"].at # "none" /\ flushes'["abandoned"].at # "none")
                   /\ \A s \in Slot : flushes'[s].at = "apply" => \E read : PlannedFrom(read, flushes[s])'
                   /\ \A k \in Key \ gone' : accounted'[k] > 0 => OnSheet(sheet', k)
<1>1. ASSUME clean
      PROVE  /\ Sound(sheet)
             /\ ~(flushes["current"].at # "none" /\ flushes["abandoned"].at # "none")
             /\ \A s \in Slot : flushes[s].at = "apply" => \E read : PlannedFrom(read, flushes[s])
             /\ \A k \in Key \ gone : accounted[k] > 0 => OnSheet(sheet, k)
  BY <1>1 DEF IInv, Undisturbed, Flushing
<1>2. ASSUME UNCHANGED <<sheet, flushes, accounted, clean>>, gone \subseteq gone'
      PROVE  Goal
  BY <1>1, <1>2 DEF PlannedFrom
<1>3. StateTyped /\ Slot = {"current", "abandoned"}
  BY DEF IInv, Slot
<1>4. ASSUME NEW s \in Slot, NEW f, flushes' = [flushes EXCEPT ![s] = f], clean,
             flushes[s].at # "none", sheet' = sheet, gone' = gone,
             f.at = "apply" => PlannedFrom(sheet, f),
             \A k \in Key \ gone : accounted'[k] > 0 => OnSheet(sheet, k)
      PROVE  Goal
  <2>1. flushes'[s] = f /\ \A t \in Slot \ {s} : flushes'[t] = flushes[t]
    BY <1>3, <1>4, SlotSet
  <2>2. ASSUME NEW t \in Slot, flushes'[t].at = "apply"
        PROVE  \E read : PlannedFrom(read, flushes[t])'
    <3>1. CASE t = s
      BY <1>4, <2>1, <2>2, <3>1 DEF PlannedFrom
    <3>2. CASE t # s
      <4>1. flushes'[t] = flushes[t]
        BY <2>1, <3>2
      <4> QED BY <1>1, <1>4, <2>2, <4>1 DEF PlannedFrom
    <3> QED BY <3>1, <3>2
  <2>3. ~(flushes'["current"].at # "none" /\ flushes'["abandoned"].at # "none")
    BY <1>1, <1>3, <1>4, <2>1
  <2> QED BY <1>1, <1>4, <2>2, <2>3
<1>5. CASE Start
  BY <1>2, <1>5 DEF Start
<1>6. CASE Upsert
  BY <1>2, <1>6 DEF Upsert, Buffer
<1>7. CASE DeleteRecord
  BY <1>2, <1>7 DEF DeleteRecord, Buffer
<1>8. CASE Reject
  BY <1>2, <1>8 DEF Reject
<1>9. CASE Drained
  <2> DEFINE f == [at |-> "refresh", batch |-> batch]
  <2>1. /\ flushes' = [flushes EXCEPT !["current"] = f]
        /\ clean /\ flushes["abandoned"].at = "none"
        /\ UNCHANGED <<gone, sheet, accounted>>
    BY <1>9 DEF Drained, Flushing
  <2>2. "current" \in Slot /\ f.at = "refresh"
    BY <1>3
  <2> HIDE DEF f
  <2>3. flushes'["current"] = f /\ \A t \in Slot \ {"current"} : flushes'[t] = flushes[t]
    BY <1>3, <2>1, <2>2, SlotSet
  <2>4. ASSUME NEW t \in Slot, flushes'[t].at = "apply"
        PROVE  \E read : PlannedFrom(read, flushes[t])'
    <3>1. t # "current" /\ flushes'[t] = flushes[t]
      BY <2>2, <2>3, <2>4
    <3> QED BY <1>3, <2>1, <2>4, <3>1
  <2>5. flushes'["abandoned"].at = "none"
    BY <1>3, <2>1, <2>3
  <2> QED BY <1>1, <2>1, <2>4, <2>5
<1>10. ASSUME NEW s \in Slot, Refresh(s)
       PROVE  Goal
  <2> DEFINE b == flushes[s].batch
             f == [at |-> "apply", batch |-> b, plan |-> Planned(sheet, b)]
  <2>1. /\ flushes' = [flushes EXCEPT ![s] = f] /\ clean /\ flushes[s].at = "refresh"
        /\ UNCHANGED <<gone, sheet, accounted>>
    BY <1>10 DEF Refresh
  <2>2. PlannedFrom(sheet, f)
    BY <1>1, <2>1 DEF PlannedFrom
  <2>3. flushes[s].at # "none"
    BY <2>1
  <2> HIDE DEF f, b
  <2>4. \A k \in Key \ gone : accounted'[k] > 0 => OnSheet(sheet, k)
    BY <1>1, <2>1
  <2> QED BY <1>4, <2>1, <2>2, <2>3, <2>4
<1>11. ASSUME NEW s \in Slot, RefreshFails(s)
       PROVE  Goal
  BY <1>11 DEF RefreshFails
<1>12. NoFlush.at = "none"
  BY DEF NoFlush
<1>13. ASSUME NEW s \in Slot, NothingToFlush(s)
       PROVE  Goal
  <2>1. /\ flushes[s].at = "refresh" /\ flushes[s].batch = EmptyBatch /\ Finish(s) /\ clean
        /\ flushes[s] # NoFlush /\ UNCHANGED <<gone, sheet>>
    BY <1>13 DEF NothingToFlush, NoFlush
  <2>2. flushes' = [flushes EXCEPT ![s] = NoFlush]
    BY <2>1 DEF Finish
  <2>3. DOMAIN flushes[s].batch.appends = {}
    BY <2>1 DEF EmptyBatch
  <2>4. \A k \in Key : accounted'[k] > 0 => accounted[k] > 0
    BY <1>3, <2>1, <2>3, AccountedAre
  <2>5. \A k \in Key \ gone : accounted'[k] > 0 => OnSheet(sheet, k)
    BY <1>1, <2>1, <2>4
  <2> QED BY <1>4, <1>12, <2>1, <2>2, <2>5
<1>14. ASSUME NEW s \in Slot, Apply(s)
       PROVE  Goal
  <2> DEFINE b == flushes[s].batch
  <2>1. /\ flushes[s].at = "apply" /\ Finish(s) /\ sheet' = Paste(sheet, flushes[s].plan)
        /\ flushes[s] # NoFlush /\ gone' = gone /\ clean
    BY <1>14 DEF Apply, NoFlush
  <2>2. /\ Sound(sheet')
        /\ \A k : k \notin b.deletes /\ OnSheet(sheet, k) => OnSheet(sheet', k)
        /\ \A i \in DOMAIN b.appends :
              b.appends[i].key \notin b.deletes => OnSheet(sheet', b.appends[i].key)
    BY <2>1, AppliedIs
  <2>3. b.deletes \subseteq gone
    BY <1>3, <2>1 DEF StateTyped, SlotTyped
  <2>4. \A k \in Key : accounted'[k] > 0 =>
           accounted[k] > 0 \/ \E i \in DOMAIN b.appends : b.appends[i].key = k
    BY <1>3, <2>1, AccountedAre
  <2>5. \A k \in Key \ gone : accounted'[k] > 0 => OnSheet(sheet', k)
    BY <1>1, <2>1, <2>2, <2>3, <2>4
  <2>6. flushes'[s] = NoFlush /\ \A t \in Slot \ {s} : flushes'[t] = flushes[t]
    BY <1>3, <2>1, SlotSet DEF Finish
  <2>7. \A t \in Slot : flushes'[t].at = "none"
    BY <1>1, <1>3, <1>12, <2>1, <2>6
  <2> HIDE DEF b
  <2> QED BY <1>3, <2>1, <2>2, <2>5, <2>7
<1>15. ASSUME NEW s \in Slot, ApplyRetried(s)
       PROVE  Goal
  <2> DEFINE b == flushes[s].batch
  <2>1. /\ flushes[s].at = "apply" /\ sheet' = Paste(sheet, flushes[s].plan)
        /\ clean /\ UNCHANGED <<gone, flushes, accounted>>
    BY <1>15 DEF ApplyRetried
  <2>2. /\ Sound(sheet')
        /\ \E read : /\ Sound(read) /\ flushes[s].plan = Planned(read, b)
                     /\ sheet' = Paste(read, flushes[s].plan)
        /\ \A k : k \notin b.deletes /\ OnSheet(sheet, k) => OnSheet(sheet', k)
    BY <2>1, AppliedIs
  <2>3. b.deletes \subseteq gone
    BY <1>3, <2>1 DEF StateTyped, SlotTyped, NoFlush
  <2>4. \A k \in Key \ gone : accounted'[k] > 0 => OnSheet(sheet', k)
    BY <1>1, <2>1, <2>2, <2>3
  <2>5. \A t \in Slot : flushes[t].at = "apply" => t = s
    BY <1>1, <1>3, <2>1
  <2>6. \E read : PlannedFrom(read, flushes[s])'
    BY <2>1, <2>2 DEF PlannedFrom
  <2>7. \A t \in Slot : flushes'[t].at = "apply" => \E read : PlannedFrom(read, flushes[t])'
    BY <2>1, <2>5, <2>6
  <2> HIDE DEF b
  <2> QED BY <1>1, <2>1, <2>2, <2>4, <2>7
<1>16. ASSUME NEW s \in Slot, ApplyFails(s)
       PROVE  Goal
  <2>1. /\ flushes[s].at = "apply" /\ flushes' = [flushes EXCEPT ![s] = NoFlush]
        /\ clean /\ UNCHANGED <<gone, sheet, accounted>>
    BY <1>16 DEF ApplyFails
  <2>2. \A k \in Key \ gone : accounted'[k] > 0 => OnSheet(sheet, k)
    BY <1>1, <2>1
  <2> QED BY <1>4, <1>12, <2>1, <2>2
<1>17. CASE HardLimit
  <2>1. clean /\ UNCHANGED <<gone, sheet, accounted>>
    BY <1>17 DEF HardLimit
  <2>2. CASE flushes' = flushes
    BY <1>2, <2>1, <2>2
  <2>3. CASE flushes' # flushes
    <3>1. /\ flushes["abandoned"].at = "none"
          /\ flushes' = [s \in Slot |-> IF s = "current" THEN NoFlush ELSE flushes["current"]]
      BY <1>17, <2>3 DEF HardLimit, Flushing
    <3>2. flushes'["current"] = NoFlush /\ flushes'["abandoned"] = flushes["current"]
      BY <1>3, <3>1
    <3>3. ASSUME NEW t \in Slot, flushes'[t].at = "apply"
          PROVE  \E read : PlannedFrom(read, flushes[t])'
      <4>1. t = "abandoned" /\ flushes["current"].at = "apply" /\ "current" \in Slot
        BY <1>3, <1>12, <3>2, <3>3
      <4>2. PICK read : PlannedFrom(read, flushes["current"])
        BY <1>1, <2>1, <4>1
      <4>3. PlannedFrom(read, flushes[t])'
        BY <2>1, <3>2, <4>1, <4>2 DEF PlannedFrom
      <4> QED BY <4>3
    <3> QED BY <1>1, <1>12, <2>1, <3>2, <3>3
  <2> QED BY <2>2, <2>3
<1>18. CASE Crash
  <2>1. /\ \A s \in Slot : flushes'[s] = NoFlush
        /\ clean /\ UNCHANGED <<gone, sheet, accounted>>
    BY <1>18 DEF Crash
  <2> QED BY <1>1, <1>3, <1>12, <2>1
<1>19. CASE UNCHANGED destination
  BY <1>2, <1>19 DEF destination
<1> QED BY <1>5, <1>6, <1>7, <1>8, <1>9, <1>10, <1>11, <1>13, <1>14, <1>15, <1>16, <1>17,
            <1>18, <1>19 DEF WriteNext

\* The program begins undisturbed.
LEMMA InitIsFine == ASSUME WriteInit PROVE IInv
<1>1. Tab(sheet) /\ Len(sheet) = 1 /\ sheet[1] = Header
  <2>1. sheet = <<Header>> /\ Header \in Content /\ Header # Blank
    BY ContentsAre DEF WriteInit
  <2>2. sheet \in Seq(Content) /\ Len(sheet) = 1 /\ sheet[1] = Header /\ 2 .. Len(sheet) = {}
    BY <2>1
  <2> QED BY <2>1, <2>2 DEF Tab, Neat
<1>2. /\ gone = {} /\ reading = FALSE /\ batch = EmptyBatch /\ clean = TRUE /\ requests = 0
      /\ flushes = [s \in Slot |-> NoFlush] /\ accounted = [k \in Key |-> 0]
  BY DEF WriteInit
<1>3. \A s \in Slot : flushes[s] = NoFlush /\ flushes[s].at = "none"
  BY <1>2 DEF NoFlush
<1>4. StateTyped
  <2>1. flushes = [s \in Slot |-> flushes[s]]
    BY <1>2
  <2>2. accounted \in [Key -> 0 .. MaxVersion] /\ requests \in 0 .. MaxRequests
    BY <1>2, Sizes
  <2> QED BY <1>1, <1>2, <1>3, <2>1, <2>2, EmptyDrafted DEF StateTyped, SlotTyped
<1>5. Sound(sheet)
  <2>1. 2 .. Len(sheet) = {}
    BY <1>1
  <2> QED BY <1>1, <2>1 DEF Sound
<1>6. "current" \in Slot /\ \A k \in Key : ~(accounted[k] > 0)
  BY <1>2 DEF Slot
<1>7. Undisturbed
  BY <1>3, <1>5, <1>6 DEF Undisturbed, Flushing
<1> QED BY <1>4, <1>7 DEF IInv

\* The invariant is one.
THEOREM InvHolds == WriteSpec => []IInv
<1>1. WriteInit => IInv
  BY InitIsFine
<1>2. IInv /\ [WriteNext]_destination => IInv'
  BY TypesKept, UndisturbedKept DEF IInv
<1> QED BY <1>1, <1>2, PTL DEF WriteSpec

\* A batch that the proofs describe is one that the runs enumerate.
LEMMA BatchIs ==
    ASSUME NEW b, Drafted(b)
    PROVE  b \in Batch
<1>1. /\ b \in [appends : Seq(Row), deletes : SUBSET Key]
      /\ Len(b.appends) \in 0 .. MaxBatch
  BY Sizes DEF Drafted
<1>2. b.appends \in [1 .. Len(b.appends) -> Row]
  BY <1>1
<1>3. b.appends \in BoundedSeq(Row, MaxBatch)
  BY <1>1, <1>2 DEF BoundedSeq, SeqOf
<1> QED BY <1>1, <1>3 DEF Batch

\* The same of a plan.
LEMMA PlanIsOK ==
    ASSUME NEW plan, PlanTyped(plan)
    PROVE  PlanOK(plan)
<1>1. plan.appends \in Seq(Row) /\ Len(plan.appends) \in 0 .. MaxBatch
  BY Sizes DEF PlanTyped
<1>2. plan.appends \in [1 .. Len(plan.appends) -> Row]
  BY <1>1
<1>3. plan.appends \in BoundedSeq(Row, MaxBatch)
  BY <1>1, <1>2 DEF BoundedSeq, SeqOf
<1>4. DOMAIN plan.updates \subseteq Nat \ {0, 1}
  BY DEF PlanTyped
<1> QED BY <1>3, <1>4 DEF PlanTyped, PlanOK

\* The invariant says that the tab is sound.
LEMMA SoundByInv == ASSUME IInv PROVE TabSound
<1>1. WriteTyped
  <2>1. \A i \in DOMAIN sheet : sheet[i] \in Row \cup {Header, Blank}
    BY DEF IInv, StateTyped, Tab, Neat, Content
  <2>2. batch \in Batch
    BY BatchIs DEF IInv, StateTyped
  <2>3. ASSUME NEW s \in Slot
        PROVE  \/ flushes[s] = NoFlush
               \/ flushes[s].batch \in Batch /\ flushes[s].at = "refresh"
               \/ flushes[s].batch \in Batch /\ flushes[s].at = "apply" /\ PlanOK(flushes[s].plan)
    BY BatchIs, PlanIsOK DEF IInv, StateTyped, SlotTyped
  <2> QED BY <2>1, <2>2, <2>3 DEF IInv, StateTyped, WriteTyped
<1>2. OneRowPerKey
  <2> SUFFICES ASSUME clean, NEW k \in Key PROVE Cardinality(RowsOf(sheet, k)) <= 1
    BY DEF OneRowPerKey
  <2>1. \A i, j \in RowsOf(sheet, k) : i = j
    BY RowsOfSound DEF IInv, Undisturbed
  <2>2. CASE RowsOf(sheet, k) = {}
    BY <2>2, FS_EmptySet
  <2>3. CASE RowsOf(sheet, k) # {}
    <3>1. PICK i : RowsOf(sheet, k) = {i}
      BY <2>1, <2>3
    <3> QED BY <3>1, FS_Singleton
  <2> QED BY <2>2, <2>3
<1>3. Compact
  <2>1. \A i \in 2 .. Len(sheet) : sheet[i] \in Row => IsData(sheet[i])
    BY ContentsAre
  <2> QED BY <2>1 DEF IInv, Undisturbed, Compact, Sound
<1>4. RowsKept
  BY DEF RowsKept, IInv, Undisturbed
<1> QED BY <1>1, <1>2, <1>3, <1>4 DEF TabSound

\* Whatever batches, retries and abandoned flushes came before, the tab is one
\* block under its header, with one row for each object and none missing.
THEOREM TabIsSound == WriteSpec => []TabSound
<1>1. IInv => TabSound
  BY SoundByInv
<1> QED BY <1>1, InvHolds, PTL

\* Which flush a step that changes the tab belongs to.
LEMMA SheetBy ==
    ASSUME WriteNext, sheet' # sheet
    PROVE  \E s \in Slot : /\ flushes[s].at = "apply" /\ clean' = clean
                           /\ sheet' = Paste(sheet, flushes[s].plan)
<1>1. \E s \in Slot : Apply(s) \/ ApplyRetried(s)
  BY DEF WriteNext, Start, Upsert, DeleteRecord, Buffer, Reject, Drained, Refresh, RefreshFails,
         NothingToFlush, ApplyFails, HardLimit, Crash
<1> QED BY <1>1 DEF Apply, ApplyRetried

\* No step replaces the row of an object by an older version of it.
THEOREM RowsStayNew == WriteSpec => RowsNeverRegress
<1> DEFINE Newer == clean' => \A k \in Key : \A i \in RowsOf(sheet, k) : \A j \in RowsOf(sheet', k) :
                                 sheet'[j].version >= sheet[i].version
<1>1. ASSUME IInv, [WriteNext]_destination, IInv'
      PROVE  [Newer]_destination
  <2> SUFFICES ASSUME clean', NEW k \in Key, NEW i \in RowsOf(sheet, k), NEW j \in RowsOf(sheet', k)
               PROVE  sheet'[j].version >= sheet[i].version
    OBVIOUS
  <2>1. CASE sheet' = sheet
    <3>1. Sound(sheet')
      BY <1>1 DEF IInv, Undisturbed
    <3>2. i = j /\ i \in 2 .. Len(sheet') /\ i \in RowsOf(sheet', k)
      BY <2>1, <3>1, RowsOfSound
    <3>3. sheet'[i] \in Row
      BY <3>1, <3>2 DEF Sound
    <3>4. sheet'[i].version \in Nat
      BY <3>3, ContentsAre
    <3> QED BY <2>1, <3>2, <3>4
  <2>2. CASE sheet' # sheet
    <3>1. PICK s \in Slot : /\ flushes[s].at = "apply" /\ clean' = clean
                            /\ sheet' = Paste(sheet, flushes[s].plan)
      BY <1>1, <2>2, SheetBy DEF destination
    <3> QED BY <1>1, <3>1, AppliedIs
  <2> QED BY <2>1, <2>2
<1>2. RowsNeverRegress <=> [][Newer]_destination
  BY DEF RowsNeverRegress
<1> QED BY <1>1, <1>2, InvHolds, PTL DEF WriteSpec

\* A batchUpdate takes every object its batch deletes off the tab.
THEOREM DeletesArrive == WriteSpec => DeletesReachSheet
<1> DEFINE Gone == \A s \in Slot :
                      clean /\ flushes[s].at = "apply" /\ sheet' # sheet
                         => \A k \in flushes[s].batch.deletes : ~OnSheet(sheet', k)
<1>1. ASSUME IInv, [WriteNext]_destination
      PROVE  [Gone]_destination
  <2> SUFFICES ASSUME NEW s \in Slot, clean, flushes[s].at = "apply", sheet' # sheet,
                      NEW k \in flushes[s].batch.deletes
               PROVE  ~OnSheet(sheet', k)
    OBVIOUS
  <2>1. PICK t \in Slot : flushes[t].at = "apply" /\ sheet' = Paste(sheet, flushes[t].plan)
    BY <1>1, SheetBy DEF destination
  <2>2. t = s
    BY <1>1, <2>1 DEF IInv, Undisturbed, Flushing, Slot
  <2> QED BY <1>1, <2>1, <2>2, AppliedIs
<1>2. DeletesReachSheet <=> [][Gone]_destination
  BY DEF DeletesReachSheet
<1> QED BY <1>1, <1>2, InvHolds, PTL DEF WriteSpec

-----------------------------------------------------------------------------
(***************************************************************************)
(* The setup of a spreadsheet, for every sequence of layouts, every number *)
(* of setups and of faults.  The inductive invariant says what the calls   *)
(* of a setup have brought about by the time it is at a step, and that no  *)
(* call of any setup or writer undoes it.                                  *)
(***************************************************************************)

SeenType == [tabs : SUBSET Stream, sheet1 : BOOLEAN, overview : BOOLEAN, examples : BOOLEAN,
             made : Nat, names : Nat, protected : SUBSET Stream, band : [Stream -> Nat]]

DocType == [tabs : [Stream -> DataTab], sheet1 : BOOLEAN, overview : BOOLEAN,
            named : SUBSET (Stream \X AllFields \X Column), names : Nat,
            examples : BOOLEAN, made : Nat, sections : SUBSET Examples, charts : Nat]

Names == Seq(AllFields \cup {Open})

Typed ==
    /\ doc \in DocType
    /\ \A s \in Stream : Len(doc.tabs[s].header) <= Width
    /\ layout \in DOMAIN Layouts
    /\ setup \in [Setups -> [at : Step, seen : SeenType, tab : Nat, alone : BOOLEAN,
                             hurt : BOOLEAN]]
    /\ \A i \in Setups : setup[i].tab <= doc.made
    /\ writer \in [at : {"off", "open"}, headers : [Stream -> Names], beside : BOOLEAN]
    /\ begun \in 0 .. MaxSetups /\ faults \in 0 .. MaxFaults
    /\ ruled \in [Stream -> [AllFields -> EnumLists]]

\* the steps of a setup after one of its calls
PastFormat  == {"links", "done"}
PastProtect == PastFormat \cup {"listBands", "format"}
PastCharts  == PastProtect \cup {"protect"}
PastIntro   == PastCharts \cup {"dropExamples", "examples", "charts"}
PastEnums   == PastIntro \cup {"intro"}
PastNames   == PastEnums \cup {"metaAfter", "checkEnums", "enums"}
PastHeaders == PastNames \cup {"listNames", "names"}
PastTabs    == PastHeaders \cup {"headers"}

TabsThere(l, d)  == \A s \in Present(l) : d.tabs[s].at
HeadersSet(l, d) == \A s \in Present(l) : IsPrefix(Fields(l, s), d.tabs[s].header)
LinksSet(l, d)   == \A s \in Present(l) \cap Linked :
                    /\ Len(d.tabs[s].header) > Len(Fields(l, s))
                    /\ d.tabs[s].header[Len(Fields(l, s)) + 1] = Open
NamesSet(l, d)   == /\ Wanted(l) \subseteq d.named
                 /\ \A n \in d.named : <<n[1], n[2]>> \in NamesOf(Wanted(l))
                       => n \in Wanted(l)
RulesSet(l, d)   == \A s \in Stream : \A c \in 1 .. Len(Fields(l, s)) :
                    d.tabs[s].rules[c] = Enum(l, s, Fields(l, s)[c])
Guarded(l, d)    == \A s \in Present(l) : d.tabs[s].protected > 0
Banded(l, d)     == \A s \in Present(l) : d.tabs[s].band > 0

\* what the calls of a setup have brought about by the time it is at a step
Reached(l, at, d) ==
    /\ at \in PastTabs    => TabsThere(l, d)
    /\ at \in PastNames   => NamesSet(l, d)
    /\ at \in PastEnums   => RulesSet(l, d)
    /\ at \in PastIntro   => d.overview
    /\ at \in PastProtect => Guarded(l, d)
    /\ at \in PastFormat  => Banded(l, d)
ReachedHeaders(l, at, d) ==
    /\ at \in PastHeaders => HeadersSet(l, d)
    /\ at = "done"        => LinksSet(l, d)

\* what a setup that nothing disturbed knows from its last fetch, and of its examples
UpToDate(l, st, d) ==
    /\ st.at = "tabs"   => st.seen.tabs = {s \in Stream : d.tabs[s].at}
    /\ st.at = "names"  => st.seen.names = d.names
    /\ st.at \in {"checkEnums", "enums", "intro"} => st.seen.overview = d.overview
    /\ st.at \in {"checkEnums", "enums", "intro", "dropExamples"} =>
          st.seen.examples = d.examples /\ st.seen.made = d.made
    /\ st.at = "format" => \A s \in Stream : st.seen.band[s] = d.tabs[s].band
    /\ Sections(l) # {} =>
          /\ st.at = "examples" => ~d.examples
          /\ st.at = "charts"   => /\ d.examples /\ st.tab = d.made
                                   /\ d.sections = Sections(l) /\ d.charts = 0
          /\ st.at \in PastCharts => /\ d.sections = Sections(l)
                                     /\ d.charts = Cardinality(d.sections)
    /\ st.at # "failed"

Apart ==
    /\ \A i, j \in Setups : i # j /\ setup[i].alone /\ setup[i].at # "off" => ~Running(j)
    /\ writer.at = "open" => \A i \in Setups : setup[i].at = "off" \/ ~setup[i].alone
    /\ writer.at = "open" /\ ~writer.beside => \A i \in Setups : setup[i].at = "off"

\* nothing is written to a tab before it is there
Untouched(d) == \A s \in Stream : ~d.tabs[s].at => d.tabs[s] = NoTab

Progress ==
    /\ \A i \in Setups : Reached(layout, setup[i].at, doc)
    /\ \A i \in Setups : setup[i].alone \/ ~writer.beside => ReachedHeaders(layout, setup[i].at, doc)
    /\ \A i \in Setups : /\ \A s \in setup[i].seen.tabs : doc.tabs[s].at
                         /\ \A s \in setup[i].seen.protected : doc.tabs[s].protected > 0
    /\ \A i \in Setups : setup[i].alone /\ ~setup[i].hurt => UpToDate(layout, setup[i], doc)
    /\ ~doc.examples => doc.charts = 0
    /\ Untouched(doc)

HeaderIs(l, d) == \A s \in Stream : \A c \in 1 .. Len(d.tabs[s].header) :
    d.tabs[s].header[c] # Open =>
        c <= Len(Fields(l, s)) /\ d.tabs[s].header[c] = Fields(l, s)[c]
CellsAre(l, d) == \A s \in Stream : \A c \in Column : d.tabs[s].cells[c] # {} =>
    /\ c <= Len(Fields(l, s)) /\ c <= Len(d.tabs[s].header)
    /\ d.tabs[s].header[c] = Fields(l, s)[c]
    /\ d.tabs[s].cells[c] = {Fields(l, s)[c]}

Aligned ==
    /\ ColumnsKept /\ ~writer.beside => HeaderIs(layout, doc) /\ CellsAre(layout, doc)
    /\ writer.at = "open" /\ ~writer.beside =>
          /\ HeadersSet(layout, doc)
          /\ \A s \in Stream : writer.headers[s] \in {<<>>, doc.tabs[s].header}
    /\ writer.at = "off" => \A s \in Stream : writer.headers[s] = <<>>

RulesKept ==
    ColumnsKept =>
        /\ \A s \in Stream : \A f \in AllFields : ruled[s][f] # None =>
              \E c \in 1 .. Len(Fields(layout, s)) :
                  /\ Fields(layout, s)[c] = f
                  /\ doc.tabs[s].at /\ doc.tabs[s].rules[c] = ruled[s][f]
        /\ \A i \in Setups : setup[i].at = "enums" =>
              \A s \in Stream : \A f \in Range(Fields(layout, s)) :
                  ruled[s][f] # None /\ Enum(layout, s, f) # None
                      => ruled[s][f] = Enum(layout, s, f)

SetupInv == Typed /\ Apart /\ Progress /\ Aligned /\ RulesKept

\* What no call undoes, be it of this setup or of another one of the same layout.
KeptTabs(l, d, e) ==
    /\ e.tabs \in [Stream -> DataTab]
    /\ \A s \in Stream : /\ Len(e.tabs[s].header) <= Width
                         /\ d.tabs[s].at => e.tabs[s].at
                         /\ d.tabs[s].protected > 0 => e.tabs[s].protected > 0
                         /\ d.tabs[s].band > 0 => e.tabs[s].band > 0
    /\ Untouched(e)
    /\ HeadersSet(l, d) => HeadersSet(l, e)
    /\ LinksSet(l, d) => LinksSet(l, e)
    /\ RulesSet(l, d) => RulesSet(l, e)
    /\ HeaderIs(l, d) => HeaderIs(l, e)
    /\ HeaderIs(l, d) /\ CellsAre(l, d) => CellsAre(l, e)
KeptRest(l, d, e) ==
    /\ e \in DocType /\ d.made <= e.made
    /\ NamesSet(l, d) => NamesSet(l, e)
    /\ d.overview => e.overview
    /\ (~d.examples => d.charts = 0) => (~e.examples => e.charts = 0)
Kept(l, d, e) == KeptTabs(l, d, e) /\ KeptRest(l, d, e)

-----------------------------------------------------------------------------
(* The parameters, and sequences of columns.                                *)

\* The columns of a stream in a layout.
LEMMA ColumnsAre ==
    ASSUME NEW l \in DOMAIN Layouts, NEW s \in Stream
    PROVE  /\ Fields(l, s) \in Seq(AllFields) /\ Len(Fields(l, s)) \in Nat
           /\ Fields(l, s) \in Seq(STRING \ {Open})
           /\ DOMAIN Fields(l, s) = 1 .. Len(Fields(l, s))
           /\ Len(Fields(l, s)) < Width
           /\ Range(Fields(l, s)) = {Fields(l, s)[c] : c \in 1 .. Len(Fields(l, s))}
           /\ Range(Fields(l, s)) \subseteq AllFields
           /\ \A c \in 1 .. Len(Fields(l, s)) : /\ Fields(l, s)[c] \in AllFields
                                                /\ Fields(l, s)[c] # Open
                                                /\ Fields(l, s)[c] \in Range(Fields(l, s))
                                                /\ c \in Column
           /\ \A f \in Range(Fields(l, s)) : Enum(l, s, f) \in EnumLists
<1> DEFINE F == Fields(l, s)
<1>1. F \in Seq(STRING \ {Open}) /\ Len(F) < Width /\ Width \in Nat
  BY SetupAssumption
<1>2. Len(F) \in Nat /\ DOMAIN F = 1 .. Len(F) /\ \A c \in 1 .. Len(F) : F[c] \in STRING \ {Open}
  BY <1>1
<1>3. Range(F) = {F[c] : c \in 1 .. Len(F)}
  BY <1>2 DEF Range
<1>4. Range(F) \subseteq AllFields
  BY DEF AllFields
<1>5. \A c \in 1 .. Len(F) : F[c] \in Range(F)
  BY <1>3
<1>6. F \in Seq(AllFields)
  BY <1>1, <1>2, <1>4, <1>5, SeqDef
<1>7. 1 .. Len(F) \subseteq Column
  BY <1>1, <1>2 DEF Column
<1>8. \A f \in Range(F) : Enum(l, s, f) \in EnumLists
  <2> DEFINE E(m, x) == {Enum(m, x, f) : f \in Range(Fields(m, x))}
  <2>1. \A f \in Range(F) : Enum(l, s, f) \in E(l, s)
    OBVIOUS
  <2>2. EnumLists = {None} \cup UNION {E(m, x) : m \in DOMAIN Layouts, x \in Stream}
    BY DEF EnumLists
  <2> HIDE DEF E
  <2>3. E(l, s) \subseteq UNION {E(m, x) : m \in DOMAIN Layouts, x \in Stream}
    OBVIOUS
  <2> QED BY <2>1, <2>2, <2>3
<1> QED BY <1>1, <1>2, <1>3, <1>4, <1>5, <1>6, <1>7, <1>8

\* No column is the column of links.
LEMMA NoneIsOpen == Open \notin AllFields /\ AllFields \subseteq STRING
<1>1. ASSUME NEW f \in AllFields PROVE f # Open /\ f \in STRING
  <2>1. PICK l \in DOMAIN Layouts, s \in Stream : f \in Range(Fields(l, s))
    BY DEF AllFields
  <2>2. PICK c \in 1 .. Len(Fields(l, s)) : f = Fields(l, s)[c]
    BY <2>1, ColumnsAre
  <2>3. Fields(l, s) \in Seq(STRING \ {Open})
    BY ColumnsAre
  <2> QED BY <2>2, <2>3
<1> QED BY <1>1

\* A column has one position.
LEMMA OnePosition ==
    ASSUME NEW l \in DOMAIN Layouts, NEW s \in Stream,
           NEW c \in 1 .. Len(Fields(l, s)), NEW e \in 1 .. Len(Fields(l, s)),
           Fields(l, s)[c] = Fields(l, s)[e]
    PROVE  c = e
<1>1. IsInjective(Fields(l, s))
  BY SetupAssumption
<1>2. c \in DOMAIN Fields(l, s) /\ e \in DOMAIN Fields(l, s)
  BY ColumnsAre
<1> QED BY <1>1, <1>2 DEF IsInjective

LEMMA PrefixIs ==
    ASSUME NEW S, NEW q \in Seq(S), NEW r \in Seq(S)
    PROVE  IsPrefix(q, r) <=> Len(q) <= Len(r) /\ \A c \in 1 .. Len(q) : r[c] = q[c]
<1>1. Len(q) \in Nat /\ Len(r) \in Nat /\ DOMAIN q = 1 .. Len(q)
  OBVIOUS
<1>2. SubSeq(q, 1, Len(q)) = [c \in 1 .. Len(q) |-> q[c]]
  BY <1>1 DEF SubSeq
<1>3. SubSeq(r, 1, Len(q)) = [c \in 1 .. Len(q) |-> r[c]]
  BY <1>1 DEF SubSeq
<1> QED BY <1>2, <1>3 DEF IsPrefix

LEMMA GreaterOf ==
    ASSUME NEW m \in Nat, NEW n \in Nat
    PROVE  Max({m, n}) = IF m <= n THEN n ELSE m
<1>1. \E x \in {m, n} : \A y \in {m, n} : x >= y
  OBVIOUS
<1>2. Max({m, n}) \in {m, n} /\ \A y \in {m, n} : Max({m, n}) >= y
  BY <1>1 DEF Max
<1> QED BY <1>2

\* A row written over another keeps what is to the right of it.
LEMMA OverlaidIs ==
    ASSUME NEW S, NEW new \in Seq(S), NEW old \in Seq(S)
    PROVE  /\ Overlaid(new, old) \in Seq(S) /\ Len(Overlaid(new, old)) \in Nat
           /\ Len(Overlaid(new, old)) = IF Len(new) <= Len(old) THEN Len(old) ELSE Len(new)
           /\ \A c \in 1 .. Len(new) : Overlaid(new, old)[c] = new[c]
           /\ \A c \in 1 .. Len(old) : c > Len(new) => Overlaid(new, old)[c] = old[c]
<1> DEFINE n == IF Len(new) <= Len(old) THEN Len(old) ELSE Len(new)
           row == [c \in 1 .. n |-> IF c <= Len(new) THEN new[c] ELSE old[c]]
<1>1. Len(new) \in Nat /\ Len(old) \in Nat /\ n \in Nat
  OBVIOUS
<1>2. Overlaid(new, old) = row
  BY <1>1, GreaterOf DEF Overlaid
<1>3. \A c \in 1 .. n : row[c] \in S
  BY <1>1
<1>4. row \in Seq(S) /\ Len(row) = n
  BY <1>1, <1>3, SeqDef
<1> QED BY <1>1, <1>2, <1>4

\* Those of the members of a sequence that are in a set.
LEMMA ThoseAre ==
    ASSUME NEW S, NEW q \in Seq(S), NEW T
    PROVE  /\ Those(q, T) \in Seq(S)
           /\ Range(q) \cap T = {} => Those(q, T) = <<>>
<1> DEFINE at == {c \in DOMAIN q : q[c] \in T}
<1>1. Len(q) \in Nat /\ DOMAIN q = 1 .. Len(q) /\ at \in SUBSET (1 .. Len(q))
  OBVIOUS
<1>2. Cardinality(at) \in Nat /\ \A n \in 1 .. Cardinality(at) : Nth(at, n) \in at
  BY <1>1, Places
<1>3. Those(q, T) = [n \in 1 .. Cardinality(at) |-> q[Nth(at, n)]]
  BY DEF Those, Nth, Rank
<1>4. \A n \in 1 .. Cardinality(at) : q[Nth(at, n)] \in S
  BY <1>1, <1>2
<1>5. Those(q, T) \in Seq(S)
  BY <1>2, <1>3, <1>4, SeqDef
<1>6. ASSUME Range(q) \cap T = {} PROVE Those(q, T) = <<>>
  <2>1. at = {}
    BY <1>6 DEF Range
  <2>2. Cardinality(at) = 0
    BY <2>1, FS_EmptySet
  <2>3. Len(Those(q, T)) = 0
    BY <1>3, <2>2
  <2> QED BY <1>5, <2>3
<1> QED BY <1>5, <1>6

\* The steps of a setup, in their order.
LEMMA StepsAre ==
    /\ After("meta") = "tabs"             /\ After("tabs") = "headers"
    /\ After("headers") = "listNames"     /\ After("listNames") = "names"
    /\ After("names") = "metaAfter"       /\ After("metaAfter") = "checkEnums"
    /\ After("checkEnums") = "enums"      /\ After("enums") = "intro"
    /\ After("intro") = "dropExamples"    /\ After("dropExamples") = "examples"
    /\ After("examples") = "charts"       /\ After("charts") = "protect"
    /\ After("protect") = "listBands"     /\ After("listBands") = "format"
    /\ After("format") = "links"          /\ After("links") = "done"
<1>1. DOMAIN Steps = 1 .. 17
  BY DEF Steps
<1>2. \A m, n \in 1 .. 17 : Steps[m] = Steps[n] => m = n
  BY DEF Steps
<1>3. ASSUME NEW n \in 2 .. 17 PROVE After(Steps[n - 1]) = Steps[n]
  <2>1. n \in DOMAIN Steps /\ n > 1 /\ Steps[n - 1] = Steps[n - 1]
    BY <1>1
  <2>2. \A m \in DOMAIN Steps : m > 1 /\ Steps[m - 1] = Steps[n - 1] => m = n
    BY <1>1, <1>2
  <2> QED BY <2>1, <2>2 DEF After
<1> QED BY <1>3 DEF Steps

LEMMA StepIs ==
    /\ Step = PastTabs \cup {"meta", "tabs"} \cup Stopped
    /\ PastTabs = {"headers", "listNames", "names", "metaAfter", "checkEnums", "enums", "intro",
                   "dropExamples", "examples", "charts", "protect", "listBands", "format",
                   "links", "done"}
<1>1. DOMAIN Steps = 1 .. 17 /\ Range(Steps) = {Steps[n] : n \in 1 .. 17}
  BY DEF Steps, Range
<1>2. Range(Steps) = PastTabs \cup {"meta", "tabs"}
  <2>1. \A n \in 1 .. 17 : Steps[n] \in PastTabs \cup {"meta", "tabs"}
    BY DEF Steps, PastTabs, PastHeaders, PastNames, PastEnums, PastIntro, PastCharts, PastProtect,
           PastFormat
  <2>2. ASSUME NEW x \in PastTabs \cup {"meta", "tabs"} PROVE \E n \in 1 .. 17 : Steps[n] = x
    BY DEF Steps, PastTabs, PastHeaders, PastNames, PastEnums, PastIntro, PastCharts, PastProtect,
           PastFormat
  <2> QED BY <1>1, <2>1, <2>2
<1>3. PastTabs = {"headers", "listNames", "names", "metaAfter", "checkEnums", "enums", "intro",
                   "dropExamples", "examples", "charts", "protect", "listBands", "format",
                   "links", "done"}
  BY DEF PastTabs, PastHeaders, PastNames, PastEnums, PastIntro, PastCharts, PastProtect,
         PastFormat
<1> QED BY <1>2, <1>3 DEF Step

-----------------------------------------------------------------------------
(* One call.                                                                *)

LEMMA SetupTypes ==
    ASSUME Typed, NEW i \in Setups
    PROVE  /\ setup[i].at \in Step /\ setup[i].seen \in SeenType /\ setup[i].tab \in Nat
           /\ setup[i].alone \in BOOLEAN /\ setup[i].hurt \in BOOLEAN
           /\ setup[i].tab <= doc.made
           /\ DOMAIN setup = Setups
BY DEF Typed

\* What a call does to the setups.
LEMMA CallIs ==
    ASSUME Typed, NEW i \in Setups, NEW step, NEW accepted \in BOOLEAN, NEW new,
           Call(i, step, accepted, new)
    PROVE  /\ setup[i].at = step
           /\ doc' = IF accepted THEN new ELSE doc
           /\ \A j \in Setups : j # i => setup'[j] = setup[j]
           /\ DOMAIN setup' = Setups
           /\ \/ accepted /\ setup'[i] = [setup[i] EXCEPT !.at = After(step), !.tab = doc'.made]
              \/ ~accepted /\ setup'[i] = [setup[i] EXCEPT !.at = "failed", !.tab = doc'.made]
              \/ accepted /\ setup'[i] = [setup[i] EXCEPT !.hurt = TRUE]
           /\ faults' \in 0 .. MaxFaults
           /\ layout' = layout /\ writer' = writer /\ begun' = begun
<1>1. DOMAIN setup = Setups /\ MaxFaults \in Nat /\ faults \in 0 .. MaxFaults
  BY SetupTypes, SetupAssumption DEF Typed
<1>2. faults' \in 0 .. MaxFaults
  BY <1>1 DEF Call, Fault
<1>3. CASE setup' = [setup EXCEPT ![i].at = IF accepted THEN After(step) ELSE "failed",
                                  ![i].tab = doc'.made]
  <2>1. CASE accepted
    BY <1>1, <1>2, <1>3, <2>1 DEF Call
  <2>2. CASE ~accepted
    BY <1>1, <1>2, <1>3, <2>2 DEF Call
  <2> QED BY <2>1, <2>2
<1>4. CASE accepted /\ setup' = [setup EXCEPT ![i].hurt = TRUE]
  BY <1>1, <1>2, <1>4 DEF Call
<1> QED BY <1>3, <1>4 DEF Call

\* What a call has to show.
Shown(i, step, accepted, new) ==
    /\ setup[i].at = step =>
          /\ accepted => /\ Kept(layout, doc, new)
                         /\ Reached(layout, After(step), new)
                         /\ setup[i].alone \/ ~writer.beside => ReachedHeaders(layout, After(step), new)
          /\ setup[i].alone /\ ~setup[i].hurt =>
                /\ accepted
                /\ UpToDate(layout, [setup[i] EXCEPT !.at = After(step), !.tab = new.made], new)

Called == {"tabs", "headers", "names", "enums", "intro", "dropExamples", "examples", "charts",
           "protect", "format", "links"}

LEMMA PastAre ==
    /\ PastHeaders \subseteq PastTabs /\ PastNames \subseteq PastTabs /\ PastEnums \subseteq PastTabs
    /\ PastIntro \subseteq PastTabs /\ PastCharts \subseteq PastTabs
    /\ PastProtect \subseteq PastTabs /\ PastFormat \subseteq PastTabs
    /\ "off" \notin PastTabs /\ "failed" \notin PastTabs
BY StepIs DEF PastTabs, PastHeaders, PastNames, PastEnums, PastIntro, PastCharts, PastProtect,
              PastFormat

LEMMA AfterTypes == \A step \in Called : /\ step \notin Stopped /\ step \in Step
                                         /\ After(step) \in PastTabs
                                         /\ After(step) \in Step
BY StepsAre, StepIs DEF Called, Stopped

\* A call that undoes nothing and brings about what its setup relies on keeps
\* everything but what is said of the enums.
LEMMA CallKeeps ==
    ASSUME SetupInv, NEW i \in Setups, NEW step \in Called, NEW accepted \in BOOLEAN, NEW new,
           Call(i, step, accepted, new), Shown(i, step, accepted, new),
           ruled' \in [Stream -> [AllFields -> EnumLists]]
    PROVE  Typed' /\ Apart' /\ Progress' /\ Aligned'
<1>1. /\ setup[i].at = step
      /\ doc' = IF accepted THEN new ELSE doc
      /\ \A j \in Setups : j # i => setup'[j] = setup[j]
      /\ DOMAIN setup' = Setups
      /\ \/ accepted /\ setup'[i] = [setup[i] EXCEPT !.at = After(step), !.tab = doc'.made]
         \/ ~accepted /\ setup'[i] = [setup[i] EXCEPT !.at = "failed", !.tab = doc'.made]
         \/ accepted /\ setup'[i] = [setup[i] EXCEPT !.hurt = TRUE]
      /\ faults' \in 0 .. MaxFaults
      /\ layout' = layout /\ writer' = writer /\ begun' = begun
  BY CallIs DEF SetupInv
<1>2. Typed /\ Apart /\ Progress /\ Aligned
  BY DEF SetupInv
<1>3. step \notin Stopped /\ step \in Step /\ After(step) \in PastTabs /\ After(step) \in Step
  BY AfterTypes
<1>4. Running(i)
  BY <1>1, <1>3 DEF Running
<1>5. Kept(layout, doc, doc')
  <2>1. CASE accepted
    BY <1>1, <2>1 DEF Shown
  <2>2. CASE ~accepted
    <3>1. doc' = doc
      BY <1>1, <2>2
    <3>2. doc \in DocType /\ \A s \in Stream : Len(doc.tabs[s].header) <= Width
      BY <1>2 DEF Typed
    <3>3. doc.tabs \in [Stream -> DataTab] /\ doc.made \in Nat
      BY <3>2 DEF DocType
    <3>4. doc.made <= doc.made
      BY <3>3
    <3>5. Kept(layout, doc, doc)
      BY <1>2, <3>2, <3>3, <3>4 DEF Kept, KeptTabs, KeptRest, Progress
    <3> QED BY <3>1, <3>5
  <2> QED BY <2>1, <2>2
<1>6. doc' \in DocType /\ doc'.made \in Nat /\ doc.made \in Nat /\ doc.made <= doc'.made
  BY <1>2, <1>5 DEF Kept, KeptRest, DocType, Typed
<1>7. \A j \in Setups : /\ setup'[j].alone = setup[j].alone /\ setup'[j].seen = setup[j].seen
                        /\ setup'[j].at # "off" => setup[j].at # "off"
                        /\ setup'[j].at \notin Stopped => setup[j].at \notin Stopped
  <2> SUFFICES ASSUME NEW j \in Setups
               PROVE  /\ setup'[j].alone = setup[j].alone /\ setup'[j].seen = setup[j].seen
                      /\ setup'[j].at # "off" => setup[j].at # "off"
                      /\ setup'[j].at \notin Stopped => setup[j].at \notin Stopped
    OBVIOUS
  <2>1. CASE j # i
    BY <1>1, <2>1
  <2>2. CASE j = i
    <3>1. setup[i] \in [at : Step, seen : SeenType, tab : Nat, alone : BOOLEAN, hurt : BOOLEAN]
      BY <1>2 DEF Typed
    <3>2. setup'[i].alone = setup[i].alone /\ setup'[i].seen = setup[i].seen
      BY <1>1, <3>1
    <3>3. setup[i].at # "off" /\ setup[i].at \notin Stopped
      BY <1>1, <1>3 DEF Stopped
    <3> QED BY <2>2, <3>2, <3>3
  <2> QED BY <2>1, <2>2
<1>8. Typed'
  <2>1. setup' \in [Setups -> [at : Step, seen : SeenType, tab : Nat, alone : BOOLEAN,
                               hurt : BOOLEAN]]
    <3>1. ASSUME NEW j \in Setups
          PROVE  setup'[j] \in [at : Step, seen : SeenType, tab : Nat, alone : BOOLEAN,
                                hurt : BOOLEAN]
      <4>1. setup[j] \in [at : Step, seen : SeenType, tab : Nat, alone : BOOLEAN, hurt : BOOLEAN]
        BY <1>2 DEF Typed
      <4>2. "failed" \in Step
        BY StepIs DEF Stopped
      <4>3. CASE j = i
        BY <1>1, <1>3, <1>6, <4>1, <4>2, <4>3
      <4>4. CASE j # i
        BY <1>1, <4>1, <4>4
      <4> QED BY <4>3, <4>4
    <3>2. setup' = [j \in Setups |-> setup'[j]]
      <4>1. setup \in [Setups -> [at : Step, seen : SeenType, tab : Nat, alone : BOOLEAN,
                                  hurt : BOOLEAN]]
        BY <1>2 DEF Typed
      <4> QED BY <4>1 DEF Call
    <3> QED BY <3>1, <3>2
  <2>2. ASSUME NEW j \in Setups PROVE setup'[j].tab <= doc'.made
    <3>1. setup[j].tab \in Nat /\ setup[j].tab <= doc.made
      BY <1>2, SetupTypes
    <3>2. setup[j] \in [at : Step, seen : SeenType, tab : Nat, alone : BOOLEAN, hurt : BOOLEAN]
      BY <1>2 DEF Typed
    <3>3. CASE j = i
      <4>1. setup'[i].tab = doc'.made \/ setup'[i].tab = setup[i].tab
        BY <1>1, <3>2, <3>3
      <4> QED BY <1>6, <3>1, <3>3, <4>1
    <3>4. CASE j # i
      BY <1>1, <1>6, <3>1, <3>4
    <3> QED BY <3>3, <3>4
  <2>3. \A s \in Stream : Len(doc'.tabs[s].header) <= Width
    BY <1>5 DEF Kept, KeptTabs
  <2> QED BY <1>1, <1>2, <1>6, <2>1, <2>2, <2>3 DEF Typed
<1>9. Apart'
  BY <1>1, <1>2, <1>7 DEF Apart, Running
<1>10. Progress'
  <2>1. ASSUME NEW j \in Setups PROVE Reached(layout, setup'[j].at, doc')
    <3>1. Reached(layout, setup[j].at, doc)
      BY <1>2 DEF Progress
    <3>2. Reached(layout, setup[j].at, doc')
      BY <1>5, <3>1 DEF Reached, Kept, KeptTabs, KeptRest, TabsThere, Guarded, Banded, Present
    <3>3. Reached(layout, "failed", doc')
      BY StepIs, PastAre DEF Reached
    <3>4. setup[i] \in [at : Step, seen : SeenType, tab : Nat, alone : BOOLEAN, hurt : BOOLEAN]
      BY <1>2 DEF Typed
    <3>5. CASE j = i
      <4>1. accepted => Reached(layout, After(step), doc')
        BY <1>1 DEF Shown
      <4> QED BY <1>1, <3>2, <3>3, <3>4, <3>5, <4>1
    <3>6. CASE j # i
      BY <1>1, <3>2, <3>6
    <3> QED BY <3>5, <3>6
  <2>2. ASSUME NEW j \in Setups, setup[j].alone \/ ~writer.beside
        PROVE  ReachedHeaders(layout, setup'[j].at, doc')
    <3>1. ReachedHeaders(layout, setup[j].at, doc)
      BY <1>2, <2>2 DEF Progress
    <3>2. ReachedHeaders(layout, setup[j].at, doc')
      BY <1>5, <3>1 DEF ReachedHeaders, Kept, KeptTabs
    <3>3. ReachedHeaders(layout, "failed", doc')
      BY StepIs, PastAre DEF ReachedHeaders
    <3>4. setup[i] \in [at : Step, seen : SeenType, tab : Nat, alone : BOOLEAN, hurt : BOOLEAN]
      BY <1>2 DEF Typed
    <3>5. CASE j = i
      <4>1. accepted => ReachedHeaders(layout, After(step), doc')
        BY <1>1, <2>2, <3>5 DEF Shown
      <4> QED BY <1>1, <3>2, <3>3, <3>4, <3>5, <4>1
    <3>6. CASE j # i
      BY <1>1, <3>2, <3>6
    <3> QED BY <3>5, <3>6
  <2>3. ASSUME NEW j \in Setups, NEW s \in setup[j].seen.protected
        PROVE  doc'.tabs[s].protected > 0
    <3>1. s \in Stream
      BY <1>2, SetupTypes DEF SeenType
    <3>2. doc.tabs[s].protected > 0
      BY <1>2 DEF Progress
    <3> QED BY <1>5, <3>1, <3>2 DEF Kept, KeptTabs
  <2>6. ASSUME NEW j \in Setups, NEW s \in setup[j].seen.tabs
        PROVE  doc'.tabs[s].at
    <3>1. s \in Stream
      BY <1>2, SetupTypes DEF SeenType
    <3>2. doc.tabs[s].at
      BY <1>2 DEF Progress
    <3> QED BY <1>5, <3>1, <3>2 DEF Kept, KeptTabs
  <2>7. Untouched(doc')
    BY <1>5 DEF Kept, KeptTabs
  <2>4. ASSUME NEW j \in Setups, setup'[j].alone, ~setup'[j].hurt
        PROVE  UpToDate(layout, setup'[j], doc')
    <3>1. setup[i] \in [at : Step, seen : SeenType, tab : Nat, alone : BOOLEAN, hurt : BOOLEAN]
      BY <1>2 DEF Typed
    <3>2. CASE j = i
      <4>1. setup[i].alone /\ ~setup[i].hurt
        BY <1>1, <2>4, <3>1, <3>2
      <4>2. accepted /\ UpToDate(layout, [setup[i] EXCEPT !.at = After(step), !.tab = new.made], new)
        BY <1>1, <4>1 DEF Shown
      <4>3. setup'[i] = [setup[i] EXCEPT !.at = After(step), !.tab = doc'.made]
        BY <1>1, <2>4, <3>1, <3>2, <4>2
      <4> QED BY <1>1, <3>2, <4>2, <4>3
    <3>3. CASE j # i
      <4>1. setup[j].alone /\ setup'[j] = setup[j]
        BY <1>1, <2>4, <3>3
      <4>2. setup[j].at = "off"
        BY <1>2, <1>4, <3>3, <4>1 DEF Apart
      <4> QED BY <4>1, <4>2, PastAre DEF UpToDate
    <3> QED BY <3>2, <3>3
  <2>5. ~doc'.examples => doc'.charts = 0
    BY <1>2, <1>5 DEF Progress, Kept, KeptRest
  <2> QED BY <1>1, <1>7, <2>1, <2>2, <2>3, <2>4, <2>5, <2>6, <2>7 DEF Progress
<1>11. Aligned'
  <2>1. ~(writer.at = "open" /\ ~writer.beside)
    BY <1>1, <1>2, <1>3 DEF Apart, Stopped
  <2>2. ColumnsKept /\ ~writer.beside => HeaderIs(layout, doc') /\ CellsAre(layout, doc')
    BY <1>2, <1>5 DEF Aligned, Kept, KeptTabs
  <2>3. ColumnsKept' <=> ColumnsKept
    BY <1>1 DEF ColumnsKept
  <2>4. writer.at = "off" => \A s \in Stream : writer.headers[s] = <<>>
    BY <1>2 DEF Aligned
  <2> QED BY <1>1, <2>1, <2>2, <2>3, <2>4 DEF Aligned
<1> QED BY <1>8, <1>9, <1>10, <1>11

-----------------------------------------------------------------------------
(* The calls of a setup.                                                    *)

LEMMA LayoutIs == ASSUME Typed PROVE layout \in DOMAIN Layouts
BY DEF Typed

LEMMA TabTypes ==
    ASSUME NEW d \in DocType, NEW s \in Stream
    PROVE  /\ d.tabs \in [Stream -> DataTab] /\ d.tabs[s] \in DataTab
           /\ d.tabs[s].header \in Seq(AllFields \cup {Open})
           /\ Len(d.tabs[s].header) \in Nat
           /\ d.tabs[s].at \in BOOLEAN /\ d.tabs[s].cells \in [Column -> SUBSET AllFields]
           /\ d.tabs[s].rules \in [Column -> EnumLists]
           /\ d.tabs[s].protected \in Nat /\ d.tabs[s].band \in Nat
<1>1. d.tabs \in [Stream -> DataTab]
  BY DEF DocType
<1>2. d.tabs[s] \in DataTab
  BY <1>1
<1>3. d.tabs[s].header \in Seq(AllFields \cup {Open})
  BY <1>2 DEF DataTab
<1> QED BY <1>1, <1>2, <1>3 DEF DataTab

LEMMA DocTypes ==
    ASSUME Typed
    PROVE  /\ doc \in DocType /\ doc.tabs \in [Stream -> DataTab]
           /\ \A s \in Stream : Len(doc.tabs[s].header) <= Width
           /\ doc.made \in Nat /\ doc.names \in Nat /\ doc.charts \in Nat
           /\ doc.examples \in BOOLEAN /\ doc.overview \in BOOLEAN /\ doc.sheet1 \in BOOLEAN
           /\ doc.sections \in SUBSET Examples
           /\ doc.named \in SUBSET (Stream \X AllFields \X Column)
BY DEF Typed, DocType

\* A call that leaves the tabs alone.
LEMMA TabsStay ==
    ASSUME NEW l, NEW d \in DocType, NEW e, e.tabs = d.tabs, Untouched(d),
           \A s \in Stream : Len(d.tabs[s].header) <= Width
    PROVE  KeptTabs(l, d, e)
<1>1. d.tabs \in [Stream -> DataTab]
  BY DEF DocType
<1>2. /\ HeadersSet(l, e) = HeadersSet(l, d) /\ LinksSet(l, e) = LinksSet(l, d)
      /\ RulesSet(l, e) = RulesSet(l, d) /\ HeaderIs(l, e) = HeaderIs(l, d)
      /\ CellsAre(l, e) = CellsAre(l, d) /\ Untouched(e) = Untouched(d)
  BY DEF HeadersSet, LinksSet, RulesSet, HeaderIs, CellsAre, Untouched
<1> QED BY <1>1, <1>2 DEF KeptTabs

\* A call that changes only tabs.
LEMMA RestStays ==
    ASSUME NEW l, NEW d \in DocType, NEW t \in [Stream -> DataTab]
    PROVE  /\ [d EXCEPT !.tabs = t] \in DocType /\ [d EXCEPT !.tabs = t].tabs = t
           /\ KeptRest(l, d, [d EXCEPT !.tabs = t])
           /\ [d EXCEPT !.tabs = t].made = d.made /\ [d EXCEPT !.tabs = t].names = d.names
           /\ [d EXCEPT !.tabs = t].overview = d.overview
           /\ [d EXCEPT !.tabs = t].examples = d.examples
           /\ [d EXCEPT !.tabs = t].sections = d.sections
           /\ [d EXCEPT !.tabs = t].charts = d.charts
           /\ [d EXCEPT !.tabs = t].named = d.named
<1> DEFINE e == [d EXCEPT !.tabs = t]
<1>1. /\ e \in DocType /\ e.tabs = t /\ e.made = d.made /\ e.names = d.names
      /\ e.overview = d.overview /\ e.examples = d.examples /\ e.sections = d.sections
      /\ e.charts = d.charts /\ e.named = d.named
  BY DEF DocType
<1>2. d.made \in Nat
  BY DEF DocType
<1>3. NamesSet(l, e) = NamesSet(l, d)
  BY <1>1 DEF NamesSet
<1> QED BY <1>1, <1>2, <1>3 DEF KeptRest

\* A row of columns, perhaps with the link, written over a header.
LEMMA RowWritten ==
    ASSUME NEW S, NEW F \in Seq(S), NEW row \in Seq(S), NEW old \in Seq(S), IsPrefix(F, row),
           Len(row) <= Len(F) + 1, Len(row) = Len(F) + 1 => row[Len(F) + 1] = Open
    PROVE  LET o == Overlaid(row, old)
           IN  /\ o \in Seq(S) /\ Len(o) \in Nat /\ Len(o) \in {Len(row), Len(old)}
               /\ Len(old) <= Len(o) /\ Len(row) <= Len(o) /\ Len(F) <= Len(o)
               /\ IsPrefix(F, o)
               /\ \A c \in 1 .. Len(row) : o[c] = row[c]
               /\ \A c \in 1 .. Len(F) : o[c] = F[c]
               /\ Len(old) > Len(F) /\ old[Len(F) + 1] = Open => o[Len(F) + 1] = Open
               /\ \A c \in 1 .. Len(o) : \/ o[c] = Open
                                         \/ c \in 1 .. Len(F) /\ o[c] = F[c]
                                         \/ c \in 1 .. Len(old) /\ o[c] = old[c]
<1> DEFINE o == Overlaid(row, old)
<1>1. Len(F) \in Nat /\ Len(row) \in Nat /\ Len(old) \in Nat
  OBVIOUS
<1>2. Len(F) <= Len(row) /\ \A c \in 1 .. Len(F) : row[c] = F[c]
  BY PrefixIs
<1>3. /\ o \in Seq(S) /\ Len(o) \in Nat
      /\ Len(o) = IF Len(row) <= Len(old) THEN Len(old) ELSE Len(row)
      /\ \A c \in 1 .. Len(row) : o[c] = row[c]
      /\ \A c \in 1 .. Len(old) : c > Len(row) => o[c] = old[c]
  BY OverlaidIs
<1> HIDE DEF o
<1>4. /\ Len(o) \in {Len(row), Len(old)} /\ Len(old) <= Len(o) /\ Len(row) <= Len(o)
      /\ Len(F) <= Len(o)
  BY <1>1, <1>2, <1>3
<1>5. \A c \in 1 .. Len(F) : o[c] = F[c]
  BY <1>1, <1>2, <1>3
<1>6. IsPrefix(F, o)
  BY <1>3, <1>4, <1>5, PrefixIs
<1>7. ASSUME Len(old) > Len(F), old[Len(F) + 1] = Open PROVE o[Len(F) + 1] = Open
  <2>1. Len(F) + 1 \in 1 .. Len(old)
    BY <1>1, <1>7
  <2>2. CASE Len(row) = Len(F) + 1
    BY <1>1, <1>3, <2>2
  <2>3. CASE Len(row) = Len(F)
    <3>1. Len(F) + 1 > Len(row)
      BY <1>1, <2>3
    <3>2. o[Len(F) + 1] = old[Len(F) + 1]
      BY <1>3, <2>1, <3>1
    <3> QED BY <1>7, <3>2
  <2> QED BY <1>1, <1>2, <2>2, <2>3
<1>8. ASSUME NEW c \in 1 .. Len(o)
      PROVE  \/ o[c] = Open
             \/ c \in 1 .. Len(F) /\ o[c] = F[c]
             \/ c \in 1 .. Len(old) /\ o[c] = old[c]
  <2>1. CASE c <= Len(F)
    BY <1>1, <1>3, <1>5, <2>1
  <2>2. CASE c = Len(F) + 1 /\ Len(row) = Len(F) + 1
    BY <1>1, <1>3, <2>2
  <2>3. CASE c > Len(row)
    <3>1. c \in 1 .. Len(old)
      BY <1>1, <1>3, <2>3
    <3> QED BY <1>3, <2>3, <3>1
  <2>4. c <= Len(F) \/ (c = Len(F) + 1 /\ Len(row) = Len(F) + 1) \/ c > Len(row)
    BY <1>1, <1>2, <1>3
  <2> QED BY <2>1, <2>2, <2>3, <2>4
<1> QED BY <1>3, <1>4, <1>5, <1>6, <1>7, <1>8 DEF o

\* Rows of columns, some with the link.
RowsFit(row) ==
    \A s \in DOMAIN row :
        /\ row[s] \in Seq(AllFields \cup {Open}) /\ Len(row[s]) <= Width
        /\ IsPrefix(Fields(layout, s), row[s]) /\ Len(row[s]) <= Len(Fields(layout, s)) + 1
        /\ Len(row[s]) = Len(Fields(layout, s)) + 1 => row[s][Len(Fields(layout, s)) + 1] = Open

\* A call that writes rows over the headers: the columns and, perhaps, the link.
LEMMA HeadersWritten ==
    ASSUME Typed, NEW row, DOMAIN row \subseteq Present(layout), RowsFit(row),
           Untouched(doc), TabsThere(layout, doc)
    PROVE  /\ Kept(layout, doc, HeadersOver(row))
           /\ \A s \in DOMAIN row :
                 /\ IsPrefix(Fields(layout, s), HeadersOver(row).tabs[s].header)
                 /\ Len(HeadersOver(row).tabs[s].header) \in Nat
                 /\ Len(row[s]) <= Len(HeadersOver(row).tabs[s].header)
                 /\ \A c \in 1 .. Len(row[s]) : HeadersOver(row).tabs[s].header[c] = row[s][c]
           /\ \A s \in Stream : HeadersOver(row).tabs[s].rules = doc.tabs[s].rules
           /\ HeadersOver(row).examples = doc.examples
           /\ HeadersOver(row).sections = doc.sections
           /\ HeadersOver(row).charts = doc.charts
<1> DEFINE W == DOMAIN row
           d == doc
           l == layout
           t == [s \in Stream |->
                    IF s \in W
                    THEN [d.tabs[s] EXCEPT !.header = Overlaid(row[s], d.tabs[s].header)]
                    ELSE d.tabs[s]]
           e == [d EXCEPT !.tabs = t]
<1>15. /\ d \in DocType /\ l \in DOMAIN Layouts /\ W \in SUBSET Present(l)
       /\ \A s \in Stream : Len(d.tabs[s].header) <= Width
       /\ Untouched(d) /\ TabsThere(l, d)
  BY DEF Typed
<1>16. \A s \in W : /\ row[s] \in Seq(AllFields \cup {Open}) /\ Len(row[s]) <= Width
                    /\ IsPrefix(Fields(l, s), row[s]) /\ Len(row[s]) <= Len(Fields(l, s)) + 1
                    /\ Len(row[s]) = Len(Fields(l, s)) + 1
                          => row[s][Len(Fields(l, s)) + 1] = Open
  BY DEF RowsFit
<1>17. HeadersOver(row) = e
  BY DEF HeadersOver
<1>18. e.tabs = t
  BY <1>15 DEF DocType
<1> HIDE DEF W, d, l, e
<1> DEFINE S == AllFields \cup {Open}
<1>1. ASSUME NEW s \in Stream
      PROVE  /\ d.tabs[s] \in DataTab /\ d.tabs[s].header \in Seq(S)
             /\ Fields(l, s) \in Seq(S) /\ Len(Fields(l, s)) \in Nat
             /\ Len(d.tabs[s].header) \in Nat /\ Len(d.tabs[s].header) <= Width
  <2>1. Fields(l, s) \in Seq(AllFields) /\ Len(Fields(l, s)) \in Nat
    BY <1>15, ColumnsAre
  <2>2. Fields(l, s) \in Seq(S)
    BY <2>1
  <2> QED BY <1>15, <2>1, <2>2, TabTypes
<1>2. W \subseteq Stream
  BY <1>15 DEF Present
<1>3. ASSUME NEW s \in Stream
      PROVE  /\ e.tabs[s] \in DataTab
             /\ e.tabs[s].at = d.tabs[s].at /\ e.tabs[s].rules = d.tabs[s].rules
             /\ e.tabs[s].cells = d.tabs[s].cells /\ e.tabs[s].band = d.tabs[s].band
             /\ e.tabs[s].protected = d.tabs[s].protected
             /\ e.tabs[s].header = IF s \in W THEN Overlaid(row[s], d.tabs[s].header)
                                   ELSE d.tabs[s].header
             /\ s \notin W => e.tabs[s] = d.tabs[s]
  <2>1. CASE s \in W
    <3> DEFINE o == Overlaid(row[s], d.tabs[s].header)
    <3>1. o \in Seq(S)
      BY <1>1, <1>16, <2>1, RowWritten
    <3>2. e.tabs[s] = [d.tabs[s] EXCEPT !.header = o]
      BY <1>18, <2>1
    <3> HIDE DEF o
    <3>3. e.tabs[s] \in DataTab /\ e.tabs[s].header = o
      BY <1>1, <3>1, <3>2 DEF DataTab
    <3>4. /\ e.tabs[s].at = d.tabs[s].at /\ e.tabs[s].rules = d.tabs[s].rules
          /\ e.tabs[s].cells = d.tabs[s].cells /\ e.tabs[s].band = d.tabs[s].band
          /\ e.tabs[s].protected = d.tabs[s].protected
      BY <1>1, <3>2 DEF DataTab
    <3> QED BY <2>1, <3>3, <3>4 DEF o
  <2>2. CASE s \notin W
    BY <1>1, <1>18, <2>2
  <2> QED BY <2>1, <2>2
<1>4. ASSUME NEW s \in W
      PROVE  LET o == e.tabs[s].header
                 F == Fields(l, s)
                 old == d.tabs[s].header
             IN  /\ Len(o) \in Nat /\ Len(o) <= Width
                 /\ Len(old) <= Len(o) /\ Len(row[s]) <= Len(o) /\ Len(F) <= Len(o)
                 /\ IsPrefix(F, o)
                 /\ \A c \in 1 .. Len(row[s]) : o[c] = row[s][c]
                 /\ \A c \in 1 .. Len(F) : o[c] = F[c]
                 /\ Len(old) > Len(F) /\ old[Len(F) + 1] = Open => o[Len(F) + 1] = Open
                 /\ \A c \in 1 .. Len(o) : \/ o[c] = Open
                                           \/ c \in 1 .. Len(F) /\ o[c] = F[c]
                                           \/ c \in 1 .. Len(old) /\ o[c] = old[c]
  <2>1. s \in Stream /\ e.tabs[s].header = Overlaid(row[s], d.tabs[s].header)
    BY <1>2, <1>3
  <2>2. d.tabs[s].header \in Seq(S) /\ Fields(l, s) \in Seq(S) /\ row[s] \in Seq(S)
    BY <1>1, <1>16, <2>1
  <2> DEFINE F == Fields(l, s)
             old == d.tabs[s].header
             q == row[s]
             o == Overlaid(q, old)
  <2>3. IsPrefix(F, q) /\ Len(q) <= Len(F) + 1 /\ (Len(q) = Len(F) + 1 => q[Len(F) + 1] = Open)
        /\ Len(q) <= Width /\ Len(old) <= Width
    BY <1>1, <1>16, <2>1
  <2> HIDE DEF F, old, q
  <2>4. F \in Seq(S) /\ old \in Seq(S) /\ q \in Seq(S)
    BY <2>2 DEF F, old, q
  <2>5. /\ Len(o) \in Nat /\ Len(o) \in {Len(q), Len(old)}
        /\ Len(old) <= Len(o) /\ Len(q) <= Len(o) /\ Len(F) <= Len(o)
        /\ IsPrefix(F, o)
        /\ \A c \in 1 .. Len(q) : o[c] = q[c]
        /\ \A c \in 1 .. Len(F) : o[c] = F[c]
        /\ Len(old) > Len(F) /\ old[Len(F) + 1] = Open => o[Len(F) + 1] = Open
        /\ \A c \in 1 .. Len(o) : \/ o[c] = Open
                                  \/ c \in 1 .. Len(F) /\ o[c] = F[c]
                                  \/ c \in 1 .. Len(old) /\ o[c] = old[c]
    BY <2>3, <2>4, RowWritten
  <2> HIDE DEF o
  <2>6. Len(o) <= Width
    BY <2>3, <2>5
  <2>7. e.tabs[s].header = o
    BY <2>1 DEF o, old, q
  <2> QED BY <2>5, <2>6, <2>7 DEF F, old, q
<1>5. e.tabs \in [Stream -> DataTab]
  BY <1>3, <1>18
<1>6. ASSUME NEW s \in Stream PROVE Len(e.tabs[s].header) <= Width
  <2>1. CASE s \in W
    BY <1>4, <2>1
  <2>2. CASE s \notin W
    BY <1>1, <1>3, <2>2
  <2> QED BY <2>1, <2>2
<1>7. Untouched(e)
  <2> SUFFICES ASSUME NEW s \in Stream, ~e.tabs[s].at PROVE e.tabs[s] = NoTab
    BY DEF Untouched
  <2>1. s \notin W
    BY <1>3, <1>15 DEF TabsThere
  <2> QED BY <1>3, <1>15, <2>1 DEF Untouched
<1>8. HeadersSet(l, d) => HeadersSet(l, e)
  <2> SUFFICES ASSUME HeadersSet(l, d), NEW s \in Present(l)
               PROVE  IsPrefix(Fields(l, s), e.tabs[s].header)
    BY DEF HeadersSet
  <2>1. CASE s \in W
    BY <1>4, <2>1
  <2>2. CASE s \notin W
    BY <1>3, <2>2 DEF HeadersSet, Present
  <2> QED BY <2>1, <2>2
<1>9. LinksSet(l, d) => LinksSet(l, e)
  <2> SUFFICES ASSUME LinksSet(l, d), NEW s \in Present(l) \cap Linked
               PROVE  /\ Len(e.tabs[s].header) > Len(Fields(l, s))
                      /\ e.tabs[s].header[Len(Fields(l, s)) + 1] = Open
    BY DEF LinksSet
  <2>1. /\ s \in Stream /\ Len(d.tabs[s].header) > Len(Fields(l, s))
        /\ d.tabs[s].header[Len(Fields(l, s)) + 1] = Open
    BY DEF LinksSet, Present
  <2>2. CASE s \in W
    <3>1. /\ Len(e.tabs[s].header) \in Nat /\ Len(d.tabs[s].header) <= Len(e.tabs[s].header)
          /\ e.tabs[s].header[Len(Fields(l, s)) + 1] = Open
      BY <1>4, <2>1, <2>2
    <3> QED BY <1>1, <2>1, <3>1
  <2>3. CASE s \notin W
    BY <1>3, <2>1, <2>3
  <2> QED BY <2>2, <2>3
<1>10. RulesSet(l, d) => RulesSet(l, e)
  BY <1>3 DEF RulesSet
<1>11. HeaderIs(l, d) => HeaderIs(l, e)
  <2> SUFFICES ASSUME HeaderIs(l, d), NEW s \in Stream, NEW c \in 1 .. Len(e.tabs[s].header),
                      e.tabs[s].header[c] # Open
               PROVE  c <= Len(Fields(l, s)) /\ e.tabs[s].header[c] = Fields(l, s)[c]
    BY DEF HeaderIs
  <2>1. CASE s \notin W
    BY <1>3, <2>1 DEF HeaderIs
  <2>2. CASE s \in W
    <3>1. \/ c \in 1 .. Len(Fields(l, s)) /\ e.tabs[s].header[c] = Fields(l, s)[c]
          \/ /\ c \in 1 .. Len(d.tabs[s].header)
             /\ e.tabs[s].header[c] = d.tabs[s].header[c]
      BY <1>4, <2>2
    <3> QED BY <1>1, <3>1 DEF HeaderIs
  <2> QED BY <2>1, <2>2
<1>12. CellsAre(l, d) => CellsAre(l, e)
  <2> SUFFICES ASSUME CellsAre(l, d), NEW s \in Stream, NEW c \in Column,
                      e.tabs[s].cells[c] # {}
               PROVE  /\ c <= Len(Fields(l, s)) /\ c <= Len(e.tabs[s].header)
                      /\ e.tabs[s].header[c] = Fields(l, s)[c]
                      /\ e.tabs[s].cells[c] = {Fields(l, s)[c]}
    BY DEF CellsAre
  <2>1. /\ c <= Len(Fields(l, s)) /\ c <= Len(d.tabs[s].header)
        /\ d.tabs[s].header[c] = Fields(l, s)[c]
        /\ e.tabs[s].cells[c] = {Fields(l, s)[c]}
    BY <1>3 DEF CellsAre
  <2>2. c \in 1 .. Len(Fields(l, s)) /\ c \in Nat
    BY <1>1, <2>1, SetupAssumption DEF Column
  <2>3. CASE s \in W
    <3>1. /\ e.tabs[s].header[c] = Fields(l, s)[c] /\ Len(e.tabs[s].header) \in Nat
          /\ Len(Fields(l, s)) <= Len(e.tabs[s].header)
      BY <1>4, <2>2, <2>3
    <3> QED BY <1>1, <2>1, <2>2, <3>1
  <2>4. CASE s \notin W
    BY <1>3, <2>1, <2>4
  <2> QED BY <2>3, <2>4
<1>13. KeptTabs(l, d, e)
  BY <1>3, <1>5, <1>6, <1>7, <1>8, <1>9, <1>10, <1>11, <1>12 DEF KeptTabs
<1>14. \A s \in W : /\ IsPrefix(Fields(l, s), e.tabs[s].header)
                    /\ Len(e.tabs[s].header) \in Nat
                    /\ Len(row[s]) <= Len(e.tabs[s].header)
                    /\ \A c \in 1 .. Len(row[s]) : e.tabs[s].header[c] = row[s][c]
  BY <1>4
<1>19. t \in [Stream -> DataTab]
  BY <1>5, <1>18
<1> HIDE DEF t
<1>20. /\ KeptRest(l, d, e) /\ e.examples = d.examples /\ e.sections = d.sections
       /\ e.charts = d.charts
  BY <1>15, <1>19, RestStays DEF e
<1>21. Kept(l, d, e)
  BY <1>13, <1>20 DEF Kept
<1> QED BY <1>3, <1>14, <1>17, <1>20, <1>21 DEF W, d, l

LEMMA KeptReached ==
    ASSUME NEW l, NEW d, NEW e, NEW at, Kept(l, d, e)
    PROVE  /\ Reached(l, at, d) => Reached(l, at, e)
           /\ ReachedHeaders(l, at, d) => ReachedHeaders(l, at, e)
BY DEF Kept, KeptTabs, KeptRest, Reached, ReachedHeaders, TabsThere, Guarded, Banded, Present

\* A call that keeps the rules keeps the invariant.
LEMMA QuietCall ==
    ASSUME SetupInv, NEW i \in Setups, NEW step \in Called, NEW accepted \in BOOLEAN, NEW new,
           Call(i, step, accepted, new), Shown(i, step, accepted, new),
           accepted => \A s \in Stream : new.tabs[s].rules = doc.tabs[s].rules,
           ruled' = ruled
    PROVE  SetupInv'
<1>1. Typed /\ RulesKept
  BY DEF SetupInv
<1>2. ruled' \in [Stream -> [AllFields -> EnumLists]]
  BY <1>1 DEF Typed
<1>3. Typed' /\ Apart' /\ Progress' /\ Aligned'
  BY <1>2, CallKeeps
<1>4. /\ setup[i].at = step
      /\ doc' = IF accepted THEN new ELSE doc
      /\ \A j \in Setups : j # i => setup'[j] = setup[j]
      /\ DOMAIN setup' = Setups
      /\ \/ accepted /\ setup'[i] = [setup[i] EXCEPT !.at = After(step), !.tab = doc'.made]
         \/ ~accepted /\ setup'[i] = [setup[i] EXCEPT !.at = "failed", !.tab = doc'.made]
         \/ accepted /\ setup'[i] = [setup[i] EXCEPT !.hurt = TRUE]
      /\ faults' \in 0 .. MaxFaults
      /\ layout' = layout /\ writer' = writer /\ begun' = begun
  BY CallIs DEF SetupInv
<1>5. ASSUME NEW s \in Stream
      PROVE  doc'.tabs[s].rules = doc.tabs[s].rules /\ (doc.tabs[s].at => doc'.tabs[s].at)
  <2>1. CASE accepted
    BY <1>4, <2>1 DEF Shown, Kept, KeptTabs
  <2>2. CASE ~accepted
    BY <1>4, <2>2
  <2> QED BY <2>1, <2>2
<1>6. ASSUME NEW j \in Setups, setup'[j].at = "enums" PROVE setup[j].at = "enums"
  <2>1. setup[i] \in [at : Step, seen : SeenType, tab : Nat, alone : BOOLEAN, hurt : BOOLEAN]
    BY <1>1 DEF Typed
  <2>2. After(step) # "enums"
    BY StepsAre DEF Called
  <2>3. CASE j = i
    BY <1>4, <1>6, <2>1, <2>2, <2>3
  <2>4. CASE j # i
    BY <1>4, <1>6, <2>4
  <2> QED BY <2>3, <2>4
<1>7. ColumnsKept' <=> ColumnsKept
  BY <1>4 DEF ColumnsKept
<1>8. RulesKept'
  BY <1>1, <1>4, <1>5, <1>6, <1>7 DEF RulesKept
<1> QED BY <1>3, <1>8 DEF SetupInv

LEMMA CreateTabsKeeps == ASSUME SetupInv, NEW i \in Setups, CreateTabs(i) PROVE SetupInv'
<1> DEFINE missing  == Present(layout) \ setup[i].seen.tabs
           taken    == setup[i].seen.sheet1 /\ missing # {}
           accepted == \A s \in missing : doc.tabs[s].at =>
                          taken /\ ~doc.sheet1 /\ s = CHOOSE m \in missing : TRUE
           t   == [s \in Stream |->
                      IF s \in missing /\ ~doc.tabs[s].at THEN EmptyTab ELSE doc.tabs[s]]
           new == [doc EXCEPT !.tabs = t, !.sheet1 = @ /\ ~taken]
<1>1. Call(i, "tabs", accepted, new) /\ ruled' = ruled
  BY DEF CreateTabs
<1>2. Typed /\ Progress
  BY DEF SetupInv
<1>3. /\ doc \in DocType /\ doc.tabs \in [Stream -> DataTab] /\ doc.made \in Nat
      /\ \A s \in Stream : Len(doc.tabs[s].header) <= Width
      /\ doc.sheet1 \in BOOLEAN /\ Untouched(doc)
  BY <1>2, DocTypes DEF Progress
<1>4. \A s \in Stream : /\ t[s] \in DataTab
                        /\ t[s].header = doc.tabs[s].header /\ t[s].rules = doc.tabs[s].rules
                        /\ t[s].cells = doc.tabs[s].cells /\ t[s].band = doc.tabs[s].band
                        /\ t[s].protected = doc.tabs[s].protected
                        /\ doc.tabs[s].at => t[s].at
                        /\ s \in missing => t[s].at
                        /\ ~t[s].at => t[s] = NoTab
  <2> SUFFICES ASSUME NEW s \in Stream
               PROVE  /\ t[s] \in DataTab
                      /\ t[s].header = doc.tabs[s].header /\ t[s].rules = doc.tabs[s].rules
                      /\ t[s].cells = doc.tabs[s].cells /\ t[s].band = doc.tabs[s].band
                      /\ t[s].protected = doc.tabs[s].protected
                      /\ doc.tabs[s].at => t[s].at
                      /\ s \in missing => t[s].at
                      /\ ~t[s].at => t[s] = NoTab
    OBVIOUS
  <2>1. CASE s \in missing /\ ~doc.tabs[s].at
    <3>1. t[s] = EmptyTab /\ doc.tabs[s] = NoTab
      BY <1>3, <2>1 DEF Untouched
    <3>2. /\ EmptyTab.at = TRUE /\ EmptyTab.header = NoTab.header /\ EmptyTab.rules = NoTab.rules
          /\ EmptyTab.cells = NoTab.cells /\ EmptyTab.band = NoTab.band
          /\ EmptyTab.protected = NoTab.protected
      BY DEF EmptyTab, NoTab
    <3>3. NoTab \in DataTab /\ EmptyTab = [NoTab EXCEPT !.at = TRUE]
      BY <1>3, <3>1 DEF EmptyTab
    <3>4. EmptyTab \in DataTab
      BY <3>3 DEF DataTab
    <3> QED BY <2>1, <3>1, <3>2, <3>4
  <2>2. CASE ~(s \in missing /\ ~doc.tabs[s].at)
    <3>1. t[s] = doc.tabs[s]
      BY <2>2
    <3> QED BY <1>3, <2>2, <3>1 DEF Untouched
  <2> QED BY <2>1, <2>2
<1>5. t \in [Stream -> DataTab]
  BY <1>4
<1>6. /\ new \in DocType /\ new.tabs = t /\ new.made = doc.made /\ new.overview = doc.overview
      /\ new.examples = doc.examples /\ new.charts = doc.charts /\ new.named = doc.named
  <2> HIDE DEF t, taken
  <2>1. (doc.sheet1 /\ ~taken) \in BOOLEAN
    OBVIOUS
  <2> QED BY <1>3, <1>5, <2>1 DEF DocType
<1> HIDE DEF new, t
<1>7. Kept(layout, doc, new)
  <2>1. KeptRest(layout, doc, new)
    BY <1>3, <1>6 DEF KeptRest, NamesSet
  <2>2. /\ HeadersSet(layout, doc) => HeadersSet(layout, new)
        /\ LinksSet(layout, doc) => LinksSet(layout, new)
    BY <1>4, <1>6 DEF HeadersSet, LinksSet, Present
  <2>3. RulesSet(layout, doc) => RulesSet(layout, new)
    BY <1>4, <1>6 DEF RulesSet
  <2>4. HeaderIs(layout, doc) => HeaderIs(layout, new)
    BY <1>4, <1>6 DEF HeaderIs
  <2>5. CellsAre(layout, doc) => CellsAre(layout, new)
    BY <1>4, <1>6 DEF CellsAre
  <2>6. Untouched(new)
    BY <1>4, <1>6 DEF Untouched
  <2> QED BY <1>3, <1>4, <1>5, <1>6, <2>1, <2>2, <2>3, <2>4, <2>5, <2>6 DEF Kept, KeptTabs
<1>8. TabsThere(layout, new)
  <2>1. ASSUME NEW s \in Present(layout) PROVE t[s].at
    <3>1. s \in Stream
      BY DEF Present
    <3>2. CASE s \in missing
      BY <1>4, <3>1, <3>2
    <3>3. CASE s \in setup[i].seen.tabs
      BY <1>2, <1>4, <3>1, <3>3 DEF Progress
    <3> QED BY <3>2, <3>3
  <2> QED BY <1>6, <2>1 DEF TabsThere
<1>9. Shown(i, "tabs", accepted, new)
  <2>1. After("tabs") = "headers"
    BY StepsAre
  <2>2. Reached(layout, "headers", new)
    BY <1>8 DEF Reached, PastTabs, PastHeaders, PastNames, PastEnums, PastIntro, PastCharts,
                PastProtect, PastFormat
  <2>3. ReachedHeaders(layout, "headers", new)
    BY DEF ReachedHeaders, PastHeaders, PastNames, PastEnums, PastIntro, PastCharts,
           PastProtect, PastFormat
  <2>4. ASSUME setup[i].at = "tabs", setup[i].alone, ~setup[i].hurt
        PROVE  /\ accepted
               /\ UpToDate(layout, [setup[i] EXCEPT !.at = "headers", !.tab = new.made], new)
    <3>1. UpToDate(layout, setup[i], doc)
      BY <1>2, <2>4 DEF Progress
    <3>2. setup[i].seen.tabs = {s \in Stream : doc.tabs[s].at}
      BY <2>4, <3>1 DEF UpToDate
    <3>3. \A s \in missing : s \in Stream /\ ~doc.tabs[s].at
      BY <3>2 DEF Present
    <3>4. setup[i] \in [at : Step, seen : SeenType, tab : Nat, alone : BOOLEAN, hurt : BOOLEAN]
      BY <1>2 DEF Typed
    <3>5. [setup[i] EXCEPT !.at = "headers", !.tab = new.made].at = "headers"
      BY <3>4
    <3>6. UpToDate(layout, [setup[i] EXCEPT !.at = "headers", !.tab = new.made], new)
      BY <3>5 DEF UpToDate, PastCharts, PastProtect, PastFormat
    <3> QED BY <3>3, <3>6
  <2> QED BY <1>7, <2>1, <2>2, <2>3, <2>4 DEF Shown
<1>10. accepted \in BOOLEAN
  OBVIOUS
<1>11. \A s \in Stream : new.tabs[s].rules = doc.tabs[s].rules
  BY <1>4, <1>6
<1> HIDE DEF accepted
<1> QED BY <1>1, <1>9, <1>10, <1>11, QuietCall DEF Called

LEMMA WriteHeadersKeeps == ASSUME SetupInv, NEW i \in Setups, WriteHeaders(i) PROVE SetupInv'
<1> DEFINE row == [s \in Present(layout) |-> Fields(layout, s)]
           new == HeadersOver(row)
           accepted == TRUE
<1>1. Call(i, "headers", accepted, new) /\ ruled' = ruled
  BY DEF WriteHeaders
<1>2. Typed /\ Progress /\ layout \in DOMAIN Layouts
  BY LayoutIs DEF SetupInv
<1>3. Untouched(doc)
  BY <1>2 DEF Progress
<1>4. setup[i].at = "headers"
  BY <1>1 DEF Call
<1>5. Reached(layout, "headers", doc)
  BY <1>2, <1>4 DEF Progress
<1>6. TabsThere(layout, doc)
  BY <1>5, StepIs DEF Reached
<1>7. RowsFit(row)
  <2> SUFFICES ASSUME NEW s \in Present(layout)
               PROVE  /\ Fields(layout, s) \in Seq(AllFields \cup {Open})
                      /\ Len(Fields(layout, s)) <= Width
                      /\ IsPrefix(Fields(layout, s), Fields(layout, s))
                      /\ Len(Fields(layout, s)) <= Len(Fields(layout, s)) + 1
                      /\ Len(Fields(layout, s)) # Len(Fields(layout, s)) + 1
    BY DEF RowsFit
  <2>1. s \in Stream
    BY DEF Present
  <2>2. /\ Fields(layout, s) \in Seq(AllFields) /\ Len(Fields(layout, s)) \in Nat
        /\ Len(Fields(layout, s)) < Width
    BY <1>2, <2>1, ColumnsAre
  <2>3. Fields(layout, s) \in Seq(AllFields \cup {Open})
    BY <2>2
  <2>4. IsPrefix(Fields(layout, s), Fields(layout, s))
    BY <2>2, <2>3, PrefixIs
  <2> QED BY <2>1, <2>2, <2>3, <2>4, SetupAssumption
<1>8. DOMAIN row = Present(layout)
  OBVIOUS
<1> HIDE DEF row
<1>9. /\ Kept(layout, doc, new)
      /\ \A s \in Present(layout) : IsPrefix(Fields(layout, s), new.tabs[s].header)
      /\ \A s \in Stream : new.tabs[s].rules = doc.tabs[s].rules
  BY <1>2, <1>3, <1>6, <1>7, <1>8, HeadersWritten
<1> HIDE DEF new
<1>10. Shown(i, "headers", accepted, new)
  <2>1. After("headers") = "listNames"
    BY StepsAre
  <2>2. Reached(layout, "listNames", new)
    BY <1>5, <1>9, KeptReached
       DEF Reached, PastTabs, PastHeaders, PastNames, PastEnums, PastIntro, PastCharts,
           PastProtect, PastFormat
  <2>3. ReachedHeaders(layout, "listNames", new)
    BY <1>9 DEF ReachedHeaders, HeadersSet
  <2>4. setup[i] \in [at : Step, seen : SeenType, tab : Nat, alone : BOOLEAN, hurt : BOOLEAN]
    BY <1>2 DEF Typed
  <2>5. [setup[i] EXCEPT !.at = "listNames", !.tab = new.made].at = "listNames"
    BY <2>4
  <2>6. UpToDate(layout, [setup[i] EXCEPT !.at = "listNames", !.tab = new.made], new)
    BY <2>5 DEF UpToDate, PastCharts, PastProtect, PastFormat
  <2> QED BY <1>9, <2>1, <2>2, <2>3, <2>6 DEF Shown
<1>11. accepted \in BOOLEAN
  OBVIOUS
<1> HIDE DEF accepted
<1> QED BY <1>1, <1>9, <1>10, <1>11, QuietCall DEF Called

\* A call that leaves the tabs alone and is about the rest of the document.
LEMMA ElsewhereKept ==
    ASSUME SetupInv, NEW new \in DocType, new.tabs = doc.tabs, KeptRest(layout, doc, new)
    PROVE  Kept(layout, doc, new)
<1>1. doc \in DocType /\ Untouched(doc) /\ \A s \in Stream : Len(doc.tabs[s].header) <= Width
  BY DEF SetupInv, Typed, Progress
<1> QED BY <1>1, TabsStay DEF Kept

LEMMA AtIs ==
    ASSUME Typed, NEW i \in Setups, NEW at, NEW made
    PROVE  /\ [setup[i] EXCEPT !.at = at, !.tab = made].at = at
           /\ [setup[i] EXCEPT !.at = at, !.tab = made].tab = made
           /\ [setup[i] EXCEPT !.at = at, !.tab = made].seen = setup[i].seen
<1>1. setup[i] \in [at : Step, seen : SeenType, tab : Nat, alone : BOOLEAN, hurt : BOOLEAN]
  BY DEF Typed
<1> QED BY <1>1

LEMMA WantedTypes ==
    ASSUME NEW l \in DOMAIN Layouts
    PROVE  Wanted(l) \in SUBSET (Stream \X AllFields \X Column)
<1>1. ASSUME NEW s \in Present(l), NEW n \in Positions(l, s)
      PROVE  n \in Stream \X AllFields \X Column
  <2>1. s \in Stream
    BY DEF Present
  <2>2. PICK c \in DOMAIN Fields(l, s) : n = <<s, Fields(l, s)[c], c>>
    BY DEF Positions
  <2>3. c \in 1 .. Len(Fields(l, s))
    BY <2>1, ColumnsAre
  <2>4. Fields(l, s)[c] \in AllFields /\ c \in Column
    BY <2>1, <2>3, ColumnsAre
  <2> QED BY <2>1, <2>2, <2>4
<1> QED BY <1>1 DEF Wanted

LEMMA RecreateNamesKeeps == ASSUME SetupInv, NEW i \in Setups, RecreateNames(i) PROVE SetupInv'
<1> DEFINE accepted == setup[i].seen.names = doc.names
           new == [doc EXCEPT !.named = OtherNames(Wanted(layout)) \cup Wanted(layout),
                              !.names = @ + 1]
<1>1. Call(i, "names", accepted, new) /\ ruled' = ruled
  BY DEF RecreateNames
<1>2. Typed /\ Progress /\ layout \in DOMAIN Layouts
  BY LayoutIs DEF SetupInv
<1>3. /\ doc \in DocType /\ doc.named \in SUBSET (Stream \X AllFields \X Column)
      /\ doc.names \in Nat /\ doc.made \in Nat
  BY <1>2, DocTypes
<1>4. OtherNames(Wanted(layout)) \cup Wanted(layout) \in SUBSET (Stream \X AllFields \X Column)
  BY <1>2, <1>3, WantedTypes DEF OtherNames
<1>5. /\ new \in DocType /\ new.tabs = doc.tabs /\ new.made = doc.made
      /\ new.overview = doc.overview /\ new.examples = doc.examples /\ new.charts = doc.charts
      /\ new.named = OtherNames(Wanted(layout)) \cup Wanted(layout)
  <2> DEFINE named == OtherNames(Wanted(layout)) \cup Wanted(layout)
  <2>1. named \in SUBSET (Stream \X AllFields \X Column)
    BY <1>4
  <2>3. doc.names + 1 \in Nat
    BY <1>3
  <2> DEFINE names == doc.names + 1
  <2> HIDE DEF named, names
  <2>4. [doc EXCEPT !.named = named, !.names = names] \in DocType
    BY <1>3, <2>1, <2>3 DEF DocType, names
  <2>2. [doc EXCEPT !.named = named, !.names = @ + 1] \in DocType
    BY <2>4 DEF names
  <2> QED BY <1>3, <2>2 DEF DocType, named
<1>6. NamesSet(layout, new)
  BY <1>5 DEF NamesSet, OtherNames
<1> HIDE DEF new
<1>7. Kept(layout, doc, new)
  <2>1. KeptRest(layout, doc, new)
    BY <1>3, <1>5, <1>6 DEF KeptRest
  <2> QED BY <1>5, <2>1, ElsewhereKept
<1>8. Shown(i, "names", accepted, new)
  <2>1. After("names") = "metaAfter"
    BY StepsAre
  <2>2. ASSUME setup[i].at = "names"
        PROVE  /\ Reached(layout, "metaAfter", new)
               /\ setup[i].alone \/ ~writer.beside => ReachedHeaders(layout, "metaAfter", new)
    <3>1. Reached(layout, "names", new)
      BY <1>2, <1>7, <2>2, KeptReached DEF Progress
    <3>2. setup[i].alone \/ ~writer.beside => ReachedHeaders(layout, "names", new)
      BY <1>2, <1>7, <2>2, KeptReached DEF Progress
    <3> QED BY <1>6, <3>1, <3>2
            DEF Reached, ReachedHeaders, PastTabs, PastHeaders, PastNames, PastEnums, PastIntro,
                PastCharts, PastProtect, PastFormat
  <2>3. ASSUME setup[i].at = "names", setup[i].alone, ~setup[i].hurt
        PROVE  /\ accepted
               /\ UpToDate(layout, [setup[i] EXCEPT !.at = "metaAfter", !.tab = new.made], new)
    <3>1. UpToDate(layout, setup[i], doc)
      BY <1>2, <2>3 DEF Progress
    <3>2. accepted
      BY <2>3, <3>1 DEF UpToDate
    <3>3. [setup[i] EXCEPT !.at = "metaAfter", !.tab = new.made].at = "metaAfter"
      BY <1>2, AtIs
    <3> QED BY <3>2, <3>3 DEF UpToDate, PastCharts, PastProtect, PastFormat
  <2> QED BY <1>7, <2>1, <2>2, <2>3 DEF Shown
<1>9. accepted \in BOOLEAN
  OBVIOUS
<1>10. \A s \in Stream : new.tabs[s].rules = doc.tabs[s].rules
  BY <1>5
<1> HIDE DEF accepted
<1> QED BY <1>1, <1>8, <1>9, <1>10, QuietCall DEF Called

LEMMA EnsureIntroKeeps == ASSUME SetupInv, NEW i \in Setups, EnsureIntro(i) PROVE SetupInv'
<1> DEFINE d == setup[i].seen
           only == d.sheet1 /\ ~d.overview /\ ~d.examples /\ d.tabs = {}
           accepted == d.overview \/ ~doc.overview
           new == [doc EXCEPT !.overview = TRUE, !.sheet1 = @ /\ ~only]
<1>1. Call(i, "intro", accepted, new) /\ ruled' = ruled
  BY DEF EnsureIntro
<1>2. Typed /\ Progress
  BY DEF SetupInv
<1>3. doc \in DocType /\ doc.made \in Nat /\ doc.sheet1 \in BOOLEAN
  BY <1>2, DocTypes
<1>4. /\ new \in DocType /\ new.tabs = doc.tabs /\ new.made = doc.made
      /\ new.overview = TRUE /\ new.examples = doc.examples /\ new.charts = doc.charts
      /\ new.named = doc.named
  <2> HIDE DEF only
  <2>1. (doc.sheet1 /\ ~only) \in BOOLEAN
    OBVIOUS
  <2> QED BY <1>3, <2>1 DEF DocType
<1> HIDE DEF new
<1>5. Kept(layout, doc, new)
  <2>1. KeptRest(layout, doc, new)
    BY <1>3, <1>4 DEF KeptRest, NamesSet
  <2> QED BY <1>4, <2>1, ElsewhereKept
<1>6. Shown(i, "intro", accepted, new)
  <2>1. After("intro") = "dropExamples"
    BY StepsAre
  <2>2. ASSUME setup[i].at = "intro"
        PROVE  /\ Reached(layout, "dropExamples", new)
               /\ setup[i].alone \/ ~writer.beside
                     => ReachedHeaders(layout, "dropExamples", new)
    <3>1. Reached(layout, "intro", new)
      BY <1>2, <1>5, <2>2, KeptReached DEF Progress
    <3>2. setup[i].alone \/ ~writer.beside => ReachedHeaders(layout, "intro", new)
      BY <1>2, <1>5, <2>2, KeptReached DEF Progress
    <3> QED BY <1>4, <3>1, <3>2
            DEF Reached, ReachedHeaders, PastTabs, PastHeaders, PastNames, PastEnums, PastIntro,
                PastCharts, PastProtect, PastFormat
  <2>3. ASSUME setup[i].at = "intro", setup[i].alone, ~setup[i].hurt
        PROVE  /\ accepted
               /\ UpToDate(layout, [setup[i] EXCEPT !.at = "dropExamples", !.tab = new.made], new)
    <3>1. UpToDate(layout, setup[i], doc)
      BY <1>2, <2>3 DEF Progress
    <3>2. /\ accepted
          /\ setup[i].seen.examples = new.examples /\ setup[i].seen.made = new.made
      BY <1>4, <2>3, <3>1 DEF UpToDate
    <3>3. LET st == [setup[i] EXCEPT !.at = "dropExamples", !.tab = new.made]
          IN  st.at = "dropExamples" /\ st.seen = setup[i].seen
      BY <1>2, AtIs
    <3> QED BY <3>2, <3>3 DEF UpToDate, PastCharts, PastProtect, PastFormat
  <2> QED BY <1>5, <2>1, <2>2, <2>3 DEF Shown
<1>7. accepted \in BOOLEAN
  OBVIOUS
<1>8. \A s \in Stream : new.tabs[s].rules = doc.tabs[s].rules
  BY <1>4
<1> HIDE DEF accepted
<1> QED BY <1>1, <1>6, <1>7, <1>8, QuietCall DEF Called

LEMMA SectionsAre ==
    /\ Sections(layout) \in SUBSET Examples
    /\ Cardinality(Sections(layout)) \in Nat
    /\ Sections(layout) = {} => Cardinality(Sections(layout)) = 0
<1>1. Sections(layout) \in SUBSET Examples /\ IsFiniteSet(Examples)
  BY SetupAssumption DEF Sections
<1>2. IsFiniteSet(Sections(layout))
  BY <1>1, FS_Subset
<1> QED BY <1>1, <1>2, FS_CardinalityType, FS_EmptySet

LEMMA DropExamplesKeeps == ASSUME SetupInv, NEW i \in Setups, DropExamples(i) PROVE SetupInv'
<1> DEFINE seen == setup[i].seen
           drops == Sections(layout) # {} /\ seen.examples
           accepted == drops => doc.examples /\ doc.made = seen.made
           new == IF drops THEN [doc EXCEPT !.examples = FALSE, !.sections = {}, !.charts = 0]
                  ELSE doc
<1>1. Call(i, "dropExamples", accepted, new) /\ ruled' = ruled
  BY DEF DropExamples
<1>2. Typed /\ Progress
  BY DEF SetupInv
<1>3. doc \in DocType /\ doc.made \in Nat
  BY <1>2, DocTypes
<1>4. /\ new \in DocType /\ new.tabs = doc.tabs /\ new.made = doc.made
      /\ new.overview = doc.overview /\ new.named = doc.named
      /\ drops => ~new.examples /\ new.charts = 0
      /\ ~drops => new.examples = doc.examples /\ new.charts = doc.charts
  <2>1. CASE drops
    <3>1. new = [doc EXCEPT !.examples = FALSE, !.sections = {}, !.charts = 0]
      BY <2>1
    <3> HIDE DEF new
    <3> QED BY <1>3, <2>1, <3>1 DEF DocType
  <2>2. CASE ~drops
    BY <1>3, <2>2
  <2> QED BY <2>1, <2>2
<1> HIDE DEF new
<1>5. Kept(layout, doc, new)
  <2>1. KeptRest(layout, doc, new)
    BY <1>3, <1>4 DEF KeptRest, NamesSet
  <2> QED BY <1>4, <2>1, ElsewhereKept
<1>6. Shown(i, "dropExamples", accepted, new)
  <2>1. After("dropExamples") = "examples"
    BY StepsAre
  <2>2. ASSUME setup[i].at = "dropExamples"
        PROVE  /\ Reached(layout, "examples", new)
               /\ setup[i].alone \/ ~writer.beside => ReachedHeaders(layout, "examples", new)
    <3>1. Reached(layout, "dropExamples", new)
      BY <1>2, <1>5, <2>2, KeptReached DEF Progress
    <3>2. setup[i].alone \/ ~writer.beside => ReachedHeaders(layout, "dropExamples", new)
      BY <1>2, <1>5, <2>2, KeptReached DEF Progress
    <3> QED BY <3>1, <3>2
            DEF Reached, ReachedHeaders, PastTabs, PastHeaders, PastNames, PastEnums, PastIntro,
                PastCharts, PastProtect, PastFormat
  <2>3. ASSUME setup[i].at = "dropExamples", setup[i].alone, ~setup[i].hurt
        PROVE  /\ accepted
               /\ UpToDate(layout, [setup[i] EXCEPT !.at = "examples", !.tab = new.made], new)
    <3>1. UpToDate(layout, setup[i], doc)
      BY <1>2, <2>3 DEF Progress
    <3>2. setup[i].seen.examples = doc.examples /\ setup[i].seen.made = doc.made
      BY <2>3, <3>1 DEF UpToDate
    <3>3. accepted
      BY <3>2
    <3>4. Sections(layout) # {} => ~new.examples
      BY <1>4, <3>2
    <3>5. [setup[i] EXCEPT !.at = "examples", !.tab = new.made].at = "examples"
      BY <1>2, AtIs
    <3> QED BY <3>3, <3>4, <3>5 DEF UpToDate, PastCharts, PastProtect, PastFormat
  <2> QED BY <1>5, <2>1, <2>2, <2>3 DEF Shown
<1>7. accepted \in BOOLEAN
  OBVIOUS
<1>8. \A s \in Stream : new.tabs[s].rules = doc.tabs[s].rules
  BY <1>4
<1> HIDE DEF accepted
<1>9. Call(i, "dropExamples", accepted, new)
  BY <1>1
<1> QED BY <1>1, <1>6, <1>7, <1>8, <1>9, QuietCall DEF Called

LEMMA CreateExamplesKeeps == ASSUME SetupInv, NEW i \in Setups, CreateExamples(i) PROVE SetupInv'
<1> DEFINE wanted == Sections(layout)
           accepted == wanted # {} => ~doc.examples
           new == IF wanted = {} THEN doc
                  ELSE [doc EXCEPT !.examples = TRUE, !.made = @ + 1, !.sections = wanted]
<1>1. Call(i, "examples", accepted, new) /\ ruled' = ruled
  BY DEF CreateExamples
<1>2. Typed /\ Progress
  BY DEF SetupInv
<1>3. doc \in DocType /\ doc.made \in Nat /\ wanted \in SUBSET Examples
  BY <1>2, DocTypes, SectionsAre
<1>4. /\ new \in DocType /\ new.tabs = doc.tabs /\ new.made \in Nat /\ doc.made <= new.made
      /\ new.overview = doc.overview /\ new.named = doc.named /\ new.charts = doc.charts
      /\ wanted # {} => new.examples /\ new.sections = wanted
      /\ wanted = {} => new.examples = doc.examples
  <2>1. CASE wanted # {}
    <3> DEFINE made == doc.made + 1
    <3>1. made \in Nat /\ doc.made <= made
      BY <1>3
    <3>2. new = [doc EXCEPT !.examples = TRUE, !.made = made, !.sections = wanted]
      BY <2>1
    <3> HIDE DEF new, wanted, made
    <3> QED BY <1>3, <2>1, <3>1, <3>2 DEF DocType
  <2>2. CASE wanted = {}
    BY <1>3, <2>2
  <2> QED BY <2>1, <2>2
<1> HIDE DEF new
<1>5. Kept(layout, doc, new)
  <2>1. KeptRest(layout, doc, new)
    BY <1>3, <1>4 DEF KeptRest, NamesSet
  <2> QED BY <1>4, <2>1, ElsewhereKept
<1>6. Shown(i, "examples", accepted, new)
  <2>1. After("examples") = "charts"
    BY StepsAre
  <2>2. ASSUME setup[i].at = "examples"
        PROVE  /\ Reached(layout, "charts", new)
               /\ setup[i].alone \/ ~writer.beside => ReachedHeaders(layout, "charts", new)
    <3>1. Reached(layout, "examples", new)
      BY <1>2, <1>5, <2>2, KeptReached DEF Progress
    <3>2. setup[i].alone \/ ~writer.beside => ReachedHeaders(layout, "examples", new)
      BY <1>2, <1>5, <2>2, KeptReached DEF Progress
    <3> QED BY <3>1, <3>2
            DEF Reached, ReachedHeaders, PastTabs, PastHeaders, PastNames, PastEnums, PastIntro,
                PastCharts, PastProtect, PastFormat
  <2>3. ASSUME setup[i].at = "examples", setup[i].alone, ~setup[i].hurt
        PROVE  /\ accepted
               /\ UpToDate(layout, [setup[i] EXCEPT !.at = "charts", !.tab = new.made], new)
    <3>1. UpToDate(layout, setup[i], doc)
      BY <1>2, <2>3 DEF Progress
    <3>2. wanted # {} => ~doc.examples
      BY <2>3, <3>1 DEF UpToDate
    <3>3. ~doc.examples => doc.charts = 0
      BY <1>2 DEF Progress
    <3>4. wanted # {} => /\ new.examples /\ new.sections = wanted /\ new.charts = 0
      BY <1>4, <3>2, <3>3
    <3>5. LET st == [setup[i] EXCEPT !.at = "charts", !.tab = new.made]
          IN  st.at = "charts" /\ st.tab = new.made
      BY <1>2, AtIs
    <3> QED BY <3>2, <3>4, <3>5 DEF UpToDate, PastCharts, PastProtect, PastFormat
  <2> QED BY <1>5, <2>1, <2>2, <2>3 DEF Shown
<1>7. accepted \in BOOLEAN
  OBVIOUS
<1>8. \A s \in Stream : new.tabs[s].rules = doc.tabs[s].rules
  BY <1>4
<1> HIDE DEF accepted
<1> QED BY <1>1, <1>6, <1>7, <1>8, QuietCall DEF Called

LEMMA AddChartsKeeps == ASSUME SetupInv, NEW i \in Setups, AddCharts(i) PROVE SetupInv'
<1> DEFINE wanted == Sections(layout)
           accepted == wanted = {} \/ (doc.examples /\ doc.made = setup[i].tab)
           new == [doc EXCEPT !.charts = @ + Cardinality(Sections(layout))]
<1>1. Call(i, "charts", accepted, new) /\ ruled' = ruled
  BY DEF AddCharts
<1>2. Typed /\ Progress
  BY DEF SetupInv
<1>3. /\ doc \in DocType /\ doc.made \in Nat /\ doc.charts \in Nat
      /\ Cardinality(Sections(layout)) \in Nat
      /\ wanted = {} => Cardinality(Sections(layout)) = 0
  BY <1>2, DocTypes, SectionsAre
<1>4. /\ new \in DocType /\ new.tabs = doc.tabs /\ new.made = doc.made
      /\ new.overview = doc.overview /\ new.named = doc.named /\ new.examples = doc.examples
      /\ new.sections = doc.sections
      /\ new.charts = doc.charts + Cardinality(Sections(layout))
  <2> DEFINE charts == doc.charts + Cardinality(Sections(layout))
  <2>1. charts \in Nat
    BY <1>3
  <2>2. new = [doc EXCEPT !.charts = charts]
    OBVIOUS
  <2> HIDE DEF new, charts
  <2>3. /\ new \in DocType /\ new.tabs = doc.tabs /\ new.made = doc.made
        /\ new.overview = doc.overview /\ new.named = doc.named /\ new.examples = doc.examples
        /\ new.sections = doc.sections /\ new.charts = charts
    BY <1>3, <2>1, <2>2 DEF DocType
  <2> QED BY <2>3 DEF charts
<1> HIDE DEF new
<1>5. accepted => Kept(layout, doc, new)
  <2> SUFFICES ASSUME accepted PROVE KeptRest(layout, doc, new)
    BY <1>4, ElsewhereKept
  <2>1. ~doc.examples => new.charts = doc.charts
    BY <1>3, <1>4
  <2> QED BY <1>3, <1>4, <2>1 DEF KeptRest, NamesSet
<1>6. Shown(i, "charts", accepted, new)
  <2>1. After("charts") = "protect"
    BY StepsAre
  <2>2. ASSUME setup[i].at = "charts", accepted
        PROVE  /\ Reached(layout, "protect", new)
               /\ setup[i].alone \/ ~writer.beside => ReachedHeaders(layout, "protect", new)
    <3>1. Reached(layout, "charts", new)
      BY <1>2, <1>5, <2>2, KeptReached DEF Progress
    <3>2. setup[i].alone \/ ~writer.beside => ReachedHeaders(layout, "charts", new)
      BY <1>2, <1>5, <2>2, KeptReached DEF Progress
    <3> QED BY <3>1, <3>2
            DEF Reached, ReachedHeaders, PastTabs, PastHeaders, PastNames, PastEnums, PastIntro,
                PastCharts, PastProtect, PastFormat
  <2>3. ASSUME setup[i].at = "charts", setup[i].alone, ~setup[i].hurt
        PROVE  /\ accepted
               /\ UpToDate(layout, [setup[i] EXCEPT !.at = "protect", !.tab = new.made], new)
    <3>1. UpToDate(layout, setup[i], doc)
      BY <1>2, <2>3 DEF Progress
    <3>2. wanted # {} => /\ doc.examples /\ setup[i].tab = doc.made
                         /\ doc.sections = wanted /\ doc.charts = 0
      BY <2>3, <3>1 DEF UpToDate
    <3>3. wanted # {} => new.sections = wanted /\ new.charts = Cardinality(new.sections)
      BY <1>3, <1>4, <3>2
    <3>4. [setup[i] EXCEPT !.at = "protect", !.tab = new.made].at = "protect"
      BY <1>2, AtIs
    <3> QED BY <3>2, <3>3, <3>4 DEF UpToDate, PastCharts, PastProtect, PastFormat
  <2> QED BY <1>5, <2>1, <2>2, <2>3 DEF Shown
<1>7. accepted \in BOOLEAN
  OBVIOUS
<1>8. \A s \in Stream : new.tabs[s].rules = doc.tabs[s].rules
  BY <1>4
<1> HIDE DEF accepted
<1> QED BY <1>1, <1>6, <1>7, <1>8, QuietCall DEF Called

\* A call that only counts in the tabs of the layout.
LEMMA CountsKept ==
    ASSUME SetupInv, TabsThere(layout, doc), NEW t,
           t = [s \in Stream |-> t[s]],
           \A s \in Stream :
               /\ t[s] \in DataTab
               /\ t[s].header = doc.tabs[s].header /\ t[s].cells = doc.tabs[s].cells
               /\ t[s].at = doc.tabs[s].at
               /\ doc.tabs[s].protected <= t[s].protected /\ doc.tabs[s].band <= t[s].band
               /\ s \notin Present(layout) => t[s] = doc.tabs[s],
           \/ \A s \in Stream : t[s].rules = doc.tabs[s].rules
           \/ \A s \in Stream : \A c \in 1 .. Len(Fields(layout, s)) :
                 t[s].rules[c] = Enum(layout, s, Fields(layout, s)[c])
    PROVE  Kept(layout, doc, [doc EXCEPT !.tabs = t])
<1> DEFINE new == [doc EXCEPT !.tabs = t]
<1>1. /\ doc \in DocType /\ Untouched(doc) /\ \A s \in Stream : Len(doc.tabs[s].header) <= Width
  BY DEF SetupInv, Typed, Progress
<1>2. t \in [Stream -> DataTab]
  OBVIOUS
<1>3. new.tabs = t /\ KeptRest(layout, doc, new)
  BY <1>1, <1>2, RestStays
<1> HIDE DEF new
<1>4. /\ HeadersSet(layout, doc) => HeadersSet(layout, new)
      /\ LinksSet(layout, doc) => LinksSet(layout, new)
  BY <1>3 DEF HeadersSet, LinksSet, Present
<1>5. RulesSet(layout, doc) => RulesSet(layout, new)
  BY <1>3 DEF RulesSet
<1>6. HeaderIs(layout, doc) => HeaderIs(layout, new)
  BY <1>3 DEF HeaderIs
<1>7. CellsAre(layout, doc) => CellsAre(layout, new)
  BY <1>3 DEF CellsAre
<1>8. Untouched(new)
  BY <1>1, <1>3 DEF Untouched, TabsThere
<1>9. ASSUME NEW s \in Stream
      PROVE  /\ doc.tabs[s].protected > 0 => new.tabs[s].protected > 0
             /\ doc.tabs[s].band > 0 => new.tabs[s].band > 0
  <2>1. doc.tabs[s].protected \in Nat /\ doc.tabs[s].band \in Nat
    BY <1>1, TabTypes
  <2>2. t[s].protected \in Nat /\ t[s].band \in Nat
    BY DEF DataTab
  <2> QED BY <1>3, <2>1, <2>2
<1>10. KeptTabs(layout, doc, new)
  BY <1>1, <1>2, <1>3, <1>4, <1>5, <1>6, <1>7, <1>8, <1>9 DEF KeptTabs
<1> QED BY <1>3, <1>10 DEF Kept, new

LEMMA ProtectKeeps == ASSUME SetupInv, NEW i \in Setups, Protect(i) PROVE SetupInv'
<1> DEFINE t == [s \in Stream |->
                   [doc.tabs[s] EXCEPT !.protected =
                       IF s \in Present(layout) /\ s \notin setup[i].seen.protected
                       THEN @ + 1 ELSE @]]
           new == [doc EXCEPT !.tabs = t]
           accepted == TRUE
<1>1. Call(i, "protect", accepted, new) /\ ruled' = ruled
  BY DEF Protect
<1>2. Typed /\ Progress
  BY DEF SetupInv
<1>3. doc \in DocType
  BY <1>2, DocTypes
<1>4. setup[i].at = "protect"
  BY <1>1 DEF Call
<1>5. Reached(layout, "protect", doc)
  BY <1>2, <1>4 DEF Progress
<1>6. TabsThere(layout, doc)
  BY <1>5, StepIs DEF Reached
<1>7. ASSUME NEW s \in Stream
      PROVE  /\ t[s] \in DataTab
             /\ t[s].header = doc.tabs[s].header /\ t[s].cells = doc.tabs[s].cells
             /\ t[s].rules = doc.tabs[s].rules /\ t[s].at = doc.tabs[s].at
             /\ doc.tabs[s].protected <= t[s].protected /\ doc.tabs[s].band <= t[s].band
             /\ s \notin Present(layout) => t[s] = doc.tabs[s]
             /\ s \in Present(layout) => t[s].protected > 0
  <2>1. /\ doc.tabs[s] \in DataTab /\ doc.tabs[s].protected \in Nat /\ doc.tabs[s].band \in Nat
    BY <1>3, TabTypes
  <2>2. CASE s \in Present(layout) /\ s \notin setup[i].seen.protected
    <3> DEFINE p == doc.tabs[s].protected + 1
    <3>1. p \in Nat /\ doc.tabs[s].protected <= p /\ p > 0
      BY <2>1
    <3>2. t[s] = [doc.tabs[s] EXCEPT !.protected = p]
      BY <2>2
    <3> HIDE DEF t, p
    <3> QED BY <2>1, <2>2, <3>1, <3>2 DEF DataTab
  <2>3. CASE ~(s \in Present(layout) /\ s \notin setup[i].seen.protected)
    <3>1. t[s] = doc.tabs[s]
      <4>1. t[s] = [doc.tabs[s] EXCEPT !.protected = @]
        BY <2>3
      <4> HIDE DEF t
      <4> QED BY <2>1, <4>1 DEF DataTab
    <3>2. s \in Present(layout) => doc.tabs[s].protected > 0
      BY <1>2, <2>3 DEF Progress
    <3> HIDE DEF t
    <3> QED BY <2>1, <3>1, <3>2
  <2> QED BY <2>2, <2>3
<1>8. t = [s \in Stream |-> t[s]]
  OBVIOUS
<1> HIDE DEF t
<1>9. Kept(layout, doc, new)
  BY <1>6, <1>7, <1>8, CountsKept
<1>10. t \in [Stream -> DataTab]
  BY <1>7, <1>8
<1>11. /\ new.tabs = t /\ new.made = doc.made /\ new.sections = doc.sections
       /\ new.charts = doc.charts
  BY <1>3, <1>10, RestStays
<1> HIDE DEF new
<1>12. Guarded(layout, new)
  BY <1>7, <1>11 DEF Guarded, Present
<1>13. Shown(i, "protect", accepted, new)
  <2>1. After("protect") = "listBands"
    BY StepsAre
  <2>2. /\ Reached(layout, "listBands", new)
        /\ setup[i].alone \/ ~writer.beside => ReachedHeaders(layout, "listBands", new)
    <3>1. Reached(layout, "protect", new)
      BY <1>5, <1>9, KeptReached
    <3>2. setup[i].alone \/ ~writer.beside => ReachedHeaders(layout, "protect", new)
      BY <1>2, <1>4, <1>9, KeptReached DEF Progress
    <3> QED BY <1>12, <3>1, <3>2
            DEF Reached, ReachedHeaders, PastTabs, PastHeaders, PastNames, PastEnums, PastIntro,
                PastCharts, PastProtect, PastFormat
  <2>3. ASSUME setup[i].alone, ~setup[i].hurt
        PROVE  UpToDate(layout, [setup[i] EXCEPT !.at = "listBands", !.tab = new.made], new)
    <3>1. UpToDate(layout, setup[i], doc)
      BY <1>2, <2>3 DEF Progress
    <3>2. Sections(layout) # {} => /\ new.sections = Sections(layout)
                                   /\ new.charts = Cardinality(new.sections)
      BY <1>4, <1>11, <3>1 DEF UpToDate, PastCharts
    <3>3. [setup[i] EXCEPT !.at = "listBands", !.tab = new.made].at = "listBands"
      BY <1>2, AtIs
    <3> QED BY <3>2, <3>3 DEF UpToDate, PastCharts, PastProtect, PastFormat
  <2> QED BY <1>9, <2>1, <2>2, <2>3 DEF Shown
<1>14. accepted \in BOOLEAN
  OBVIOUS
<1>15. \A s \in Stream : new.tabs[s].rules = doc.tabs[s].rules
  BY <1>7, <1>11
<1> HIDE DEF accepted
<1> QED BY <1>1, <1>13, <1>14, <1>15, QuietCall DEF Called

LEMMA FormatKeeps == ASSUME SetupInv, NEW i \in Setups, Format(i) PROVE SetupInv'
<1> DEFINE t == [s \in Stream |->
                   [doc.tabs[s] EXCEPT !.band = IF s \in Present(layout) THEN @ + 1 ELSE @]]
           new == [doc EXCEPT !.tabs = t]
           accepted == \A s \in Present(layout) : setup[i].seen.band[s] = doc.tabs[s].band
<1>1. Call(i, "format", accepted, new) /\ ruled' = ruled
  BY DEF Format
<1>2. Typed /\ Progress
  BY DEF SetupInv
<1>3. doc \in DocType
  BY <1>2, DocTypes
<1>4. setup[i].at = "format"
  BY <1>1 DEF Call
<1>5. Reached(layout, "format", doc)
  BY <1>2, <1>4 DEF Progress
<1>6. TabsThere(layout, doc)
  BY <1>5, StepIs DEF Reached
<1>7. ASSUME NEW s \in Stream
      PROVE  /\ t[s] \in DataTab
             /\ t[s].header = doc.tabs[s].header /\ t[s].cells = doc.tabs[s].cells
             /\ t[s].rules = doc.tabs[s].rules /\ t[s].at = doc.tabs[s].at
             /\ doc.tabs[s].protected <= t[s].protected /\ doc.tabs[s].band <= t[s].band
             /\ s \notin Present(layout) => t[s] = doc.tabs[s]
             /\ s \in Present(layout) => t[s].band > 0
  <2>1. /\ doc.tabs[s] \in DataTab /\ doc.tabs[s].protected \in Nat /\ doc.tabs[s].band \in Nat
    BY <1>3, TabTypes
  <2>2. CASE s \in Present(layout)
    <3> DEFINE p == doc.tabs[s].band + 1
    <3>1. p \in Nat /\ doc.tabs[s].band <= p /\ p > 0
      BY <2>1
    <3>2. t[s] = [doc.tabs[s] EXCEPT !.band = p]
      BY <2>2
    <3> HIDE DEF t, p
    <3> QED BY <2>1, <2>2, <3>1, <3>2 DEF DataTab
  <2>3. CASE s \notin Present(layout)
    <3>1. t[s] = doc.tabs[s]
      <4>1. t[s] = [doc.tabs[s] EXCEPT !.band = @]
        BY <2>3
      <4> HIDE DEF t
      <4> QED BY <2>1, <4>1 DEF DataTab
    <3> HIDE DEF t
    <3> QED BY <2>1, <2>3, <3>1
  <2> QED BY <2>2, <2>3
<1>8. t = [s \in Stream |-> t[s]]
  OBVIOUS
<1> HIDE DEF t
<1>9. Kept(layout, doc, new)
  BY <1>6, <1>7, <1>8, CountsKept
<1>10. t \in [Stream -> DataTab]
  BY <1>7, <1>8
<1>11. /\ new.tabs = t /\ new.made = doc.made /\ new.sections = doc.sections
       /\ new.charts = doc.charts
  BY <1>3, <1>10, RestStays
<1> HIDE DEF new
<1>12. Banded(layout, new)
  BY <1>7, <1>11 DEF Banded, Present
<1>13. Shown(i, "format", accepted, new)
  <2>1. After("format") = "links"
    BY StepsAre
  <2>2. /\ Reached(layout, "links", new)
        /\ setup[i].alone \/ ~writer.beside => ReachedHeaders(layout, "links", new)
    <3>1. Reached(layout, "format", new)
      BY <1>5, <1>9, KeptReached
    <3>2. setup[i].alone \/ ~writer.beside => ReachedHeaders(layout, "format", new)
      BY <1>2, <1>4, <1>9, KeptReached DEF Progress
    <3> QED BY <1>12, <3>1, <3>2
            DEF Reached, ReachedHeaders, PastTabs, PastHeaders, PastNames, PastEnums, PastIntro,
                PastCharts, PastProtect, PastFormat
  <2>3. ASSUME setup[i].alone, ~setup[i].hurt
        PROVE  /\ accepted
               /\ UpToDate(layout, [setup[i] EXCEPT !.at = "links", !.tab = new.made], new)
    <3>1. UpToDate(layout, setup[i], doc)
      BY <1>2, <2>3 DEF Progress
    <3>2. accepted
      BY <1>4, <3>1 DEF UpToDate, Present
    <3>3. Sections(layout) # {} => /\ new.sections = Sections(layout)
                                   /\ new.charts = Cardinality(new.sections)
      BY <1>4, <1>11, <3>1 DEF UpToDate, PastCharts, PastProtect
    <3>4. [setup[i] EXCEPT !.at = "links", !.tab = new.made].at = "links"
      BY <1>2, AtIs
    <3> QED BY <3>2, <3>3, <3>4 DEF UpToDate, PastCharts, PastProtect, PastFormat
  <2> QED BY <1>9, <2>1, <2>2, <2>3 DEF Shown
<1>14. accepted \in BOOLEAN
  OBVIOUS
<1>15. \A s \in Stream : new.tabs[s].rules = doc.tabs[s].rules
  BY <1>7, <1>11
<1> HIDE DEF accepted
<1> QED BY <1>1, <1>13, <1>14, <1>15, QuietCall DEF Called

\* The columns of a layout with the link behind them.
LEMMA LinkedHeaderIs ==
    ASSUME Typed, NEW s \in Stream
    PROVE  /\ LinkedHeader(s) \in Seq(AllFields \cup {Open})
           /\ Len(LinkedHeader(s)) = Len(Fields(layout, s)) + 1
           /\ Len(LinkedHeader(s)) <= Width
           /\ IsPrefix(Fields(layout, s), LinkedHeader(s))
           /\ LinkedHeader(s)[Len(Fields(layout, s)) + 1] = Open
<1> DEFINE F == Fields(layout, s)
<1>1. F \in Seq(AllFields) /\ Len(F) \in Nat /\ Len(F) < Width /\ Width \in Nat
  BY LayoutIs, ColumnsAre, SetupAssumption
<1> HIDE DEF F
<1>2. F \in Seq(AllFields \cup {Open}) /\ Open \in AllFields \cup {Open}
  BY <1>1
<1>3. /\ Append(F, Open) \in Seq(AllFields \cup {Open}) /\ Len(Append(F, Open)) = Len(F) + 1
      /\ \A c \in 1 .. Len(F) : Append(F, Open)[c] = F[c]
      /\ Append(F, Open)[Len(F) + 1] = Open
  BY <1>2, AppendProperties
<1>4. IsPrefix(F, Append(F, Open))
  <2> DEFINE r == Append(F, Open)
  <2>1. r \in Seq(AllFields \cup {Open}) /\ Len(F) <= Len(r) /\ \A c \in 1 .. Len(F) : r[c] = F[c]
    BY <1>1, <1>3
  <2> HIDE DEF r
  <2>2. IsPrefix(F, r)
    BY <1>2, <2>1, PrefixIs
  <2> QED BY <2>2 DEF r
<1>5. LinkedHeader(s) = Append(F, Open)
  BY DEF LinkedHeader, F
<1> QED BY <1>1, <1>3, <1>4, <1>5 DEF F

LEMMA WriteLinksKeeps == ASSUME SetupInv, NEW i \in Setups, WriteLinks(i) PROVE SetupInv'
<1> DEFINE W == Present(layout) \cap Linked
           row == [s \in W |-> LinkedHeader(s)]
           new == HeadersOver(row)
           accepted == TRUE
<1>1. Call(i, "links", accepted, new) /\ ruled' = ruled
  BY DEF WriteLinks
<1>2. Typed /\ Progress /\ layout \in DOMAIN Layouts
  BY LayoutIs DEF SetupInv
<1>3. Untouched(doc)
  BY <1>2 DEF Progress
<1>4. setup[i].at = "links"
  BY <1>1 DEF Call
<1>5. Reached(layout, "links", doc)
  BY <1>2, <1>4 DEF Progress
<1>6. TabsThere(layout, doc)
  BY <1>5, StepIs DEF Reached
<1>7. RowsFit(row)
  BY <1>2, LinkedHeaderIs DEF RowsFit, Present
<1>8. DOMAIN row = W /\ \A s \in W : s \in Stream /\ row[s] = LinkedHeader(s)
  BY DEF Present
<1> HIDE DEF row
<1>9. /\ Kept(layout, doc, new)
      /\ \A s \in W : /\ Len(new.tabs[s].header) \in Nat
                      /\ Len(row[s]) <= Len(new.tabs[s].header)
                      /\ \A c \in 1 .. Len(row[s]) : new.tabs[s].header[c] = row[s][c]
      /\ \A s \in Stream : new.tabs[s].rules = doc.tabs[s].rules
      /\ new.sections = doc.sections /\ new.charts = doc.charts
  BY <1>2, <1>3, <1>6, <1>7, <1>8, HeadersWritten
<1> HIDE DEF new
<1>10. LinksSet(layout, new)
  <2> SUFFICES ASSUME NEW s \in W
               PROVE  /\ Len(new.tabs[s].header) > Len(Fields(layout, s))
                      /\ new.tabs[s].header[Len(Fields(layout, s)) + 1] = Open
    BY DEF LinksSet
  <2>1. Len(Fields(layout, s)) \in Nat
    BY <1>2, <1>8, ColumnsAre
  <2>2. /\ Len(row[s]) = Len(Fields(layout, s)) + 1
        /\ row[s][Len(Fields(layout, s)) + 1] = Open
    BY <1>2, <1>8, LinkedHeaderIs
  <2>3. Len(Fields(layout, s)) + 1 \in 1 .. Len(row[s])
    BY <2>1, <2>2
  <2> QED BY <1>9, <2>1, <2>2, <2>3
<1>11. Shown(i, "links", accepted, new)
  <2>1. After("links") = "done"
    BY StepsAre
  <2>2. Reached(layout, "links", new)
    BY <1>5, <1>9, KeptReached
  <2>3. setup[i].alone \/ ~writer.beside => ReachedHeaders(layout, "links", new)
    BY <1>2, <1>4, <1>9, KeptReached DEF Progress
  <2>4. /\ Reached(layout, "done", new)
        /\ setup[i].alone \/ ~writer.beside => ReachedHeaders(layout, "done", new)
    BY <1>10, <2>2, <2>3
       DEF Reached, ReachedHeaders, PastTabs, PastHeaders, PastNames, PastEnums, PastIntro,
           PastCharts, PastProtect, PastFormat
  <2>5. ASSUME setup[i].alone, ~setup[i].hurt
        PROVE  UpToDate(layout, [setup[i] EXCEPT !.at = "done", !.tab = new.made], new)
    <3>1. UpToDate(layout, setup[i], doc)
      BY <1>2, <2>5 DEF Progress
    <3>2. Sections(layout) # {} => /\ new.sections = Sections(layout)
                                   /\ new.charts = Cardinality(new.sections)
      BY <1>4, <1>9, <3>1 DEF UpToDate, PastCharts, PastProtect, PastFormat
    <3>3. [setup[i] EXCEPT !.at = "done", !.tab = new.made].at = "done"
      BY <1>2, AtIs
    <3> QED BY <3>2, <3>3 DEF UpToDate, PastCharts, PastProtect, PastFormat
  <2> QED BY <1>9, <2>1, <2>4, <2>5 DEF Shown
<1>12. accepted \in BOOLEAN
  OBVIOUS
<1> HIDE DEF accepted
<1> QED BY <1>1, <1>9, <1>11, <1>12, QuietCall DEF Called

LEMMA SetEnumsKeeps == ASSUME SetupInv, NEW i \in Setups, SetEnums(i) PROVE SetupInv'
<1> DEFINE t == [s \in Stream |->
                   [doc.tabs[s] EXCEPT !.rules = [c \in Column |->
                       IF c <= Len(Fields(layout, s)) THEN Enum(layout, s, Fields(layout, s)[c])
                       ELSE @[c]]]]
           new == [doc EXCEPT !.tabs = t]
           accepted == TRUE
<1>1. /\ Call(i, "enums", accepted, new)
      /\ ruled' = [s \in Stream |-> [f \in AllFields |->
                      IF f \in Range(Fields(layout, s)) THEN Enum(layout, s, f)
                      ELSE ruled[s][f]]]
  BY DEF SetEnums
<1>2. Typed /\ Progress /\ RulesKept /\ layout \in DOMAIN Layouts
  BY LayoutIs DEF SetupInv
<1>3. doc \in DocType /\ ruled \in [Stream -> [AllFields -> EnumLists]]
  BY <1>2, DocTypes DEF Typed
<1>4. setup[i].at = "enums"
  BY <1>1 DEF Call
<1>5. Reached(layout, "enums", doc)
  BY <1>2, <1>4 DEF Progress
<1>6. TabsThere(layout, doc) /\ Untouched(doc)
  BY <1>2, <1>5, StepIs DEF Reached, Progress
<1>7. ASSUME NEW s \in Stream
      PROVE  /\ t[s] \in DataTab
             /\ t[s].header = doc.tabs[s].header /\ t[s].cells = doc.tabs[s].cells
             /\ t[s].at = doc.tabs[s].at
             /\ doc.tabs[s].protected <= t[s].protected /\ doc.tabs[s].band <= t[s].band
             /\ s \notin Present(layout) => t[s] = doc.tabs[s]
             /\ \A c \in 1 .. Len(Fields(layout, s)) :
                   t[s].rules[c] = Enum(layout, s, Fields(layout, s)[c])
  <2> DEFINE F == Fields(layout, s)
             old == doc.tabs[s].rules
             rules == [c \in Column |-> IF c <= Len(F) THEN Enum(layout, s, F[c]) ELSE old[c]]
  <2>1. /\ doc.tabs[s] \in DataTab /\ old \in [Column -> EnumLists]
        /\ doc.tabs[s].protected \in Nat /\ doc.tabs[s].band \in Nat
    BY <1>3, TabTypes
  <2>2. /\ Len(F) \in Nat /\ \A c \in 1 .. Len(F) : c \in Column /\ F[c] \in Range(F)
        /\ \A f \in Range(F) : Enum(layout, s, f) \in EnumLists
    BY <1>2, ColumnsAre
  <2>3. Column \subseteq Nat \ {0}
    BY SetupAssumption DEF Column
  <2>4. rules \in [Column -> EnumLists]
    <3>1. ASSUME NEW c \in Column PROVE rules[c] \in EnumLists
      <4>1. CASE c <= Len(F)
        <5>1. c \in 1 .. Len(F)
          BY <2>2, <2>3, <4>1
        <5> QED BY <2>2, <4>1, <5>1
      <4>2. CASE ~(c <= Len(F))
        BY <2>1, <4>2
      <4> QED BY <4>1, <4>2
    <3> QED BY <3>1
  <2>5. \A c \in 1 .. Len(F) : rules[c] = Enum(layout, s, F[c])
    BY <2>2
  <2>6. s \notin Present(layout) => rules = old
    <3> SUFFICES ASSUME F = <<>> PROVE rules = old
      BY DEF Present
    <3>1. \A c \in Column : ~(c <= Len(F))
      BY <2>3
    <3>2. \A c \in Column : rules[c] = old[c]
      BY <3>1
    <3> QED BY <2>1, <2>4, <3>2
  <2>7. t[s] = [doc.tabs[s] EXCEPT !.rules = rules]
    OBVIOUS
  <2> HIDE DEF t, rules, old, F
  <2>8. /\ t[s] \in DataTab /\ t[s].rules = rules
        /\ t[s].header = doc.tabs[s].header /\ t[s].cells = doc.tabs[s].cells
        /\ t[s].at = doc.tabs[s].at
        /\ t[s].protected = doc.tabs[s].protected /\ t[s].band = doc.tabs[s].band
    BY <2>1, <2>4, <2>7 DEF DataTab
  <2>9. s \notin Present(layout) => t[s] = doc.tabs[s]
    BY <2>1, <2>6, <2>7 DEF DataTab, old
  <2> QED BY <2>1, <2>5, <2>8, <2>9 DEF F
<1>8. t = [s \in Stream |-> t[s]]
  OBVIOUS
<1> HIDE DEF t
<1>9. Kept(layout, doc, new)
  BY <1>6, <1>7, <1>8, CountsKept
<1>10. t \in [Stream -> DataTab]
  BY <1>7, <1>8
<1>11. /\ new.tabs = t /\ new.made = doc.made /\ new.overview = doc.overview
       /\ new.examples = doc.examples
  BY <1>3, <1>10, RestStays
<1> HIDE DEF new
<1>12. RulesSet(layout, new)
  BY <1>7, <1>11 DEF RulesSet
<1>13. Shown(i, "enums", accepted, new)
  <2>1. After("enums") = "intro"
    BY StepsAre
  <2>2. /\ Reached(layout, "intro", new)
        /\ setup[i].alone \/ ~writer.beside => ReachedHeaders(layout, "intro", new)
    <3>1. Reached(layout, "enums", new)
      BY <1>5, <1>9, KeptReached
    <3>2. setup[i].alone \/ ~writer.beside => ReachedHeaders(layout, "enums", new)
      BY <1>2, <1>4, <1>9, KeptReached DEF Progress
    <3> QED BY <1>12, <3>1, <3>2
            DEF Reached, ReachedHeaders, PastTabs, PastHeaders, PastNames, PastEnums, PastIntro,
                PastCharts, PastProtect, PastFormat
  <2>3. ASSUME setup[i].alone, ~setup[i].hurt
        PROVE  UpToDate(layout, [setup[i] EXCEPT !.at = "intro", !.tab = new.made], new)
    <3>1. UpToDate(layout, setup[i], doc)
      BY <1>2, <2>3 DEF Progress
    <3>2. /\ setup[i].seen.overview = new.overview /\ setup[i].seen.examples = new.examples
          /\ setup[i].seen.made = new.made
      BY <1>4, <1>11, <3>1 DEF UpToDate
    <3>3. LET st == [setup[i] EXCEPT !.at = "intro", !.tab = new.made]
          IN  st.at = "intro" /\ st.seen = setup[i].seen
      BY <1>2, AtIs
    <3> QED BY <3>2, <3>3 DEF UpToDate, PastCharts, PastProtect, PastFormat
  <2> QED BY <1>9, <2>1, <2>2, <2>3 DEF Shown
<1>14. accepted \in BOOLEAN
  OBVIOUS
<1>15. ruled' \in [Stream -> [AllFields -> EnumLists]]
  <2>1. ASSUME NEW s \in Stream, NEW f \in AllFields PROVE ruled'[s][f] \in EnumLists
    <3>1. \A g \in Range(Fields(layout, s)) : Enum(layout, s, g) \in EnumLists
      BY <1>2, ColumnsAre
    <3>2. ruled[s][f] \in EnumLists
      BY <1>3
    <3> QED BY <1>1, <3>1, <3>2
  <2> DEFINE r(s) == [f \in AllFields |-> IF f \in Range(Fields(layout, s)) THEN Enum(layout, s, f)
                                          ELSE ruled[s][f]]
  <2>2. ASSUME NEW s \in Stream PROVE r(s) \in [AllFields -> EnumLists]
    <3>1. ruled' = [x \in Stream |-> r(x)]
      BY <1>1
    <3>2. ruled'[s] = r(s)
      BY <3>1
    <3>3. \A f \in AllFields : r(s)[f] \in EnumLists
      BY <2>1, <3>2
    <3> QED BY <3>3
  <2>3. ruled' = [x \in Stream |-> r(x)]
    BY <1>1
  <2> HIDE DEF r
  <2> QED BY <2>2, <2>3
<1>16. doc' = new /\ layout' = layout
  BY <1>1 DEF Call
<1>17. Typed' /\ Apart' /\ Progress' /\ Aligned'
  <2> HIDE DEF accepted
  <2> QED BY <1>1, <1>13, <1>14, <1>15, CallKeeps DEF Called
<1>18. ASSUME NEW s \in Stream, NEW f \in AllFields
       PROVE  ruled'[s][f] = IF f \in Range(Fields(layout, s)) THEN Enum(layout, s, f)
                             ELSE ruled[s][f]
  BY <1>1
<1>19. RulesKept'
  <2> SUFFICES ASSUME ColumnsKept
               PROVE  /\ \A s \in Stream : \A f \in AllFields : ruled'[s][f] # None =>
                            \E c \in 1 .. Len(Fields(layout, s)) :
                               /\ Fields(layout, s)[c] = f
                               /\ new.tabs[s].at /\ new.tabs[s].rules[c] = ruled'[s][f]
                      /\ \A s \in Stream : \A f \in Range(Fields(layout, s)) :
                            ruled'[s][f] = Enum(layout, s, f)
    BY <1>16 DEF RulesKept, ColumnsKept
  <2>1. ASSUME NEW s \in Stream, NEW f \in AllFields, ruled'[s][f] # None
        PROVE  \E c \in 1 .. Len(Fields(layout, s)) :
                  /\ Fields(layout, s)[c] = f
                  /\ new.tabs[s].at /\ new.tabs[s].rules[c] = ruled'[s][f]
    <3>1. f \in Range(Fields(layout, s))
      <4> SUFFICES ASSUME f \notin Range(Fields(layout, s)) PROVE FALSE
        OBVIOUS
      <4>1. ruled[s][f] # None
        BY <1>18, <2>1
      <4>2. PICK c \in 1 .. Len(Fields(layout, s)) : Fields(layout, s)[c] = f
        BY <1>2, <4>1 DEF RulesKept
      <4> QED BY <1>2, <4>2, ColumnsAre
    <3>2. PICK c \in 1 .. Len(Fields(layout, s)) : f = Fields(layout, s)[c]
      BY <1>2, <3>1, ColumnsAre
    <3>3. s \in Present(layout)
      <4>1. Len(Fields(layout, s)) \in Nat
        BY <1>2, ColumnsAre
      <4>2. Fields(layout, s) # <<>>
        BY <3>2, <4>1
      <4> QED BY <4>2 DEF Present
    <3>4. new.tabs[s].at
      BY <1>6, <1>7, <1>11, <3>3 DEF TabsThere
    <3>5. new.tabs[s].rules[c] = Enum(layout, s, f)
      BY <1>7, <1>11, <3>2
    <3> QED BY <1>18, <3>1, <3>2, <3>4, <3>5
  <2>2. ASSUME NEW s \in Stream, NEW f \in Range(Fields(layout, s))
        PROVE  ruled'[s][f] = Enum(layout, s, f)
    <3>1. f \in AllFields
      BY <1>2, ColumnsAre
    <3> QED BY <1>18, <3>1
  <2> QED BY <2>1, <2>2
<1> QED BY <1>17, <1>19 DEF SetupInv

-----------------------------------------------------------------------------
(* Steps that leave the document alone.                                     *)

SetupType == [at : Step, seen : SeenType, tab : Nat, alone : BOOLEAN, hurt : BOOLEAN]

EnumsAgree(l, r) == \A s \in Stream : \A f \in Range(Fields(l, s)) :
    r[s][f] # None /\ Enum(l, s, f) # None => r[s][f] = Enum(l, s, f)

\* A setup that goes to another step, and knows what is so.
LEMMA MoveKeeps ==
    ASSUME SetupInv, NEW i \in Setups, Running(i), NEW st \in SetupType,
           setup' = [setup EXCEPT ![i] = st],
           doc' = doc, layout' = layout, writer' = writer, begun' = begun, ruled' = ruled,
           faults' \in 0 .. MaxFaults,
           st.tab = setup[i].tab, st.alone = setup[i].alone, st.hurt = setup[i].hurt,
           Reached(layout, st.at, doc),
           st.alone \/ ~writer.beside => ReachedHeaders(layout, st.at, doc),
           \A s \in st.seen.tabs : doc.tabs[s].at,
           \A s \in st.seen.protected : doc.tabs[s].protected > 0,
           st.alone /\ ~st.hurt => UpToDate(layout, st, doc),
           ColumnsKept /\ st.at = "enums" => EnumsAgree(layout, ruled)
    PROVE  SetupInv'
<1>1. Typed /\ Apart /\ Progress /\ Aligned /\ RulesKept
  BY DEF SetupInv
<1>2. /\ setup'[i] = st /\ \A j \in Setups : j # i => setup'[j] = setup[j]
      /\ setup' \in [Setups -> SetupType]
  BY <1>1 DEF Typed, SetupType
<1>3. setup[i].at \notin Stopped /\ setup[i].at # "off"
  BY DEF Running, Stopped
<1>4. Typed'
  <2>1. ASSUME NEW j \in Setups PROVE setup'[j].tab <= doc.made
    BY <1>1, <1>2 DEF Typed
  <2> QED BY <1>1, <1>2, <2>1 DEF Typed, SetupType
<1>5. Apart'
  <2>1. \A j \in Setups : /\ setup'[j].alone = setup[j].alone
                          /\ setup'[j].at # "off" => setup[j].at # "off"
                          /\ setup'[j].at \notin Stopped => setup[j].at \notin Stopped
    BY <1>2, <1>3
  <2> QED BY <1>1, <2>1 DEF Apart, Running
<1>6. Progress'
  <2>1. ASSUME NEW j \in Setups
        PROVE  /\ Reached(layout, setup'[j].at, doc)
               /\ setup'[j].alone \/ ~writer.beside => ReachedHeaders(layout, setup'[j].at, doc)
               /\ \A s \in setup'[j].seen.tabs : doc.tabs[s].at
               /\ \A s \in setup'[j].seen.protected : doc.tabs[s].protected > 0
               /\ setup'[j].alone /\ ~setup'[j].hurt => UpToDate(layout, setup'[j], doc)
    <3>1. CASE j = i
      BY <1>2, <3>1
    <3>2. CASE j # i
      BY <1>1, <1>2, <3>2 DEF Progress
    <3> QED BY <3>1, <3>2
  <2>2. (~doc.examples => doc.charts = 0) /\ Untouched(doc)
    BY <1>1 DEF Progress
  <2> QED BY <2>1, <2>2 DEF Progress
<1>7. ColumnsKept' <=> ColumnsKept
  BY DEF ColumnsKept
<1>8. Aligned'
  BY <1>1, <1>7 DEF Aligned
<1>9. RulesKept'
  <2>1. ASSUME NEW j \in Setups, setup'[j].at = "enums", ColumnsKept
        PROVE  EnumsAgree(layout, ruled)
    <3>1. CASE j = i
      BY <1>2, <2>1, <3>1
    <3>2. CASE j # i
      BY <1>1, <1>2, <2>1, <3>2 DEF RulesKept, EnumsAgree
    <3> QED BY <3>1, <3>2
  <2> QED BY <1>1, <1>7, <2>1 DEF RulesKept, EnumsAgree
<1> QED BY <1>4, <1>5, <1>6, <1>8, <1>9 DEF SetupInv

\* What a fetch returns.
LEMMA MetaIs ==
    ASSUME Typed
    PROVE  /\ Meta(doc) \in SeenType
           /\ Meta(doc).tabs = {s \in Stream : doc.tabs[s].at}
           /\ Meta(doc).protected = {s \in Stream : doc.tabs[s].protected > 0}
           /\ Meta(doc).overview = doc.overview /\ Meta(doc).examples = doc.examples
           /\ Meta(doc).made = doc.made /\ Meta(doc).names = doc.names
           /\ \A s \in Stream : Meta(doc).band[s] = doc.tabs[s].band
<1>1. \A s \in Stream : doc.tabs[s].band \in Nat
  BY TabTypes, DocTypes
<1>2. /\ doc.made \in Nat /\ doc.names \in Nat
      /\ doc.examples \in BOOLEAN /\ doc.overview \in BOOLEAN /\ doc.sheet1 \in BOOLEAN
  BY DocTypes
<1> QED BY <1>1, <1>2 DEF Meta, SeenType

LEMMA FetchKeeps ==
    ASSUME SetupInv, NEW i \in Setups,
           NEW step \in {"meta", "listNames", "metaAfter", "listBands"}, Fetch(i, step)
    PROVE  SetupInv'
<1> DEFINE st == [setup[i] EXCEPT !.at = After(step), !.seen = Meta(doc)]
<1>1. Typed /\ Progress
  BY DEF SetupInv
<1>2. setup[i] \in SetupType /\ setup \in [Setups -> SetupType] /\ setup[i].at = step
  BY <1>1 DEF Typed, SetupType, Fetch
<1>3. /\ After(step) \in Step /\ After(step) \notin {"enums", "off"} /\ step \notin Stopped
      /\ \/ step = "meta" /\ After(step) = "tabs"
         \/ step = "listNames" /\ After(step) = "names"
         \/ step = "metaAfter" /\ After(step) = "checkEnums"
         \/ step = "listBands" /\ After(step) = "format"
  BY StepsAre, StepIs DEF Stopped
<1>4. Meta(doc) \in SeenType
  BY <1>1, MetaIs
<1>5. st \in SetupType
  BY <1>2, <1>3, <1>4 DEF SetupType
<1>6. /\ st.at = After(step) /\ st.seen = Meta(doc) /\ st.tab = setup[i].tab
      /\ st.alone = setup[i].alone /\ st.hurt = setup[i].hurt
  BY <1>2 DEF SetupType
<1>7. setup' = [setup EXCEPT ![i] = st]
  BY <1>2 DEF Fetch, SetupType
<1> HIDE DEF st
<1>8. Reached(layout, st.at, doc)
  <2>1. Reached(layout, step, doc)
    BY <1>1, <1>2 DEF Progress
  <2> QED BY <1>3, <1>6, <2>1 DEF Reached, PastTabs, PastHeaders, PastNames, PastEnums, PastIntro,
                                  PastCharts, PastProtect, PastFormat
<1>9. ASSUME st.alone \/ ~writer.beside PROVE ReachedHeaders(layout, st.at, doc)
  <2>1. ReachedHeaders(layout, step, doc)
    BY <1>1, <1>2, <1>6, <1>9 DEF Progress
  <2> QED BY <1>3, <1>6, <2>1 DEF ReachedHeaders, PastTabs, PastHeaders, PastNames, PastEnums,
                                  PastIntro, PastCharts, PastProtect, PastFormat
<1>10. ASSUME st.alone, ~st.hurt PROVE UpToDate(layout, st, doc)
  <2>1. UpToDate(layout, setup[i], doc)
    BY <1>1, <1>6, <1>10 DEF Progress
  <2>2. CASE step = "listBands"
    BY <1>1, <1>2, <1>3, <1>6, <2>1, <2>2, MetaIs
       DEF UpToDate, PastCharts, PastProtect, PastFormat
  <2>3. CASE step # "listBands"
    BY <1>1, <1>3, <1>6, <2>3, MetaIs DEF UpToDate, PastCharts, PastProtect, PastFormat
  <2> QED BY <2>2, <2>3
<1>11. /\ \A s \in st.seen.tabs : doc.tabs[s].at
       /\ \A s \in st.seen.protected : doc.tabs[s].protected > 0
  BY <1>1, <1>6, MetaIs
<1>12. Running(i)
  BY <1>2, <1>3 DEF Running
<1>13. faults' \in 0 .. MaxFaults
  BY <1>1 DEF Fetch, Typed
<1>14. st.at # "enums"
  BY <1>3, <1>6
<1>15. doc' = doc /\ layout' = layout /\ writer' = writer /\ begun' = begun /\ ruled' = ruled
  BY DEF Fetch
<1> QED BY <1>5, <1>6, <1>7, <1>8, <1>9, <1>10, <1>11, <1>12, <1>13, <1>14, <1>15, MoveKeeps

LEMMA DieKeeps == ASSUME SetupInv, NEW i \in Setups, Die(i) PROVE SetupInv'
<1> DEFINE st == [setup[i] EXCEPT !.at = "dead"]
<1>1. Typed /\ Progress
  BY DEF SetupInv
<1>2. setup[i] \in SetupType /\ setup \in [Setups -> SetupType] /\ Running(i)
  BY <1>1 DEF Typed, SetupType, Die
<1>3. "dead" \in Step /\ "dead" \notin PastTabs
  BY StepIs DEF Stopped
<1>4. st \in SetupType
  BY <1>2, <1>3 DEF SetupType
<1>5. /\ st.at = "dead" /\ st.seen = setup[i].seen /\ st.tab = setup[i].tab
      /\ st.alone = setup[i].alone /\ st.hurt = setup[i].hurt
  BY <1>2 DEF SetupType
<1>6. setup' = [setup EXCEPT ![i] = st]
  BY <1>2 DEF Die, SetupType
<1> HIDE DEF st
<1>7. Reached(layout, st.at, doc) /\ ReachedHeaders(layout, st.at, doc)
  BY <1>3, <1>5, PastAre DEF Reached, ReachedHeaders
<1>8. UpToDate(layout, st, doc)
  BY <1>3, <1>5, PastAre DEF UpToDate
<1>9. /\ \A s \in st.seen.tabs : doc.tabs[s].at
      /\ \A s \in st.seen.protected : doc.tabs[s].protected > 0
  BY <1>1, <1>5 DEF Progress
<1>10. faults' \in 0 .. MaxFaults
  BY <1>1, SetupAssumption DEF Die, Fault, Typed
<1>11. doc' = doc /\ layout' = layout /\ writer' = writer /\ begun' = begun /\ ruled' = ruled
  BY DEF Die
<1> QED BY <1>2, <1>4, <1>5, <1>6, <1>7, <1>8, <1>9, <1>10, <1>11, MoveKeeps

\* readEnumValidations finds the rule of a column where the layout has it.
LEMMA RuleReadIs ==
    ASSUME Typed, NEW s \in Stream, NEW c \in 1 .. Len(Fields(layout, s))
    PROVE  RuleRead(doc, s, Fields(layout, s)[c]) = doc.tabs[s].rules[c]
<1> DEFINE at == CHOOSE n \in DOMAIN Fields(layout, s) : Fields(layout, s)[n] = Fields(layout, s)[c]
<1>1. layout \in DOMAIN Layouts
  BY LayoutIs
<1>2. c \in DOMAIN Fields(layout, s)
  BY <1>1, ColumnsAre
<1>3. at \in DOMAIN Fields(layout, s) /\ Fields(layout, s)[at] = Fields(layout, s)[c]
  BY <1>2
<1> HIDE DEF at
<1>4. at \in 1 .. Len(Fields(layout, s))
  BY <1>1, <1>3, ColumnsAre
<1>5. at = c
  BY <1>1, <1>3, <1>4, OnePosition
<1> QED BY <1>5 DEF RuleRead, at

LEMMA CheckEnumsKeeps == ASSUME SetupInv, NEW i \in Setups, CheckEnums(i) PROVE SetupInv'
<1> DEFINE next == IF EnumsChanged THEN "changed" ELSE "enums"
           st == [setup[i] EXCEPT !.at = next]
<1>1. Typed /\ Progress /\ RulesKept
  BY DEF SetupInv
<1>2. setup[i] \in SetupType /\ setup \in [Setups -> SetupType] /\ setup[i].at = "checkEnums"
  BY <1>1 DEF Typed, SetupType, CheckEnums
<1>3. /\ "changed" \in Step /\ "changed" \notin PastTabs /\ "enums" \in Step
      /\ After("checkEnums") = "enums" /\ "checkEnums" \notin Stopped
      /\ After(setup[i].at) = "enums"
  BY <1>2, StepIs, StepsAre DEF Stopped
<1>4. st \in SetupType
  BY <1>2, <1>3 DEF SetupType
<1>5. /\ st.at = next /\ st.seen = setup[i].seen /\ st.tab = setup[i].tab
      /\ st.alone = setup[i].alone /\ st.hurt = setup[i].hurt
  BY <1>2 DEF SetupType
<1>6. setup' = [setup EXCEPT ![i] = st]
  <2>1. setup' = [setup EXCEPT ![i].at = next]
    BY <1>2, <1>3 DEF CheckEnums
  <2> QED BY <1>2, <2>1 DEF SetupType
<1>7. Running(i)
  BY <1>2, <1>3 DEF Running
<1>8. faults' \in 0 .. MaxFaults
  BY <1>1 DEF CheckEnums, Typed
<1>9. doc' = doc /\ layout' = layout /\ writer' = writer /\ begun' = begun /\ ruled' = ruled
  BY DEF CheckEnums
<1>10. next \in {"changed", "enums"} /\ (next = "enums" => ~EnumsChanged)
  OBVIOUS
<1> HIDE DEF st, next
<1>11. Reached(layout, st.at, doc)
  <2>1. Reached(layout, "checkEnums", doc)
    BY <1>1, <1>2 DEF Progress
  <2> QED BY <1>3, <1>5, <1>10, <2>1
          DEF Reached, PastTabs, PastHeaders, PastNames, PastEnums, PastIntro, PastCharts,
              PastProtect, PastFormat
<1>12. ASSUME st.alone \/ ~writer.beside PROVE ReachedHeaders(layout, st.at, doc)
  <2>1. ReachedHeaders(layout, "checkEnums", doc)
    BY <1>1, <1>2, <1>5, <1>12 DEF Progress
  <2> QED BY <1>3, <1>5, <1>10, <2>1
          DEF ReachedHeaders, PastTabs, PastHeaders, PastNames, PastEnums, PastIntro, PastCharts,
              PastProtect, PastFormat
<1>13. ASSUME st.alone, ~st.hurt PROVE UpToDate(layout, st, doc)
  <2>1. UpToDate(layout, setup[i], doc)
    BY <1>1, <1>5, <1>13 DEF Progress
  <2> QED BY <1>2, <1>5, <1>10, <2>1 DEF UpToDate, PastCharts, PastProtect, PastFormat
<1>14. /\ \A s \in st.seen.tabs : doc.tabs[s].at
       /\ \A s \in st.seen.protected : doc.tabs[s].protected > 0
  BY <1>1, <1>5 DEF Progress
<1>15. ASSUME ColumnsKept, st.at = "enums" PROVE EnumsAgree(layout, ruled)
  <2> SUFFICES ASSUME NEW s \in Stream, NEW f \in Range(Fields(layout, s)),
                      ruled[s][f] # None, Enum(layout, s, f) # None
               PROVE  ruled[s][f] = Enum(layout, s, f)
    BY DEF EnumsAgree
  <2>1. layout \in DOMAIN Layouts /\ f \in AllFields
    BY <1>1, LayoutIs, ColumnsAre
  <2>2. PICK c \in 1 .. Len(Fields(layout, s)) :
            /\ Fields(layout, s)[c] = f /\ doc.tabs[s].at /\ doc.tabs[s].rules[c] = ruled[s][f]
    BY <1>1, <1>15, <2>1 DEF RulesKept
  <2>3. RuleRead(doc, s, f) = ruled[s][f]
    BY <1>1, <2>2, RuleReadIs
  <2>4. s \in Present(layout)
    <3>1. Fields(layout, s) # <<>>
      BY <2>1, <2>2, ColumnsAre
    <3> QED BY <3>1 DEF Present
  <2>5. ~EnumsChanged
    BY <1>5, <1>10, <1>15
  <2> QED BY <2>2, <2>3, <2>4, <2>5 DEF EnumsChanged
<1> QED BY <1>4, <1>5, <1>6, <1>7, <1>8, <1>9, <1>11, <1>12, <1>13, <1>14, <1>15, MoveKeeps

-----------------------------------------------------------------------------
(* Setups and writers that begin.                                           *)

LEMMA NoSetupIs ==
    /\ NoSetup \in SetupType /\ NoSetup.at = "off" /\ NoSetup.tab = 0
    /\ NoSetup.seen.tabs = {} /\ NoSetup.seen.protected = {}
    /\ \A alone \in BOOLEAN :
          /\ [NoSetup EXCEPT !.at = "meta", !.alone = alone] \in SetupType
          /\ [NoSetup EXCEPT !.at = "meta", !.alone = alone].at = "meta"
          /\ [NoSetup EXCEPT !.at = "meta", !.alone = alone].alone = alone
          /\ [NoSetup EXCEPT !.at = "meta", !.alone = alone].tab = 0
          /\ [NoSetup EXCEPT !.at = "meta", !.alone = alone].seen = NoSetup.seen
<1>1. NoTab.at = FALSE /\ NoTab.protected = 0 /\ NoTab.band = 0
  BY DEF NoTab
<1>2. NoMeta \in SeenType /\ NoMeta.tabs = {} /\ NoMeta.protected = {}
  BY <1>1 DEF NoMeta, Meta, SeenType
<1>3. {"off", "meta"} \subseteq Step
  BY StepIs DEF Stopped
<1> QED BY <1>2, <1>3 DEF NoSetup, SetupType

\* A setup that has done nothing yet has nothing to show.
LEMMA NothingYet ==
    ASSUME NEW l, NEW d, NEW st, st.at \in {"off", "meta"}
    PROVE  Reached(l, st.at, d) /\ ReachedHeaders(l, st.at, d) /\ UpToDate(l, st, d)
<1>1. st.at \notin PastTabs
  BY StepIs
<1> QED BY <1>1, PastAre DEF Reached, ReachedHeaders, UpToDate

\* A later layout, where the columns are kept, has a column where it was.
LEMMA ColumnStays ==
    ASSUME NEW l \in DOMAIN Layouts, NEW m \in DOMAIN Layouts, NEW s \in Stream,
           NEW c \in 1 .. Len(Fields(l, s)),
           Fields(l, s) # <<>> => IsPrefix(Fields(l, s), Fields(m, s))
    PROVE  c \in 1 .. Len(Fields(m, s)) /\ Fields(m, s)[c] = Fields(l, s)[c]
<1>1. /\ Fields(l, s) \in Seq(AllFields) /\ Fields(m, s) \in Seq(AllFields)
      /\ Len(Fields(l, s)) \in Nat /\ Len(Fields(m, s)) \in Nat
  BY ColumnsAre
<1>2. Fields(l, s) # <<>>
  BY <1>1
<1> QED BY <1>1, <1>2, PrefixIs

LEMMA BeginSetupKeeps ==
    ASSUME SetupInv, NEW i \in Setups, NEW l \in DOMAIN Layouts, BeginSetup(i, l)
    PROVE  SetupInv'
<1>1. Typed /\ Apart /\ Progress /\ Aligned /\ RulesKept
  BY DEF SetupInv
<1>2. /\ layout' = l /\ doc' = doc /\ writer' = writer /\ ruled' = ruled /\ begun' = begun + 1
      /\ writer.at = "off" /\ l >= layout /\ begun < MaxSetups
      /\ NoneRunning \/ l = layout
  BY DEF BeginSetup
<1>3. /\ layout \in DOMAIN Layouts /\ layout \in Nat \ {0} /\ l \in Nat \ {0}
      /\ doc.made \in Nat
  BY <1>1, LayoutIs, DocTypes, SetupAssumption
<1>4. setup \in [Setups -> SetupType]
  BY <1>1 DEF Typed, SetupType
<1>5. ASSUME NEW j \in Setups
      PROVE  setup'[j] = IF j = i THEN [NoSetup EXCEPT !.at = "meta", !.alone = NoneRunning]
                         ELSE IF Running(j) THEN [setup[j] EXCEPT !.alone = FALSE]
                         ELSE NoSetup
  BY DEF BeginSetup
<1>6. setup' = [j \in Setups |-> setup'[j]]
  BY DEF BeginSetup
<1>7. NoneRunning \in BOOLEAN
  BY DEF NoneRunning
<1>8. ASSUME NEW j \in Setups
      PROVE  /\ setup'[j] \in SetupType
             /\ \/ /\ setup'[j].at \in {"off", "meta"} /\ setup'[j].tab = 0
                   /\ setup'[j].seen.tabs = {} /\ setup'[j].seen.protected = {}
                   /\ setup'[j].at = "meta" => j = i /\ setup'[j].alone = NoneRunning
                \/ /\ j # i /\ ~NoneRunning /\ Running(j)
                   /\ setup'[j].at = setup[j].at /\ setup'[j].tab = setup[j].tab
                   /\ setup'[j].seen = setup[j].seen /\ setup'[j].alone = FALSE
  <2>1. CASE j = i
    <3>1. setup'[j] = [NoSetup EXCEPT !.at = "meta", !.alone = NoneRunning]
      BY <1>5, <2>1
    <3> QED BY <1>7, <2>1, <3>1, NoSetupIs
  <2>2. CASE j # i /\ Running(j)
    <3>1. setup'[j] = [setup[j] EXCEPT !.alone = FALSE] /\ ~NoneRunning
      BY <1>5, <2>2 DEF NoneRunning
    <3> QED BY <1>4, <2>2, <3>1 DEF SetupType
  <2>3. CASE j # i /\ ~Running(j)
    <3>1. setup'[j] = NoSetup
      BY <1>5, <2>3
    <3> QED BY <3>1, NoSetupIs
  <2> QED BY <2>1, <2>2, <2>3
<1>9. Typed'
  <2>1. setup' \in [Setups -> SetupType]
    BY <1>6, <1>8
  <2>2. ASSUME NEW j \in Setups PROVE setup'[j].tab <= doc.made
    <3>1. setup[j].tab <= doc.made
      BY <1>1, SetupTypes
    <3>2. doc.made \in Nat
      BY <1>1, DocTypes
    <3>3. setup'[j].tab = 0 \/ setup'[j].tab = setup[j].tab
      BY <1>8
    <3> QED BY <3>1, <3>2, <3>3
  <2>3. begun' \in 0 .. MaxSetups
    BY <1>1, <1>2, SetupAssumption DEF Typed
  <2>4. faults' \in 0 .. MaxFaults
    BY <1>1, SetupAssumption DEF Typed, BeginSetup, Fault
  <2> QED BY <1>1, <1>2, <2>1, <2>2, <2>3, <2>4 DEF Typed, SetupType
<1>10. Apart'
  <2>1. ASSUME NEW j \in Setups, NEW k \in Setups, j # k, setup'[j].alone, setup'[j].at # "off"
        PROVE  setup'[k].at \in Stopped
    <3>1. setup'[j].at = "meta" /\ j = i /\ NoneRunning
      BY <1>8, <2>1
    <3>2. setup'[k].at = "off"
      BY <1>8, <2>1, <3>1
    <3> QED BY <3>2 DEF Stopped
  <2> QED BY <1>2, <2>1 DEF Apart, Running
<1>11. Progress'
  <2>1. ASSUME NEW j \in Setups
        PROVE  /\ Reached(l, setup'[j].at, doc)
               /\ setup'[j].alone \/ ~writer.beside => ReachedHeaders(l, setup'[j].at, doc)
               /\ \A s \in setup'[j].seen.tabs : doc.tabs[s].at
               /\ \A s \in setup'[j].seen.protected : doc.tabs[s].protected > 0
               /\ setup'[j].alone /\ ~setup'[j].hurt => UpToDate(l, setup'[j], doc)
    <3>1. CASE setup'[j].at \in {"off", "meta"} /\ setup'[j].seen.tabs = {}
               /\ setup'[j].seen.protected = {}
      BY <3>1, NothingYet
    <3>2. CASE /\ j # i /\ ~NoneRunning /\ Running(j)
               /\ setup'[j].at = setup[j].at /\ setup'[j].tab = setup[j].tab
               /\ setup'[j].seen = setup[j].seen /\ setup'[j].alone = FALSE
      BY <1>1, <1>2, <3>2 DEF Progress
    <3> QED BY <1>8, <3>1, <3>2
  <2>2. (~doc.examples => doc.charts = 0) /\ Untouched(doc)
    BY <1>1 DEF Progress
  <2> QED BY <1>2, <2>1, <2>2 DEF Progress
<1>12. ASSUME ColumnsKept'
       PROVE  /\ ColumnsKept
              /\ \A s \in Stream : Fields(layout, s) # <<>> =>
                    IsPrefix(Fields(layout, s), Fields(l, s))
  <2>1. \A m, n \in 1 .. l : \A s \in Stream :
           m <= n /\ Fields(m, s) # <<>> => IsPrefix(Fields(m, s), Fields(n, s))
    BY <1>2, <1>12 DEF ColumnsKept
  <2>2. 1 .. layout \subseteq 1 .. l /\ layout \in 1 .. l /\ l \in 1 .. l /\ layout <= l
    BY <1>2, <1>3
  <2> QED BY <2>1, <2>2 DEF ColumnsKept
<1>13. Aligned'
  <2>1. ASSUME ColumnsKept', ~writer.beside PROVE HeaderIs(l, doc) /\ CellsAre(l, doc)
    <3>1. HeaderIs(layout, doc) /\ CellsAre(layout, doc)
      BY <1>1, <1>12, <2>1 DEF Aligned
    <3>2. ASSUME NEW s \in Stream, NEW c \in 1 .. Len(doc.tabs[s].header),
                 doc.tabs[s].header[c] # Open
          PROVE  c <= Len(Fields(l, s)) /\ doc.tabs[s].header[c] = Fields(l, s)[c]
      <4>1. c <= Len(Fields(layout, s)) /\ doc.tabs[s].header[c] = Fields(layout, s)[c]
        BY <3>1, <3>2 DEF HeaderIs
      <4>2. c \in 1 .. Len(Fields(layout, s)) /\ Len(Fields(l, s)) \in Nat
        BY <1>3, <4>1, ColumnsAre
      <4> QED BY <1>3, <1>12, <2>1, <4>1, <4>2, ColumnStays
    <3>3. ASSUME NEW s \in Stream, NEW c \in Column, doc.tabs[s].cells[c] # {}
          PROVE  /\ c <= Len(Fields(l, s)) /\ c <= Len(doc.tabs[s].header)
                 /\ doc.tabs[s].header[c] = Fields(l, s)[c]
                 /\ doc.tabs[s].cells[c] = {Fields(l, s)[c]}
      <4>1. /\ c <= Len(Fields(layout, s)) /\ c <= Len(doc.tabs[s].header)
            /\ doc.tabs[s].header[c] = Fields(layout, s)[c]
            /\ doc.tabs[s].cells[c] = {Fields(layout, s)[c]}
        BY <3>1, <3>3 DEF CellsAre
      <4>2. c \in 1 .. Len(Fields(layout, s)) /\ Len(Fields(l, s)) \in Nat
        BY <1>3, <4>1, ColumnsAre, SetupAssumption DEF Column
      <4> QED BY <1>3, <1>12, <2>1, <4>1, <4>2, ColumnStays
    <3> QED BY <3>2, <3>3 DEF HeaderIs, CellsAre
  <2> QED BY <1>1, <1>2, <2>1 DEF Aligned
<1>14. RulesKept'
  <2> SUFFICES ASSUME ColumnsKept'
               PROVE  /\ \A s \in Stream : \A f \in AllFields : ruled[s][f] # None =>
                            \E c \in 1 .. Len(Fields(l, s)) :
                               /\ Fields(l, s)[c] = f
                               /\ doc.tabs[s].at /\ doc.tabs[s].rules[c] = ruled[s][f]
                      /\ \A j \in Setups : setup'[j].at = "enums" => EnumsAgree(l, ruled)
    BY <1>2 DEF RulesKept, EnumsAgree
  <2>1. ASSUME NEW s \in Stream, NEW f \in AllFields, ruled[s][f] # None
        PROVE  \E c \in 1 .. Len(Fields(l, s)) :
                  /\ Fields(l, s)[c] = f
                  /\ doc.tabs[s].at /\ doc.tabs[s].rules[c] = ruled[s][f]
    <3>1. PICK c \in 1 .. Len(Fields(layout, s)) :
              /\ Fields(layout, s)[c] = f
              /\ doc.tabs[s].at /\ doc.tabs[s].rules[c] = ruled[s][f]
      BY <1>1, <1>12, <2>1 DEF RulesKept
    <3>2. c \in 1 .. Len(Fields(l, s)) /\ Fields(l, s)[c] = f
      BY <1>3, <1>12, <3>1, ColumnStays
    <3> QED BY <3>1, <3>2
  <2>2. ASSUME NEW j \in Setups, setup'[j].at = "enums" PROVE EnumsAgree(l, ruled)
    <3>1. setup[j].at = "enums" /\ ~NoneRunning
      BY <1>8, <2>2
    <3> QED BY <1>1, <1>2, <1>12, <3>1 DEF RulesKept, EnumsAgree
  <2> QED BY <2>1, <2>2
<1> QED BY <1>9, <1>10, <1>11, <1>13, <1>14 DEF SetupInv

LEMMA BeginWriteKeeps == ASSUME SetupInv, BeginWrite PROVE SetupInv'
<1>1. Typed /\ Apart /\ Progress /\ Aligned /\ RulesKept
  BY DEF SetupInv
<1>2. /\ layout' = layout /\ doc' = doc /\ ruled' = ruled /\ begun' = begun
      /\ writer.at = "off"
      /\ writer' = [writer EXCEPT !.at = "open", !.beside = @ \/ ~NoneRunning]
      /\ ~NoneRunning \/ \E i \in Setups : setup[i].at = "done"
  BY DEF BeginWrite
<1>3. writer \in [at : {"off", "open"}, headers : [Stream -> Names], beside : BOOLEAN]
  BY <1>1 DEF Typed
<1>4. /\ writer' \in [at : {"off", "open"}, headers : [Stream -> Names], beside : BOOLEAN]
      /\ writer'.at = "open" /\ writer'.headers = writer.headers
      /\ writer'.beside = (writer.beside \/ ~NoneRunning)
  BY <1>2, <1>3 DEF NoneRunning
<1>5. setup \in [Setups -> SetupType]
  BY <1>1 DEF Typed, SetupType
<1>6. ASSUME NEW j \in Setups
      PROVE  setup'[j] = IF Running(j) THEN [setup[j] EXCEPT !.alone = FALSE] ELSE NoSetup
  BY DEF BeginWrite
<1>7. setup' = [j \in Setups |-> setup'[j]]
  BY DEF BeginWrite
<1>8. ASSUME NEW j \in Setups
      PROVE  /\ setup'[j] \in SetupType
             /\ \/ /\ setup'[j].at = "off" /\ setup'[j].tab = 0
                   /\ setup'[j].seen.tabs = {} /\ setup'[j].seen.protected = {}
                \/ /\ ~NoneRunning
                   /\ setup'[j].at = setup[j].at /\ setup'[j].tab = setup[j].tab
                   /\ setup'[j].seen = setup[j].seen /\ setup'[j].alone = FALSE
  <2>1. CASE Running(j)
    <3>1. setup'[j] = [setup[j] EXCEPT !.alone = FALSE] /\ ~NoneRunning
      BY <1>6, <2>1 DEF NoneRunning
    <3> QED BY <1>5, <3>1 DEF SetupType
  <2>2. CASE ~Running(j)
    <3>1. setup'[j] = NoSetup
      BY <1>6, <2>2
    <3> QED BY <3>1, NoSetupIs
  <2> QED BY <2>1, <2>2
<1>9. Typed'
  <2>1. setup' \in [Setups -> SetupType]
    BY <1>7, <1>8
  <2>2. ASSUME NEW j \in Setups PROVE setup'[j].tab <= doc.made
    <3>1. setup[j].tab <= doc.made
      BY <1>1, SetupTypes
    <3>2. doc.made \in Nat
      BY <1>1, DocTypes
    <3>3. setup'[j].tab = 0 \/ setup'[j].tab = setup[j].tab
      BY <1>8
    <3> QED BY <3>1, <3>2, <3>3
  <2>3. faults' \in 0 .. MaxFaults
    BY <1>1, SetupAssumption DEF Typed, BeginWrite, Fault
  <2> QED BY <1>1, <1>2, <1>4, <2>1, <2>2, <2>3 DEF Typed, SetupType
<1>10. Apart'
  <2>1. \A j \in Setups : setup'[j].at = "off" \/ ~setup'[j].alone
    BY <1>8
  <2>2. ~writer'.beside => \A j \in Setups : setup'[j].at = "off"
    BY <1>4, <1>8
  <2> QED BY <2>1, <2>2 DEF Apart
<1>11. Progress'
  <2>1. ASSUME NEW j \in Setups
        PROVE  /\ Reached(layout, setup'[j].at, doc)
               /\ setup'[j].alone \/ ~writer'.beside => ReachedHeaders(layout, setup'[j].at, doc)
               /\ \A s \in setup'[j].seen.tabs : doc.tabs[s].at
               /\ \A s \in setup'[j].seen.protected : doc.tabs[s].protected > 0
               /\ setup'[j].alone /\ ~setup'[j].hurt => UpToDate(layout, setup'[j], doc)
    <3>1. CASE setup'[j].at = "off" /\ setup'[j].seen.tabs = {} /\ setup'[j].seen.protected = {}
      BY <3>1, NothingYet
    <3>2. CASE /\ ~NoneRunning
               /\ setup'[j].at = setup[j].at /\ setup'[j].tab = setup[j].tab
               /\ setup'[j].seen = setup[j].seen /\ setup'[j].alone = FALSE
      BY <1>1, <1>4, <3>2 DEF Progress
    <3> QED BY <1>8, <3>1, <3>2
  <2>2. (~doc.examples => doc.charts = 0) /\ Untouched(doc)
    BY <1>1 DEF Progress
  <2> QED BY <1>2, <2>1, <2>2 DEF Progress
<1>12. ColumnsKept' <=> ColumnsKept
  BY <1>2 DEF ColumnsKept
<1>13. Aligned'
  <2>1. \A s \in Stream : writer'.headers[s] = <<>>
    BY <1>1, <1>2, <1>4 DEF Aligned
  <2>2. ASSUME ~writer'.beside PROVE HeadersSet(layout, doc) /\ ~writer.beside
    <3>1. ~writer.beside /\ NoneRunning
      BY <1>4, <2>2
    <3>2. PICK j \in Setups : setup[j].at = "done"
      BY <1>2, <3>1
    <3>3. ReachedHeaders(layout, "done", doc)
      BY <1>1, <3>1, <3>2 DEF Progress
    <3> QED BY <3>1, <3>3 DEF ReachedHeaders, PastHeaders, PastNames, PastEnums, PastIntro,
                              PastCharts, PastProtect, PastFormat
  <2> QED BY <1>1, <1>2, <1>4, <1>12, <2>1, <2>2 DEF Aligned
<1>14. RulesKept'
  <2>1. ASSUME NEW j \in Setups, setup'[j].at = "enums" PROVE setup[j].at = "enums"
    BY <1>8, <2>1
  <2> QED BY <1>1, <1>2, <1>12, <2>1 DEF RulesKept
<1> QED BY <1>9, <1>10, <1>11, <1>13, <1>14 DEF SetupInv

LEMMA EndWriteKeeps == ASSUME SetupInv, EndWrite PROVE SetupInv'
<1>1. Typed /\ Apart /\ Progress /\ Aligned /\ RulesKept
  BY DEF SetupInv
<1>2. /\ layout' = layout /\ doc' = doc /\ setup' = setup /\ begun' = begun
      /\ faults' = faults /\ ruled' = ruled
      /\ writer' = [writer EXCEPT !.at = "off", !.headers = NoHeaders]
  BY DEF EndWrite
<1>3. /\ writer' \in [at : {"off", "open"}, headers : [Stream -> Names], beside : BOOLEAN]
      /\ writer'.at = "off" /\ writer'.headers = NoHeaders /\ writer'.beside = writer.beside
  <2>1. NoHeaders \in [Stream -> Names]
    BY DEF NoHeaders, Names
  <2> QED BY <1>1, <1>2, <2>1 DEF Typed
<1>4. Typed'
  BY <1>1, <1>2, <1>3 DEF Typed
<1>5. Apart' /\ Progress'
  BY <1>1, <1>2, <1>3 DEF Apart, Progress, Running
<1>6. ColumnsKept' <=> ColumnsKept
  BY <1>2 DEF ColumnsKept
<1>7. Aligned' /\ RulesKept'
  BY <1>1, <1>2, <1>3, <1>6 DEF Aligned, RulesKept, NoHeaders
<1> QED BY <1>4, <1>5, <1>7 DEF SetupInv

-----------------------------------------------------------------------------
(* A row that a writer stores.                                              *)

Coloured(columns, headers, cells) ==
    [c \in Column |-> IF c <= Len(headers) THEN cells[c] \cup ({headers[c]} \cap columns)
                      ELSE cells[c]]

\* The header a writer goes by is of columns, and the one the tab has once it has
\* every column of the layout.
LEMMA HeadersAre ==
    ASSUME Typed, NEW s \in Stream, NEW columns
    PROVE  /\ HeadersFor(s, columns) \in Names
           /\ /\ s \in Present(layout) /\ IsPrefix(Fields(layout, s), doc.tabs[s].header)
              /\ writer.headers[s] \in {<<>>, doc.tabs[s].header}
              => HeadersFor(s, columns) = doc.tabs[s].header
<1> DEFINE cached == writer.headers[s]
           header == doc.tabs[s].header
           F      == Fields(layout, s)
           known  == IF cached # <<>> THEN cached
                     ELSE IF header # <<>> THEN header ELSE FirstHeader(s, columns)
           added  == Those(F, columns \ Range(known))
<1>1. layout \in DOMAIN Layouts
  BY LayoutIs
<1>2. F \in Seq(AllFields) /\ Len(F) \in Nat /\ Range(F) = {F[c] : c \in 1 .. Len(F)}
  BY <1>1, ColumnsAre
<1>3. cached \in Names /\ header \in Names
  BY TabTypes, DocTypes DEF Typed, Names
<1>4. F \in Names /\ PrimaryKey \in Names
  <2>1. Seq(AllFields) \subseteq Names
    BY DEF Names
  <2> QED BY <1>2, <2>1, SetupAssumption
<1>5. FirstHeader(s, columns) \in Names
  <2>1. /\ Those(PrimaryKey, columns) \in Names
        /\ Those(F, columns \ Range(PrimaryKey)) \in Names
    BY <1>4, ThoseAre DEF Names
  <2> QED BY <2>1, ConcatProperties DEF FirstHeader, Names
<1>6. known \in Names
  BY <1>3, <1>5
<1>7. HeadersFor(s, columns) = known \o added
  BY DEF HeadersFor
<1> HIDE DEF known
<1>8. added \in Names
  BY <1>4, ThoseAre DEF Names
<1>9. HeadersFor(s, columns) \in Names
  BY <1>6, <1>7, <1>8, ConcatProperties DEF Names
<1>10. ASSUME s \in Present(layout), IsPrefix(F, header), cached \in {<<>>, header}
       PROVE  HeadersFor(s, columns) = header
  <2>1. F # <<>>
    BY <1>10 DEF Present
  <2>2. Len(F) <= Len(header) /\ (\A c \in 1 .. Len(F) : header[c] = F[c]) /\ Len(header) \in Nat
    <3>1. Len(F) <= Len(header) /\ \A c \in 1 .. Len(F) : header[c] = F[c]
      BY <1>3, <1>4, <1>10, PrefixIs DEF Names
    <3> QED BY <1>3, <3>1 DEF Names
  <2>3. header # <<>>
    BY <1>2, <2>1, <2>2
  <2>4. known = header
    BY <1>10, <2>3 DEF known
  <2>5. Range(F) \subseteq Range(header)
    <3>1. \A c \in 1 .. Len(F) : c \in DOMAIN header /\ F[c] = header[c]
      BY <1>2, <1>3, <2>2 DEF Names
    <3> QED BY <1>2, <3>1 DEF Range
  <2>6. added = <<>>
    BY <1>4, <2>4, <2>5, ThoseAre DEF Names
  <2> QED BY <1>3, <1>7, <2>4, <2>6, ConcatEmptySeq DEF Names
<1> QED BY <1>9, <1>10

LEMMA WriteRowKeeps ==
    ASSUME SetupInv, NEW s \in Present(layout), NEW columns \in SUBSET AllFields,
           WriteRow(s, columns)
    PROVE  SetupInv'
<1> DEFINE headers == HeadersFor(s, columns)
           isNew   == headers # writer.headers[s] /\ headers # doc.tabs[s].header
           header  == IF isNew THEN Overlaid(headers, doc.tabs[s].header) ELSE doc.tabs[s].header
           cells   == Coloured(columns, headers, doc.tabs[s].cells)
           tab     == [doc.tabs[s] EXCEPT !.at = TRUE, !.header = header, !.cells = cells]
<1>1. Typed /\ Apart /\ Progress /\ Aligned /\ RulesKept
  BY DEF SetupInv
<1>2. s \in Stream /\ layout \in DOMAIN Layouts
  BY <1>1, LayoutIs DEF Present
<1>3. /\ layout' = layout /\ setup' = setup /\ begun' = begun /\ faults' = faults
      /\ ruled' = ruled /\ writer.at = "open" /\ Len(headers) <= Width
      /\ writer' = [writer EXCEPT !.headers[s] = headers]
  BY DEF WriteRow
<1>4. doc \in DocType /\ doc.tabs \in [Stream -> DataTab] /\ doc.sheet1 \in BOOLEAN
  BY <1>1, DocTypes
<1>5. /\ doc.tabs[s] \in DataTab /\ doc.tabs[s].header \in Names
      /\ Len(doc.tabs[s].header) \in Nat /\ doc.tabs[s].cells \in [Column -> SUBSET AllFields]
      /\ doc.tabs[s].at \in BOOLEAN
  BY <1>2, <1>4, TabTypes DEF Names
<1>6. headers \in Names
  BY <1>1, <1>2, HeadersAre
<1>7. doc' = [doc EXCEPT !.sheet1 = doc.sheet1 /\ doc.tabs[s].at,
                         !.tabs = [doc.tabs EXCEPT ![s] = tab]]
  BY <1>2, <1>4 DEF WriteRow, Coloured
<1>8. header \in Names /\ Len(header) <= Width
  <2>1. Len(doc.tabs[s].header) <= Width
    BY <1>1, <1>2, DocTypes
  <2>2. CASE isNew
    <3>1. Overlaid(headers, doc.tabs[s].header) \in Names
      BY <1>5, <1>6, OverlaidIs DEF Names
    <3>2. Len(Overlaid(headers, doc.tabs[s].header)) =
             IF Len(headers) <= Len(doc.tabs[s].header) THEN Len(doc.tabs[s].header)
             ELSE Len(headers)
      BY <1>5, <1>6, OverlaidIs DEF Names
    <3> QED BY <1>3, <2>1, <2>2, <3>1, <3>2
  <2>3. CASE ~isNew
    BY <1>5, <2>1, <2>3
  <2> QED BY <2>2, <2>3
<1>9. cells \in [Column -> SUBSET AllFields]
  BY <1>5 DEF Coloured
<1>10. ASSUME NEW c \in Column
       PROVE  cells[c] = IF c <= Len(headers)
                         THEN doc.tabs[s].cells[c] \cup ({headers[c]} \cap columns)
                         ELSE doc.tabs[s].cells[c]
  BY DEF Coloured
<1> HIDE DEF headers, isNew, header, cells
<1>11. /\ tab \in DataTab /\ tab.at = TRUE /\ tab.header = header /\ tab.cells = cells
       /\ tab.rules = doc.tabs[s].rules /\ tab.protected = doc.tabs[s].protected
       /\ tab.band = doc.tabs[s].band
  BY <1>5, <1>8, <1>9 DEF DataTab, Names
<1> HIDE DEF tab
<1>12. /\ doc' \in DocType /\ doc'.tabs = [doc.tabs EXCEPT ![s] = tab]
       /\ doc'.made = doc.made /\ doc'.overview = doc.overview /\ doc'.named = doc.named
       /\ doc'.examples = doc.examples /\ doc'.charts = doc.charts
  <2>1. [doc.tabs EXCEPT ![s] = tab] \in [Stream -> DataTab]
    BY <1>4, <1>11
  <2>2. (doc.sheet1 /\ doc.tabs[s].at) \in BOOLEAN
    OBVIOUS
  <2> DEFINE t  == [doc.tabs EXCEPT ![s] = tab]
             sh == doc.sheet1 /\ doc.tabs[s].at
  <2>3. doc' = [doc EXCEPT !.sheet1 = sh, !.tabs = t] /\ t \in [Stream -> DataTab] /\ sh \in BOOLEAN
    BY <1>7, <2>1, <2>2
  <2> HIDE DEF t, sh
  <2>4. /\ doc' \in DocType /\ doc'.tabs = t
        /\ doc'.made = doc.made /\ doc'.overview = doc.overview /\ doc'.named = doc.named
        /\ doc'.examples = doc.examples /\ doc'.charts = doc.charts
    BY <1>4, <2>3 DEF DocType
  <2> QED BY <2>4 DEF t
<1>13. /\ doc'.tabs[s] = tab
       /\ \A x \in Stream : x # s => doc'.tabs[x] = doc.tabs[x]
  BY <1>2, <1>4, <1>12
<1>14. /\ writer' \in [at : {"off", "open"}, headers : [Stream -> Names], beside : BOOLEAN]
       /\ writer'.at = "open" /\ writer'.beside = writer.beside
       /\ writer'.headers[s] = headers
       /\ \A x \in Stream : x # s => writer'.headers[x] = writer.headers[x]
  <2>1. writer \in [at : {"off", "open"}, headers : [Stream -> Names], beside : BOOLEAN]
    BY <1>1 DEF Typed
  <2> QED BY <1>2, <1>3, <1>6, <2>1
<1>15. \A x \in Stream : /\ doc'.tabs[x].rules = doc.tabs[x].rules
                         /\ doc'.tabs[x].protected = doc.tabs[x].protected
                         /\ doc'.tabs[x].band = doc.tabs[x].band
                         /\ doc.tabs[x].at => doc'.tabs[x].at
  BY <1>11, <1>13
<1>16. Typed'
  <2>1. \A x \in Stream : Len(doc'.tabs[x].header) <= Width
    BY <1>1, <1>8, <1>11, <1>13, DocTypes
  <2>2. \A j \in Setups : setup[j].tab <= doc.made
    BY <1>1, SetupTypes
  <2> QED BY <1>1, <1>3, <1>12, <1>14, <2>1, <2>2 DEF Typed
<1>17. Apart'
  BY <1>1, <1>3, <1>14 DEF Apart, Running
<1>18. ASSUME NEW j \in Setups
       PROVE  setup[j].alone \/ ~writer.beside => setup[j].at = "off"
  BY <1>1, <1>3 DEF Apart
<1>19. Progress'
  <2>1. ASSUME NEW j \in Setups PROVE Reached(layout, setup[j].at, doc')
    <3>1. Reached(layout, setup[j].at, doc)
      BY <1>1 DEF Progress
    <3>2. /\ TabsThere(layout, doc) => TabsThere(layout, doc')
          /\ Guarded(layout, doc) => Guarded(layout, doc')
          /\ Banded(layout, doc) => Banded(layout, doc')
          /\ RulesSet(layout, doc) => RulesSet(layout, doc')
          /\ NamesSet(layout, doc) => NamesSet(layout, doc')
      BY <1>12, <1>15 DEF TabsThere, Guarded, Banded, RulesSet, NamesSet, Present
    <3> QED BY <1>12, <3>1, <3>2 DEF Reached
  <2>2. ASSUME NEW j \in Setups, setup[j].alone \/ ~writer.beside
        PROVE  ReachedHeaders(layout, setup[j].at, doc') /\ UpToDate(layout, setup[j], doc')
    BY <1>18, <2>2, NothingYet
  <2>3. ASSUME NEW j \in Setups
        PROVE  /\ \A x \in setup[j].seen.tabs : doc'.tabs[x].at
               /\ \A x \in setup[j].seen.protected : doc'.tabs[x].protected > 0
    <3>1. setup[j].seen.tabs \subseteq Stream /\ setup[j].seen.protected \subseteq Stream
      BY <1>1, SetupTypes DEF SeenType
    <3>2. /\ \A x \in setup[j].seen.tabs : doc.tabs[x].at
          /\ \A x \in setup[j].seen.protected : doc.tabs[x].protected > 0
      BY <1>1 DEF Progress
    <3> QED BY <1>15, <3>1, <3>2
  <2>4. (~doc'.examples => doc'.charts = 0) /\ Untouched(doc')
    BY <1>1, <1>11, <1>12, <1>13 DEF Progress, Untouched
  <2> QED BY <1>3, <1>14, <2>1, <2>2, <2>3, <2>4 DEF Progress
<1>20. ColumnsKept' <=> ColumnsKept
  BY <1>3 DEF ColumnsKept
<1>21. ASSUME ~writer.beside
       PROVE  headers = doc.tabs[s].header /\ header = doc.tabs[s].header
  <2>1. HeadersSet(layout, doc) /\ writer.headers[s] \in {<<>>, doc.tabs[s].header}
    BY <1>1, <1>2, <1>3, <1>21 DEF Aligned
  <2>2. headers = doc.tabs[s].header
    BY <1>1, <1>2, <2>1, HeadersAre DEF HeadersSet, headers
  <2> QED BY <2>2 DEF header, isNew
<1>22. Aligned'
  <2>1. ASSUME ~writer.beside, NEW x \in Stream PROVE doc'.tabs[x].header = doc.tabs[x].header
    BY <1>11, <1>13, <1>21, <2>1
  <2>2. ASSUME ~writer.beside
        PROVE  /\ HeadersSet(layout, doc')
               /\ \A x \in Stream : writer'.headers[x] \in {<<>>, doc'.tabs[x].header}
    <3>1. /\ HeadersSet(layout, doc)
          /\ \A x \in Stream : writer.headers[x] \in {<<>>, doc.tabs[x].header}
      BY <1>1, <1>3, <2>2 DEF Aligned
    <3>2. HeadersSet(layout, doc')
      BY <2>1, <2>2, <3>1 DEF HeadersSet, Present
    <3>3. ASSUME NEW x \in Stream PROVE writer'.headers[x] \in {<<>>, doc'.tabs[x].header}
      BY <1>14, <1>21, <2>1, <2>2, <3>1
    <3> QED BY <3>2, <3>3
  <2>3. ASSUME ColumnsKept, ~writer.beside
        PROVE  HeaderIs(layout, doc') /\ CellsAre(layout, doc')
    <3>1. HeaderIs(layout, doc) /\ CellsAre(layout, doc)
      BY <1>1, <2>3 DEF Aligned
    <3>2. HeaderIs(layout, doc')
      BY <2>1, <2>3, <3>1 DEF HeaderIs
    <3>3. ASSUME NEW x \in Stream, NEW c \in Column, doc'.tabs[x].cells[c] # {}
          PROVE  /\ c <= Len(Fields(layout, x)) /\ c <= Len(doc'.tabs[x].header)
                 /\ doc'.tabs[x].header[c] = Fields(layout, x)[c]
                 /\ doc'.tabs[x].cells[c] = {Fields(layout, x)[c]}
      <4>1. CASE doc'.tabs[x].cells[c] = doc.tabs[x].cells[c]
        BY <2>1, <2>3, <3>1, <3>3, <4>1 DEF CellsAre
      <4>2. CASE x = s /\ c <= Len(headers) /\ cells[c] # doc.tabs[s].cells[c]
        <5>1. cells[c] = doc.tabs[s].cells[c] \cup {headers[c]} /\ headers[c] \in AllFields
          BY <1>10, <4>2
        <5>2. c \in 1 .. Len(doc.tabs[s].header) /\ headers[c] = doc.tabs[s].header[c]
          BY <1>5, <1>21, <2>3, <4>2, SetupAssumption DEF Column
        <5>3. c <= Len(Fields(layout, s)) /\ doc.tabs[s].header[c] = Fields(layout, s)[c]
          BY <1>2, <3>1, <5>1, <5>2, NoneIsOpen DEF HeaderIs
        <5>4. doc.tabs[s].cells[c] \in {{}, {Fields(layout, s)[c]}}
          BY <1>2, <3>1 DEF CellsAre
        <5>5. doc'.tabs[s].cells[c] = {Fields(layout, s)[c]}
          BY <1>11, <1>13, <5>1, <5>2, <5>3, <5>4
        <5> QED BY <2>1, <2>3, <4>2, <5>2, <5>3, <5>5
      <4> QED BY <1>10, <1>11, <1>13, <4>1, <4>2
    <3> QED BY <3>2, <3>3 DEF HeaderIs, CellsAre
  <2> QED BY <1>3, <1>14, <1>20, <2>2, <2>3 DEF Aligned
<1>23. RulesKept'
  BY <1>1, <1>3, <1>15, <1>20 DEF RulesKept
<1> QED BY <1>16, <1>17, <1>19, <1>22, <1>23 DEF SetupInv

-----------------------------------------------------------------------------
(* The theorems.                                                            *)

LEMMA SetupStarts == SetupInit => SetupInv
<1> SUFFICES ASSUME SetupInit PROVE SetupInv
  OBVIOUS
<1>1. /\ doc = [tabs |-> [s \in Stream |-> NoTab], sheet1 |-> TRUE, overview |-> FALSE,
                named |-> {}, names |-> 0,
                examples |-> FALSE, made |-> 0, sections |-> {}, charts |-> 0]
      /\ layout = 1
      /\ setup = [i \in Setups |-> NoSetup]
      /\ writer = [at |-> "off", headers |-> NoHeaders, beside |-> FALSE]
      /\ begun = 0 /\ faults = 0
      /\ ruled = [s \in Stream |-> [f \in AllFields |-> None]]
  BY DEF SetupInit
<1>2. /\ NoTab \in DataTab /\ NoTab.at = FALSE /\ NoTab.header = <<>>
      /\ \A c \in Column : NoTab.cells[c] = {}
  <2>1. <<>> \in Seq(AllFields \cup {Open})
    OBVIOUS
  <2>2. [c \in Column |-> {}] \in [Column -> SUBSET AllFields]
    OBVIOUS
  <2>3. None \in EnumLists
    BY DEF EnumLists
  <2>4. [c \in Column |-> None] \in [Column -> EnumLists]
    BY <2>3
  <2> QED BY <2>1, <2>2, <2>4 DEF NoTab, DataTab
<1>3. /\ doc.tabs \in [Stream -> DataTab] /\ doc.made = 0
      /\ \A s \in Stream : doc.tabs[s] = NoTab
  BY <1>1, <1>2
<1>4. doc \in DocType
  BY <1>1, <1>3 DEF DocType
<1>5. /\ setup \in [Setups -> SetupType]
      /\ \A i \in Setups : setup[i] = NoSetup
  BY <1>1, NoSetupIs
<1>6. 1 \in DOMAIN Layouts
  BY SetupAssumption
<1>7. Typed
  <2>1. \A s \in Stream : Len(doc.tabs[s].header) <= Width
    BY <1>2, <1>3, SetupAssumption
  <2>2. writer \in [at : {"off", "open"}, headers : [Stream -> Names], beside : BOOLEAN]
    BY <1>1 DEF NoHeaders, Names
  <2>3. begun \in 0 .. MaxSetups /\ faults \in 0 .. MaxFaults
    BY <1>1, SetupAssumption
  <2>4. ruled \in [Stream -> [AllFields -> EnumLists]]
    <3>1. None \in EnumLists
      BY DEF EnumLists
    <3> QED BY <1>1, <3>1
  <2>5. \A i \in Setups : setup[i].tab <= doc.made
    <3>1. ASSUME NEW i \in Setups PROVE setup[i].tab <= doc.made
      <4>1. setup[i] = NoSetup
        BY <1>5
      <4>2. setup[i].tab = 0
        BY <4>1, NoSetupIs
      <4> QED BY <1>3, <4>2
    <3> QED BY <3>1
  <2> QED BY <1>1, <1>4, <1>5, <1>6, <2>1, <2>2, <2>3, <2>4, <2>5 DEF Typed, SetupType
<1>8. Apart
  BY <1>1, <1>5, NoSetupIs DEF Apart
<1>9. Progress
  <2>1. ASSUME NEW i \in Setups
        PROVE  /\ Reached(layout, setup[i].at, doc) /\ ReachedHeaders(layout, setup[i].at, doc)
               /\ UpToDate(layout, setup[i], doc)
               /\ setup[i].seen.tabs = {} /\ setup[i].seen.protected = {}
    <3>1. setup[i] = NoSetup
      BY <1>5
    <3>2. setup[i].at = "off" /\ setup[i].seen.tabs = {} /\ setup[i].seen.protected = {}
      BY <3>1, NoSetupIs
    <3> QED BY <3>2, NothingYet
  <2>2. doc.charts = 0 /\ Untouched(doc)
    BY <1>1, <1>3 DEF Untouched
  <2> QED BY <2>1, <2>2 DEF Progress
<1>10. Aligned
  <2>1. HeaderIs(layout, doc) /\ CellsAre(layout, doc)
    BY <1>2, <1>3 DEF HeaderIs, CellsAre
  <2> QED BY <1>1, <2>1 DEF Aligned, NoHeaders
<1>11. RulesKept
  BY <1>1, <1>5, NoSetupIs DEF RulesKept
<1> QED BY <1>7, <1>8, <1>9, <1>10, <1>11 DEF SetupInv

LEMMA SetupSteps == SetupInv /\ [SetupNext]_workbook => SetupInv'
<1> SUFFICES ASSUME SetupInv, [SetupNext]_workbook PROVE SetupInv'
  OBVIOUS
<1>1. ASSUME NEW i \in Setups, NEW l \in DOMAIN Layouts, BeginSetup(i, l) PROVE SetupInv'
  BY <1>1, BeginSetupKeeps
<1>2. ASSUME NEW i \in Setups, NEW step \in {"meta", "listNames", "metaAfter", "listBands"},
             Fetch(i, step)
      PROVE  SetupInv'
  BY <1>2, FetchKeeps
<1>3. ASSUME NEW i \in Setups,
             CreateTabs(i) \/ WriteHeaders(i) \/ RecreateNames(i) \/ CheckEnums(i) \/ SetEnums(i)
      PROVE  SetupInv'
  BY <1>3, CreateTabsKeeps, WriteHeadersKeeps, RecreateNamesKeeps, CheckEnumsKeeps, SetEnumsKeeps
<1>4. ASSUME NEW i \in Setups,
             EnsureIntro(i) \/ DropExamples(i) \/ CreateExamples(i) \/ AddCharts(i)
      PROVE  SetupInv'
  BY <1>4, EnsureIntroKeeps, DropExamplesKeeps, CreateExamplesKeeps, AddChartsKeeps
<1>5. ASSUME NEW i \in Setups, Protect(i) \/ Format(i) \/ WriteLinks(i) \/ Die(i)
      PROVE  SetupInv'
  BY <1>5, ProtectKeeps, FormatKeeps, WriteLinksKeeps, DieKeeps
<1>6. ASSUME BeginWrite \/ EndWrite PROVE SetupInv'
  BY <1>6, BeginWriteKeeps, EndWriteKeeps
<1>7. ASSUME NEW s \in Present(layout),
             NEW columns \in {Range(Fields(layout, s)), Range(PrimaryKey)}, WriteRow(s, columns)
      PROVE  SetupInv'
  <2>1. layout \in DOMAIN Layouts /\ s \in Stream
    BY LayoutIs DEF SetupInv, Present
  <2>2. Range(PrimaryKey) \subseteq AllFields
    BY SetupAssumption DEF Range
  <2>3. columns \in SUBSET AllFields
    BY <2>1, <2>2, ColumnsAre
  <2> QED BY <1>7, <2>3, WriteRowKeeps
<1>8. CASE UNCHANGED workbook
  <2>1. Typed' /\ Apart'
    BY <1>8 DEF SetupInv, Typed, Apart, Running, workbook
  <2>2. Progress'
    BY <1>8 DEF SetupInv, Progress, workbook
  <2>3. Aligned' /\ RulesKept'
    BY <1>8 DEF SetupInv, Aligned, RulesKept, ColumnsKept, workbook
  <2> QED BY <2>1, <2>2, <2>3 DEF SetupInv
<1> QED BY <1>1, <1>2, <1>3, <1>4, <1>5, <1>6, <1>7, <1>8 DEF SetupNext

LEMMA SetupInvIsSound == SetupInv => SetupSound
<1> SUFFICES ASSUME SetupInv PROVE SetupSound
  OBVIOUS
<1>1. Typed /\ Apart /\ Progress /\ Aligned /\ RulesKept /\ layout \in DOMAIN Layouts
  BY LayoutIs DEF SetupInv
<1>2. doc \in DocType
  BY <1>1, DocTypes
<1>3. SetupTyped
  <2>1. /\ \A s \in Stream : doc.tabs[s] \in DataTab /\ Len(doc.tabs[s].header) <= Width
        /\ doc.named \subseteq Stream \X AllFields \X Column
        /\ doc.sections \subseteq Examples
        /\ {doc.sheet1, doc.overview, doc.examples} \subseteq BOOLEAN
        /\ {doc.names, doc.made, doc.charts} \subseteq Nat
    BY <1>1, DocTypes, TabTypes
  <2>2. ASSUME NEW i \in Setups
        PROVE  /\ setup[i].at \in Step /\ setup[i].tab \in 0 .. doc.made
               /\ {setup[i].alone, setup[i].hurt} \subseteq BOOLEAN
    <3>1. /\ setup[i].at \in Step /\ setup[i].tab \in Nat /\ setup[i].tab <= doc.made
          /\ {setup[i].alone, setup[i].hurt} \subseteq BOOLEAN
      BY <1>1, SetupTypes
    <3> QED BY <2>1, <3>1
  <2>3. /\ writer.at \in {"off", "open"} /\ writer.beside \in BOOLEAN
        /\ \A s \in Stream : writer.headers[s] \in Seq(AllFields \cup {Open})
    BY <1>1 DEF Typed, Names
  <2>4. layout \in DOMAIN Layouts /\ begun \in 0 .. MaxSetups /\ faults \in 0 .. MaxFaults
    BY <1>1 DEF Typed
  <2> QED BY <2>1, <2>2, <2>3, <2>4 DEF SetupTyped
<1>4. RowsAligned
  BY <1>1 DEF RowsAligned, Aligned, CellsAre
<1>5. ASSUME NEW i \in Setups, setup[i].at = "done", setup[i].alone, ~setup[i].hurt
      PROVE  /\ doc.overview
             /\ \A s \in Present(layout) : Matches(layout, s)
             /\ \A n \in doc.named : <<n[1], n[2]>> \in NamesOf(Wanted(layout)) =>
                   n \in Wanted(layout)
             /\ Wanted(layout) \subseteq doc.named
             /\ Sections(layout) # {} =>
                   doc.sections = Sections(layout) /\ doc.charts = Cardinality(doc.sections)
  <2>1. /\ Reached(layout, "done", doc) /\ ReachedHeaders(layout, "done", doc)
        /\ UpToDate(layout, setup[i], doc)
    BY <1>1, <1>5 DEF Progress
  <2>2. /\ TabsThere(layout, doc) /\ NamesSet(layout, doc) /\ RulesSet(layout, doc)
        /\ doc.overview /\ Guarded(layout, doc) /\ Banded(layout, doc)
        /\ HeadersSet(layout, doc) /\ LinksSet(layout, doc)
    BY <2>1 DEF Reached, ReachedHeaders, PastTabs, PastHeaders, PastNames, PastEnums, PastIntro,
                PastCharts, PastProtect, PastFormat
  <2>3. ASSUME NEW s \in Present(layout) PROVE Matches(layout, s)
    <3>1. s \in Stream
      BY DEF Present
    <3>2. /\ doc.tabs[s].at /\ IsPrefix(Fields(layout, s), doc.tabs[s].header)
          /\ s \in Linked => doc.tabs[s].header[Len(Fields(layout, s)) + 1] = Open
          /\ \A c \in 1 .. Len(Fields(layout, s)) :
                doc.tabs[s].rules[c] = Enum(layout, s, Fields(layout, s)[c])
          /\ doc.tabs[s].protected > 0 /\ doc.tabs[s].band > 0
      BY <2>2, <3>1 DEF TabsThere, HeadersSet, LinksSet, RulesSet, Guarded, Banded
    <3> QED BY <3>2 DEF Matches
  <2>4. Sections(layout) # {} =>
           doc.sections = Sections(layout) /\ doc.charts = Cardinality(doc.sections)
    BY <1>5, <2>1 DEF UpToDate, PastCharts, PastProtect, PastFormat
  <2> QED BY <2>2, <2>3, <2>4 DEF NamesSet
<1>6. SetupConverges
  BY <1>5 DEF SetupConverges
<1>7. SetupGoesThrough
  BY <1>1 DEF SetupGoesThrough, Progress, UpToDate
<1> QED BY <1>3, <1>4, <1>6, <1>7 DEF SetupSound

\* The inductive invariant of the setup of a spreadsheet: what each step of a setup
\* has brought about and no call of another one undoes, what it knows from its
\* fetches as long as nothing disturbs it, and where the layouts' columns are.
THEOREM SetupInvariant == SetupSpec => []SetupInv
<1>1. SetupInit => SetupInv
  BY SetupStarts
<1>2. SetupInv /\ [SetupNext]_workbook => SetupInv'
  BY SetupSteps
<1> QED BY <1>1, <1>2, PTL DEF SetupSpec

\* However many setups die, repeat calls and overlap, and whatever writers do beside
\* them: values stay under their headers, a setup that went through alone leaves the
\* spreadsheet as its layout wants it, and one that is alone is never refused
\* because of what the others left (ensureSheets, setup(), ensureHeadersForRecord).
THEOREM SetupIsSound == SetupSpec => []SetupSound
<1>1. SetupInv => SetupSound
  BY SetupInvIsSound
<1> QED BY <1>1, SetupInvariant, PTL

\* No setup replaces the enum of a column by another one, as long as layouts keep
\* their columns where they were (checkEnumValidations, then setEnumValidations).
THEOREM EnumsStay == SetupSpec => EnumsKept
<1> DEFINE Stay == ColumnsKept' => \A s \in Stream : \A f \in AllFields :
                      ruled[s][f] # None => ruled'[s][f] \in {ruled[s][f], None}
<1>1. ASSUME SetupInv, [SetupNext]_workbook PROVE [Stay]_workbook
  <2> SUFFICES ASSUME SetupNext, ColumnsKept', NEW s \in Stream, NEW f \in AllFields,
                      ruled[s][f] # None
               PROVE  ruled'[s][f] \in {ruled[s][f], None}
    BY <1>1
  <2>1. CASE ruled' = ruled
    BY <2>1
  <2>2. CASE \E i \in Setups : SetEnums(i)
    <3>1. PICK i \in Setups : SetEnums(i)
      BY <2>2
    <3>2. setup[i].at = "enums" /\ layout' = layout
      BY <3>1 DEF SetEnums, Call
    <3>3. ColumnsKept
      BY <3>2 DEF ColumnsKept
    <3>4. ruled'[s][f] = IF f \in Range(Fields(layout, s)) THEN Enum(layout, s, f)
                         ELSE ruled[s][f]
      BY <3>1 DEF SetEnums
    <3>5. f \in Range(Fields(layout, s)) /\ Enum(layout, s, f) # None
              => ruled[s][f] = Enum(layout, s, f)
      BY <1>1, <3>2, <3>3 DEF SetupInv, RulesKept
    <3> QED BY <3>4, <3>5
  <2>3. ruled' = ruled \/ \E i \in Setups : SetEnums(i)
    BY DEF SetupNext, BeginSetup, Fetch, CreateTabs, WriteHeaders, RecreateNames, CheckEnums,
           EnsureIntro, DropExamples, CreateExamples, AddCharts, Protect, Format, WriteLinks,
           Die, BeginWrite, EndWrite, WriteRow
  <2> QED BY <2>1, <2>2, <2>3
<1>2. SetupSpec => [][Stay]_workbook
  BY <1>1, SetupInvariant, PTL DEF SetupSpec
<1> QED BY <1>2 DEF EnumsKept
=============================================================================
