--------------------------- MODULE StripeRequests ---------------------------
(* Requests to the Stripe API: the token bucket that the streams of one     *)
(* process, or by way of a row in Postgres several workers, share; the      *)
(* retries of withHttpRetry; the abort that ends a pipeline.                *)
(*                                                                          *)
(* A tick is the time in which the bucket gains one token, 1 / max_rps      *)
(* seconds. Timers fire when they are due and a response, or the timeout in *)
(* its place, comes within Timeout. Each caller makes one call: a list page *)
(* (through withRateLimit and the registry's listFn), another GET, or a     *)
(* POST or DELETE (both through the client).                                *)
EXTENDS Integers, FiniteSets, FiniteSetsExt

CONSTANTS
    Kind,           \* function from the callers to {"list", "get", "post"}
    Rate,           \* max_rps: the tokens of a full bucket
    MaxRetries,     \* MAX_RETRIES
    BackoffBase,    \* BACKOFF_BASE_MS
    BackoffMax,     \* BACKOFF_MAX_MS
    RetryAfter,     \* the delays that a retry-after header may ask for
    Timeout,        \* bound: time that a response may take
    MaxDelay,       \* bound: time between the start of acquire()'s transaction
                    \* and its turn; 0 for the bucket in memory
    LastStart,      \* bound: time of the last call
    MaxTime         \* bound: time

ASSUME StripeRequestsAssumption ==
    /\ IsFiniteSet(DOMAIN Kind) /\ Kind \in [DOMAIN Kind -> {"list", "get", "post"}]
    /\ {Rate, BackoffBase} \subseteq Nat \ {0}
    /\ {MaxRetries, BackoffMax, Timeout, MaxDelay, LastStart, MaxTime} \subseteq Nat
    /\ RetryAfter \subseteq Nat \ {0} /\ BackoffMax >= BackoffBase
    /\ \E longest \in {BackoffMax} \cup RetryAfter : \A delay \in RetryAfter : delay <= longest

VARIABLES
    now,
    bucket,     \* tokens, which may be negative, and the time of the last refill
    call,       \* per caller
    aborted,    \* the pipeline's signal
    grants      \* history: the caller and the due time of each token, in order

vars == <<now, bucket, call, aborted, grants>>

Caller == DOMAIN Kind
Ends   == {"ok", "empty", "failed", "aborted"}
Active(c) == call[c].at \notin Ends \cup {"idle"}

NoCall == [at |-> "idle", start |-> 0, due |-> 0, sends |-> 0, delay |-> BackoffBase,
           flying |-> FALSE, since |-> 0]

Init ==
    /\ now = 0 /\ aborted = FALSE /\ grants = {}
    /\ bucket = [tokens |-> Rate, last |-> 0]
    /\ call = [c \in Caller |-> NoCall]

-----------------------------------------------------------------------------
(* The bucket, in memory or in Postgres.                                    *)

\* Mutant: nobody waits.
NeverShort(stamp) == Max({1, Min({Rate, bucket.tokens + (stamp - bucket.last)})})

\* refill by the time elapsed, one second's worth at most; in Postgres now() is
\* the start of a transaction that has waited, and may lie before last_refill
Refilled(stamp) == Min({Rate, bucket.tokens + (stamp - bucket.last)})

Deficit(tokens) == IF tokens >= 0 THEN 0 ELSE -tokens

-----------------------------------------------------------------------------
(* A call.                                                                  *)

\* an ended call keeps nothing but its attempts
Ended(c, how) == [NoCall EXCEPT !.at = how, !.sends = call[c].sends]

Sending(c) == [call[c] EXCEPT !.at = "sent", !.sends = @ + 1, !.due = 0,
                                 !.flying = TRUE, !.since = now]

\* throwIfAborted before every attempt
Attempt(c) == IF aborted THEN Ended(c, "aborted") ELSE Sending(c)

Begin(c) ==
    /\ call[c].at = "idle" /\ now <= LastStart
    /\ call' = [call EXCEPT ![c] =
          IF Kind[c] = "list" /\ ~aborted
          THEN [NoCall EXCEPT !.at = "asking", !.start = now, !.since = now]
          ELSE [Attempt(c) EXCEPT !.start = IF aborted THEN 0 ELSE now]]
    /\ UNCHANGED <<now, bucket, aborted, grants>>

\* The token is reserved before the wait, and stays so if an abort ends the wait.
Acquire(c) ==
    /\ call[c].at = "asking"
    /\ LET stamp == call[c].since
           left  == Refilled(stamp) - 1
           due   == now + Deficit(left)
       IN  /\ bucket' = [tokens |-> left, last |-> stamp]
           /\ grants' = grants \cup {[n |-> Cardinality(grants) + 1, due |-> due]}
           /\ call' = [call EXCEPT ![c] =
                IF due = now \/ aborted THEN Attempt(c)
                ELSE [@ EXCEPT !.at = "waiting", !.due = due, !.since = 0]]
    /\ UNCHANGED <<now, aborted>>

\* the wait for the token, or the sleep before a retry, is over
Wake(c) ==
    /\ call[c].at \in {"waiting", "backoff"} /\ call[c].due = now
    /\ call' = [call EXCEPT ![c] = Attempt(c)]
    /\ UNCHANGED <<now, bucket, aborted, grants>>

EndCall(c, how) ==
    call' = [call EXCEPT ![c] = Ended(c, IF @.at = "aborted" THEN "aborted" ELSE how)]

\* 2xx; a body that is no JSON is an error for the client and an empty last page
\* for the list functions
Succeed(c) ==
    /\ call[c].flying
    /\ \/ EndCall(c, "ok")
       \/ EndCall(c, IF Kind[c] = "list" THEN "empty" ELSE "failed")
    /\ UNCHANGED <<now, bucket, aborted, grants>>

\* Mutant: one try too many.
OneMoreTry(c)     == Kind[c] = "post" \/ call[c].sends > MaxRetries + 1
Exhausted(c)      == Kind[c] = "post" \/ call[c].sends > MaxRetries

\* Sleeps as long as retry-after says, else the backoff, which doubles either way.
\* After an abort sleep() throws at once.
Retried(c) ==
    LET next == Min({2 * call[c].delay, BackoffMax})
    IN  \E delay \in {call[c].delay} \cup RetryAfter :
            call' = [call EXCEPT ![c] =
                IF call[c].at = "aborted" THEN Ended(c, "aborted")
                ELSE [@ EXCEPT !.at = "backoff", !.flying = FALSE, !.since = 0,
                               !.due = now + delay, !.delay = next]]

\* 429, 5xx, a timeout or a network error
FailForNow(c) ==
    /\ call[c].flying
    /\ IF Exhausted(c) THEN EndCall(c, "failed") ELSE Retried(c)
    /\ UNCHANGED <<now, bucket, aborted, grants>>

\* any other status
Fail(c) ==
    /\ call[c].flying
    /\ EndCall(c, "failed")
    /\ UNCHANGED <<now, bucket, aborted, grants>>

\* Waits and sleeps reject and a list page loses the race, at once; the fetch of
\* a list page has no signal and goes on, that of the client is cut.
Abort ==
    /\ ~aborted
    /\ aborted' = TRUE
    /\ call' = [c \in Caller |->
          IF call[c].at \in {"waiting", "backoff", "sent"}
          THEN IF call[c].flying /\ Kind[c] = "list" THEN [call[c] EXCEPT !.at = "aborted"]
               ELSE Ended(c, "aborted")
          ELSE call[c]]
    /\ UNCHANGED <<now, bucket, grants>>

Urgent(c) ==
    \/ call[c].at \in {"waiting", "backoff"} /\ call[c].due = now
    \/ call[c].at = "asking" /\ now - call[c].since >= MaxDelay
    \/ call[c].flying /\ now - call[c].since >= Timeout

Tick ==
    /\ now < MaxTime /\ \A c \in Caller : ~Urgent(c)
    /\ now' = now + 1
    /\ UNCHANGED <<bucket, call, aborted, grants>>

Next ==
    \/ Tick \/ Abort
    \/ \E c \in Caller : \/ Begin(c) \/ Acquire(c) \/ Wake(c)
                         \/ Succeed(c) \/ FailForNow(c) \/ Fail(c)

Spec == Init /\ [][Next]_vars

-----------------------------------------------------------------------------
(* Correctness.                                                             *)

\* The state is well typed, and a fetch is under way for a call that was sent or
\* for a list page that an abort has left behind.
TypeOK ==
    /\ now \in 0 .. MaxTime /\ aborted \in BOOLEAN
    /\ bucket.tokens \in Int /\ bucket.tokens <= Rate - (IF grants = {} THEN 0 ELSE 1)
    /\ bucket.last \in 0 .. now
    /\ \A c \in Caller :
        /\ call[c].at \in Ends \cup {"idle", "asking", "waiting", "sent", "backoff"}
        /\ call[c].at = "sent" => call[c].flying
        /\ call[c].flying => call[c].at = "sent" \/ (Kind[c] = "list" /\ aborted)
        /\ call[c].delay \in BackoffBase .. BackoffMax

\* However callers interleave, and although transactions reach the row later than
\* their time stamps say and out of their order, no window of time has more
\* tokens due in it than one full bucket and what refills meanwhile.
TokensWithinRate ==
    \A first, last \in {g.due : g \in grants} :
        first <= last =>
            Cardinality({g \in grants : g.due \in first .. last})
                <= Rate + (last - first) + MaxDelay

\* A token granted later is never due earlier, so that nobody is overtaken and a wait
\* is bounded by the requests before it. Only where transactions wait for the row can
\* a request that waited be overtaken, and by fewer than MaxDelay others.
FirstComeFirstServed ==
    \A g, h \in grants : g.n < h.n /\ g.n + MaxDelay <= h.n => g.due <= h.due

\* A request goes out again only after a passing failure, MAX_RETRIES times at
\* most, and never one that creates or deletes something at Stripe.
RetriesAreSafe ==
    \A c \in Caller :
        /\ call[c].sends <= MaxRetries + 1
        /\ Kind[c] = "post" => call[c].sends <= 1

LongestWait == Cardinality(Caller) + 2 * MaxDelay
Longest(c) ==
    LET step == Max({BackoffMax} \cup RetryAfter)
    IN  CASE Kind[c] = "list" -> LongestWait + (MaxRetries + 1) * Timeout + MaxRetries * step
          [] Kind[c] = "get"  -> (MaxRetries + 1) * Timeout + MaxRetries * step
          [] OTHER            -> Timeout

\* No call hangs: whatever the responses, it ends within the waits, the attempts
\* and the pauses that it may take.
EndsInTime == \A c \in Caller : Active(c) => now - call[c].start <= Longest(c)

\* After an abort no request goes out any more, whatever its caller was doing when
\* the abort came: asking for a token, waiting for it, or about to try again.
NothingAfterAbort ==
    [][aborted => \A c \in Caller : call'[c].sends = call[c].sends]_vars

\* The bucket keeps to its rate and to the order of its callers.
RateKept == TypeOK /\ TokensWithinRate /\ FirstComeFirstServed

\* Retries repeat only what may be repeated, and come to an end in time.
RetriesEnd == RetriesAreSafe /\ EndsInTime
=============================================================================
