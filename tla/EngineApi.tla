----------------------------- MODULE EngineApi ------------------------------
(* The engine's HTTP API: requests of clients, the connectors resolved for  *)
(* them and run in the engine's process or as processes of their own, and   *)
(* the NDJSON answer that is written while they run.                        *)
(*                                                                          *)
(* There is one source and one destination. One that runs as a process is   *)
(* taken to be the only one of its role, as the API accepts the registered  *)
(* ones only where there are any. Promise callbacks run one at a time, so   *)
(* an action is all that follows from one message, exit or timer. What the  *)
(* messages say and what a sync makes of them is the subject of SyncRun.    *)
EXTENDS Naturals, Sequences, SequencesExt, FiniteSets

CONSTANTS
    Request,        \* requests
    Asks,           \* per request: the operations it may be
    Spoken,         \* the kinds of message connectors use
    MaxItems        \* bound: messages of a connector for one request

Side == {"source", "destination"}

(* The message union, and what each operation may answer. A connection      *)
(* status is told apart by its status.                                      *)
ConnectionStatus == {"connection_succeeded", "connection_failed"}
CoreMessage == ConnectionStatus \cup
               {"record", "source_state", "catalog", "log", "spec", "stream_status", "control"}
Eof     == {"eof", "eof_more", "eof_failed"}
Message == CoreMessage \cup Eof \cup {"progress", "source_input"}

OutputOf == [check    |-> ConnectionStatus \cup {"log"},
             setup    |-> {"control", "log"},
             teardown |-> {"log"},
             discover |-> {"catalog", "log"},
             read     |-> CoreMessage,
             write    |-> Message,
             sync     |-> CoreMessage,
             batch    |-> CoreMessage]

Op     == DOMAIN OutputOf
Merged == {"check", "setup", "teardown", "discover"}
Piped  == {"sync", "batch"}
Hears  == {"read", "write", "sync"}         \* the routes with createConnectionAbort

ASSUME EngineApiAssumption ==
    /\ Asks \in [Request -> SUBSET Op]
    /\ Spoken \subseteq Message
    /\ MaxItems \in Nat \ {0}

VARIABLES
    up,         \* the server's process lives
    kind,       \* per side: the connector is "inprocess" or a "subprocess"
    found,      \* sides whose connector is registered, or whose command is found
    cache,      \* sourceCache and destCache: sides with a connector
    schemas,    \* _sources and _destinations: sides with their config schema
    made,       \* history: connectors made per side
    req         \* per request: how far it is, see Idle

vars == <<up, kind, found, cache, schemas, made, req>>

Idle == [op       |-> "none",
         sides    |-> {},           \* the sides that run
         stage    |-> "idle",
         fresh    |-> {},           \* sides whose spec is awaited by resolveSource/-Destination
         run      |-> [s \in Side |-> "off"],   \* their streams, and processes
         pump     |-> "none",       \* spawnWithStdin's loop that feeds the destination
         pulled   |-> 0,            \* messages taken from the source
         said     |-> [s \in Side |-> 0],       \* messages a side has answered
         soft     |-> FALSE,        \* limitSource: stopped
         answer   |-> <<>>,         \* what the client was sent
         client   |-> "none",
         stopping |-> FALSE,        \* return() was called on the answer's iterator
         after    |-> 0]            \* history: messages made for a client that left, since

Init ==
    /\ up = TRUE
    /\ kind \in [Side -> {"inprocess", "subprocess"}]
    /\ \E S \in SUBSET {s \in Side : kind[s] = "subprocess"} : found = Side \ S
    /\ cache = {s \in Side : kind[s] = "inprocess"}
    /\ schemas = cache
    /\ made = [s \in Side |-> 0]
    /\ req = [r \in Request |-> Idle]

-----------------------------------------------------------------------------
(* Ends and answers, as operators on the record of a request.               *)

\* resolvePipeline resolves both connectors, whichever run, and a setup discovers
Needs(q)   == IF q.op \in Merged \ {"setup"} THEN q.sides ELSE Side
\* sides whose messages become the answer
Speaks(q)  == IF q.op \in Piped THEN {"destination"} ELSE q.sides
Alive(q)   == q.stage = "running"
\* A consumer that returns at a yield of what it consumes ends it at once: a process is
\* killed by withAbortOnReturn, a generator runs its finally. One with next() pending
\* ends with the next message, or never: "closing".
Returned(q, S) == [q.run EXCEPT !["source"]      = IF "source" \in S /\ @ = "running" THEN "killed" ELSE @,
                                !["destination"] = IF "destination" \in S /\ @ = "running" THEN "killed" ELSE @]
\* Returning a destination of this process returns the source it reads from; to one that
\* is a process the source is only fed by the pump, which goes on.
Chain == IF kind["destination"] = "inprocess" THEN Side ELSE {"destination"}

ClosedAtYield(q) ==
    CASE q.op \in Merged -> [s \in Side |-> IF q.run[s] = "running" THEN "closing" ELSE q.run[s]]
      [] q.op \in Piped  -> Returned(q, Chain)
      [] OTHER           -> Returned(q, Side)

Told(q) == \E i \in DOMAIN q.answer : q.answer[i] = "connection_failed"

\* the end of the response: controller.close, or the JSON of a batch
Over(q) == [q EXCEPT !.stage  = "over",
                     !.client = IF @ = "reading" THEN "done" ELSE @]

\* mutant of Say: nothing calls return() when the client leaves
SayOn(q, ms) == IF ms # <<>> /\ q.stopping THEN [q EXCEPT !.after = @ + 1]
                ELSE [q EXCEPT !.answer = IF q.client = "reading" THEN @ \o ms ELSE @]

\* messages go through logApiStream and ndjsonResponse; once return() is called the
\* next one ends the chain
Say(q, ms) ==
    IF ms = <<>> THEN q
    ELSE IF q.stopping
         THEN Over([q EXCEPT !.after = @ + 1, !.run = ClosedAtYield(q)])
         ELSE [q EXCEPT !.answer = IF q.client = "reading" THEN @ \o ms ELSE @]

Bounded(q) == q.op \in {"sync", "read"}      \* eof is the last message

Ends(q, eof) == Over(Say(q, IF Bounded(q) THEN <<eof>> ELSE <<>>))

\* mutant of Throws: logApiStream rethrows, and the response just ends
ThrowsQuietly(q) == Over(Say(q, IF Bounded(q) THEN <<"eof_failed">> ELSE <<>>))

\* the engine's generator throws: the eof of its catch, then logApiStream's notice; of a
\* batch onError makes a 500
Throws(q) ==
    LET eof    == IF Bounded(q) THEN <<"eof_failed">> ELSE <<>>
        notice == IF Told(q) THEN <<>> ELSE <<"log", "connection_failed">>
    IN  IF q.op = "batch"
        THEN [q EXCEPT !.stage = "over", !.client = IF @ = "reading" THEN "refused" ELSE @]
        ELSE Over(Say(q, eof \o notice))

Become(r, q) == req' = [req EXCEPT ![r] = q]

-----------------------------------------------------------------------------
(* Requests and connector resolution.                                       *)

Ask(r) ==
    /\ up /\ req[r].stage = "idle"
    /\ \E op \in Asks[r], S \in (SUBSET Side) \ {{}} :
        /\ CASE op \in {"read", "discover"} -> S = {"source"}
             [] op = "write"                -> S = {"destination"}
             [] op \in Piped                -> S = Side
             [] OTHER                       -> TRUE
        /\ Become(r, [Idle EXCEPT !.op = op, !.sides = S, !.stage = "asked",
                                  !.client = "reading"])
    /\ UNCHANGED <<up, kind, found, cache, schemas, made>>

\* defaultHook: a body the schemas do not accept
Refuse(r) ==
    /\ up /\ req[r].stage = "asked"
    /\ Become(r, [req[r] EXCEPT !.stage = "over",
                                !.client = IF @ = "reading" THEN "refused" ELSE @])
    /\ UNCHANGED <<up, kind, found, cache, schemas, made>>

\* mutants of New: the connector is cached when its spec is known; also without a command
NewUntilSpec(q) == (Needs(q) \ schemas) \cap found

\* the connectors that resolveSource and resolveDestination make before their await
New(q) == (Needs(q) \ cache) \cap found

Resolve(r) ==
    LET q == req[r] IN
    /\ up /\ q.stage = "asked"
    /\ cache' = cache \cup New(q)
    /\ made' = [s \in Side |-> made[s] + IF s \in New(q) THEN 1 ELSE 0]
    /\ Become(r, LET p == [q EXCEPT !.stage = "resolving", !.fresh = New(q)]
                 IN  IF Needs(q) \subseteq cache \cup New(q) THEN p ELSE Throws(p))
    /\ UNCHANGED <<up, kind, found, schemas>>

\* configSchemaFromSpec; the connector stays in the cache when it fails
SpecOf(r, s) ==
    LET q == req[r] IN
    /\ up /\ s \in q.fresh
    /\ \/ /\ schemas' = schemas \cup {s}
          /\ Become(r, [q EXCEPT !.fresh = @ \ {s}])
       \/ /\ UNCHANGED schemas
          /\ Become(r, LET p == [q EXCEPT !.fresh = @ \ {s}]
                       IN  IF q.stage = "resolving" THEN Throws(p) ELSE p)
    /\ UNCHANGED <<up, kind, found, cache, made>>

\* getSpec, configuration and discovery: the connectors start, or it throws
Started(q) == [q EXCEPT !.stage = "running",
                        !.run   = [s \in Side |-> IF s \in q.sides THEN "running" ELSE "off"],
                        !.pump  = IF q.op \in Piped \cup {"write"} /\ kind["destination"] = "subprocess"
                                  THEN "open" ELSE "none"]

Start(r) ==
    LET q == req[r] IN
    /\ up /\ q.stage = "resolving" /\ q.fresh = {}
    /\ Become(r, Started(q)) \/ Become(r, Throws(q))
    /\ UNCHANGED <<up, kind, found, cache, schemas, made>>

-----------------------------------------------------------------------------
(* Connectors run.                                                          *)

\* what the engine makes of a message of a connector
Emits(q, m) ==
    CASE q.op = "batch" -> <<>>
      [] q.op = "sync" /\ m = "record" -> <<>>
      [] q.op = "sync" /\ m \in ConnectionStatus \cup {"stream_status", "source_state"} -> <<m, "progress">>
      [] OTHER -> <<m>>

ConnectorSays(r, s) ==
    LET q == req[r] IN
    /\ up /\ Alive(q) /\ s \in Speaks(q) /\ q.run[s] = "running"
    /\ q.said[s] < MaxItems
    /\ q.op \in Piped => q.said[s] < q.pulled
    /\ \E m \in OutputOf[q.op] \cap Spoken :
        Become(r, Say([q EXCEPT !.said[s] = @ + 1], Emits(q, m)))
    /\ UNCHANGED <<up, kind, found, cache, schemas, made>>

\* the source has a message for the destination, which the pump or its loop takes
Feeds(q) == /\ q.pulled < MaxItems
            /\ q.op = "write" \/ (q.op \in Piped /\ q.run["source"] = "running")

SourceGives(r) ==
    LET q == req[r] IN
    /\ up /\ q.op \in Piped /\ Feeds(q) /\ q.run["destination"] = "running"
    /\ q.pump \in {"none", "open"}
    /\ Become(r, [q EXCEPT !.pulled = @ + 1])
    /\ UNCHANGED <<up, kind, found, cache, schemas, made>>

\* The pump writes to a process that is gone: write() is false and no drain comes, or the
\* write fails before its exit is noticed and nobody hears the error of stdin.
PumpToTheDead(r) ==
    LET q == req[r] IN
    /\ up /\ Feeds(q) /\ q.pump = "open" /\ q.run["destination"] \in {"done", "crashed", "killed"}
    /\ \/ Become(r, [q EXCEPT !.pulled = @ + 1, !.pump = "stuck"]) /\ UNCHANGED up
       \/ /\ up' = FALSE
          /\ req' = [x \in Request |->
                        [req[x] EXCEPT !.client = IF @ = "reading" THEN "cut" ELSE @]]
    /\ UNCHANGED <<kind, found, cache, schemas, made>>

\* mutant of SourceStops: the pump forgets stdin.end()
SourceStopsUnheard(r, how) ==
    LET q == req[r] IN
    /\ up /\ q.op \in Piped /\ q.run["source"] = "running" /\ q.pump # "stuck"
    /\ Become(r, IF how = "crashed" /\ q.pump = "none" /\ q.run["destination"] = "running"
                 THEN Throws([q EXCEPT !.run = [source |-> how, destination |-> "crashed"]])
                 ELSE [q EXCEPT !.run["source"] = how])
    /\ UNCHANGED <<up, kind, found, cache, schemas, made>>

\* The source's stream ends, or fails, also when its process is gone; its consumer is the destination or the pump, which
\* swallows the error and ends the destination's input.
SourceStops(r, how) ==
    LET q    == req[r]
        ends == [q EXCEPT !.run["source"] = how,
                          !.pump = IF @ = "open" THEN "closed" ELSE @]
    IN
    /\ up /\ q.op \in Piped /\ q.run["source"] = "running" /\ q.pump # "stuck"
    /\ Become(r, IF how = "crashed" /\ q.pump = "none" /\ q.run["destination"] = "running"
                 THEN Throws([ends EXCEPT !.run["destination"] = "crashed"])
                 ELSE ends)
    /\ UNCHANGED <<up, kind, found, cache, schemas, made>>

\* a destination ends by itself when its input has ended
InputEnded(q) == CASE q.op \in Piped -> q.run["source"] # "running" /\ q.pump # "open"
                   [] OTHER          -> TRUE

\* a stream that becomes the answer ends; of merged ones the last ends the answer
StreamEnds(r, s) ==
    LET q == req[r]
        p == [q EXCEPT !.run[s] = "done"]
    IN
    /\ up /\ Alive(q) /\ s \in Speaks(q) /\ q.run[s] = "running" /\ InputEnded(q)
    /\ Become(r, IF \E t \in Speaks(q) : p.run[t] = "running" THEN p
                 ELSE Ends(p, IF q.soft THEN "eof_more" ELSE "eof"))
    /\ UNCHANGED <<up, kind, found, cache, schemas, made>>

StreamFails(r, s) ==
    LET q == req[r]
        p == [q EXCEPT !.run = IF q.op \in Piped
                               THEN [Returned(q, Chain) EXCEPT ![s] = "crashed"]
                               ELSE [ClosedAtYield(q) EXCEPT ![s] = "crashed"]]
    IN
    /\ up /\ Alive(q) /\ s \in Speaks(q) /\ q.run[s] = "running"
    /\ Become(r, Throws(p))
    /\ UNCHANGED <<up, kind, found, cache, schemas, made>>

\* A process prints a line that is no JSON: its stream fails while it lives. takeLimits
\* closes what it was reading, and so kills it; nobody else does.
Garbage(r, s) ==
    LET q    == req[r]
        left == IF Bounded(q) THEN "killed" ELSE "garbled"
    IN
    /\ up /\ Alive(q) /\ s \in Speaks(q) /\ kind[s] = "subprocess" /\ q.run[s] = "running"
    /\ Become(r, Throws([q EXCEPT !.run =
                           IF q.op \in Merged THEN [ClosedAtYield(q) EXCEPT ![s] = left]
                                              ELSE [@ EXCEPT ![s] = left]]))
    /\ UNCHANGED <<up, kind, found, cache, schemas, made>>

-----------------------------------------------------------------------------
(* Limits, clients that leave, and what ends later.                         *)

\* mutant of Pending: the process is not killed
PendingOnly(q, S) == [s \in Side |-> IF s \in S /\ q.run[s] = "running" THEN "closing"
                                     ELSE q.run[s]]

\* a stream that is returned while its next() is pending
Pending(q, S) == [s \in Side |-> IF s \in S /\ q.run[s] = "running"
                                 THEN IF kind[s] = "subprocess" THEN "killed" ELSE "closing"
                                 ELSE q.run[s]]

\* time_limit: takeLimits makes the eof and does not wait for the stream to end
HardLimit(r) ==
    LET q == req[r] IN
    /\ up /\ Alive(q) /\ Bounded(q)
    /\ Become(r, Ends([q EXCEPT !.run = Pending(q, Speaks(q))], "eof_more"))
    /\ UNCHANGED <<up, kind, found, cache, schemas, made>>

\* soft_time_limit: limitSource ends the destination's input
SoftLimit(r) ==
    LET q == req[r] IN
    /\ up /\ Alive(q) /\ q.op = "sync" /\ ~q.soft /\ q.run["source"] = "running" /\ q.pump # "stuck"
    /\ Become(r, [q EXCEPT !.soft = TRUE, !.run = Pending(q, {"source"}),
                           !.pump = IF @ = "open" THEN "closed" ELSE @])
    /\ UNCHANGED <<up, kind, found, cache, schemas, made>>

\* withSetupTimeout: a side that takes too long counts as set up
SetupLimit(r, s) ==
    LET q == req[r]
        p == [q EXCEPT !.run[s] = "closing"]
    IN
    /\ up /\ Alive(q) /\ q.op = "setup" /\ q.run[s] = "running"
    /\ Become(r, IF \E t \in q.sides : p.run[t] = "running" THEN p ELSE Ends(p, "eof"))
    /\ UNCHANGED <<up, kind, found, cache, schemas, made>>

\* The client goes away. Before the route runs nobody notices; the routes without a
\* signal notice as far as the runtime cancels the stream.
Leave(r) ==
    LET q == req[r] IN
    /\ up /\ q.client = "reading"
    /\ \E noticed \in BOOLEAN :
        /\ CASE q.stage = "asked" \/ q.op = "batch" -> noticed = FALSE
             [] q.op \in Hears                      -> noticed = TRUE
             [] OTHER                               -> TRUE
        /\ Become(r, [q EXCEPT !.client = "left", !.stopping = noticed])
    /\ UNCHANGED <<up, kind, found, cache, schemas, made>>

\* the pending next() of a closing stream settles; a destination ends its source
ClosingEnds(r, s) ==
    LET q == req[r]
        p == [q EXCEPT !.run[s] = "killed"]
    IN
    /\ up /\ q.run[s] = "closing"
    /\ Become(r, IF q.op \in Piped /\ s = "destination"
                 THEN [p EXCEPT !.run["source"] = IF @ \in {"running", "closing"} THEN "killed" ELSE @]
                 ELSE p)
    /\ UNCHANGED <<up, kind, found, cache, schemas, made>>

Next == \E r \in Request :
    \/ Ask(r) \/ Refuse(r) \/ Resolve(r) \/ Start(r)
    \/ SourceGives(r) \/ PumpToTheDead(r)
    \/ \E how \in {"done", "crashed"} : SourceStops(r, how)
    \/ HardLimit(r) \/ SoftLimit(r) \/ Leave(r)
    \/ \E s \in Side : \/ SpecOf(r, s) \/ ConnectorSays(r, s) \/ StreamEnds(r, s)
                       \/ StreamFails(r, s) \/ Garbage(r, s) \/ SetupLimit(r, s)
                       \/ ClosingEnds(r, s)

Spec == Init /\ [][Next]_vars

(* Specs and discovery return, and streams end if nothing else does it; no  *)
(* connector need fail, no limit need fire and no client need stay.         *)
Progress(r) == \/ Resolve(r) \/ Start(r) \/ SourceStops(r, "done")
               \/ \E s \in Side : SpecOf(r, s) \/ StreamEnds(r, s)

FairSpec == Spec /\ \A r \in Request : WF_vars(Progress(r))

-----------------------------------------------------------------------------
(* Properties.                                                              *)

TypeOK ==
    /\ up \in BOOLEAN /\ kind \in [Side -> {"inprocess", "subprocess"}]
    /\ found \subseteq Side /\ schemas \subseteq cache /\ cache \subseteq found
    /\ made \in [Side -> Nat]
    /\ \A r \in Request :
        LET q == req[r] IN
        /\ q.op \in Op \cup {"none"} /\ q.sides \subseteq Side /\ q.fresh \subseteq Side
        /\ q.stage \in {"idle", "asked", "resolving", "running", "over"}
        /\ q.run \in [Side -> {"off", "running", "closing", "done", "crashed", "garbled", "killed"}]
        /\ q.pump \in {"none", "open", "closed", "stuck"}
        /\ q.pulled \in 0 .. MaxItems /\ q.said \in [Side -> 0 .. MaxItems]
        /\ q.soft \in BOOLEAN /\ q.stopping \in BOOLEAN /\ q.after \in Nat
        /\ q.answer \in Seq(Message)
        /\ q.client \in {"none", "reading", "done", "refused", "left", "cut"}

\* The resolver makes one connector per role and name, however requests for it overlap:
\* the cache is filled before the spec is awaited.
OneConnector == \A s \in Side : made[s] <= 1

\* Once the server has noticed that a client left, it takes at most one more message out
\* of the engine for it, whatever the connectors would still have to say.
StopsAfterOne == \A r \in Request : req[r].after <= 1

\* A client that sees its answer end without an error can rely on it: a sync or read told
\* its eof once, with nothing but the notice of a failure after it, and every stream that
\* made up the answer ended well unless the answer says otherwise.
CleanEnd(q) ==
    /\ Bounded(q) =>
        \E i \in DOMAIN q.answer :
            /\ q.answer[i] \in Eof
            /\ \A j \in DOMAIN q.answer \ {i} : q.answer[j] \notin Eof
            /\ i < Len(q.answer) => /\ q.answer[i] = "eof_failed"
                                    /\ Len(q.answer) = i + 2 /\ Last(q.answer) = "connection_failed"
    /\ \/ Told(q)
       \/ \E i \in DOMAIN q.answer : q.answer[i] \in {"eof_more", "eof_failed"}
       \/ \A s \in Speaks(q) : q.run[s] \in IF q.op = "setup" THEN {"done", "closing", "killed"} ELSE {"done"}

AnswersAreTrue == \A r \in Request : req[r].client = "done" => CleanEnd(req[r])

\* No process is left behind by a sync or a read that is over: each has ended or was told
\* to. Only a source waits on, until a destination of the engine's own process that was
\* cut off sees its next message, or for ever where a pump holds it.
HeldBack(q, s) == /\ s = "source" /\ q.op = "sync"
                  /\ q.pump \in {"open", "stuck"} \/ q.run["destination"] = "closing"

NoProcessLeft ==
    \A r \in Request, s \in Side :
        /\ Bounded(req[r]) /\ req[r].stage = "over" /\ kind[s] = "subprocess"
        /\ req[r].run[s] \in {"running", "closing", "garbled"}
        => HeldBack(req[r], s)

\* Every request is answered, refused or cut, unless its client leaves.
EveryRequestIsAnswered ==
    \A r \in Request : req[r].stage = "asked" ~> req[r].client # "reading"

\* A source that failed is told to the client of a sync that ended well: "The main
\* generator will surface the error via the non-zero exit code path below"
\* (exec-helpers.ts:88).
SourceFailureIsTold ==
    \A r \in Request :
        LET q == req[r] IN
        /\ q.client = "done" /\ q.op = "sync" /\ q.run["source"] = "crashed"
        => Told(q) \/ "eof_failed" \in ToSet(q.answer)
=============================================================================
