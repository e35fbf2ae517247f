----------------------------- MODULE LiveInputs -----------------------------
(* What brings live events to one read() of the Stripe source: the run loop *)
(* of the websocket client, the webhook server, and the queue that both     *)
(* push to.                                                                 *)
(*                                                                          *)
(* Callbacks run to their end one at a time, so each action is one of them, *)
(* with all that its promises resolve at once. A socket is a number; those  *)
(* above the last one made do not exist yet. What the events contain and    *)
(* what becomes of them downstream is the subject of LiveEvents.            *)
EXTENDS Naturals, Sequences, FiniteSets

CONSTANTS
    Configs,        \* pairs <<config.websocket, config.webhook_port is set>>
    MaxSockets,     \* bound: connection attempts
    MaxEvents       \* bound: events Stripe sends, over either way

ASSUME LiveInputsAssumption ==
    /\ Configs \subseteq BOOLEAN \X BOOLEAN
    /\ {MaxSockets, MaxEvents} \subseteq Nat \ {0}

VARIABLES
    config,
    socket,     \* per socket: what it is doing, and if it has its listeners
    client,     \* the variables of createStripeWebSocketClient
    loop,       \* where runLoop stands
    source,     \* where read() stands, and the input it works on
    queue,      \* createInputQueue: the queue
    server,     \* the webhook server accepts connections
    http,       \* per event: its HTTP request, if it comes as one
    acked,      \* websocket events acknowledged
    arrived,    \* history: inputs in the order in which they were pushed
    done        \* history: inputs taken, with what became of them

socketVars == <<socket, client, loop>>
sourceVars == <<source, queue, server, http, acked, arrived, done>>
vars == <<config, socketVars, sourceVars>>

Socket == 1 .. MaxSockets
Event  == 1 .. MaxEvents
Live   == 1 .. client.made

NoSocket == [at |-> "none", heard |-> FALSE]
NoInput  == [event |-> 0, way |-> "none"]

Init ==
    /\ config \in Configs
    /\ socket = [s \in Socket |-> NoSocket]
    /\ client = [run |-> FALSE, made |-> 0, ws |-> 0, connected |-> FALSE, ping |-> 0,
                 timer |-> FALSE, notify |-> FALSE]
    /\ loop = "off"
    /\ source = [at |-> "start", input |-> NoInput, aborted |-> FALSE]
    /\ queue = <<>> /\ server = FALSE
    /\ http = [e \in Event |-> "none"]
    /\ acked = {} /\ arrived = <<>> /\ done = <<>>

-----------------------------------------------------------------------------
(* The websocket client.                                                    *)

\* cleanupConnection
CleanSocket == IF client.ws = 0 THEN socket
               ELSE [socket EXCEPT ![client.ws] = [at |-> "closed", heard |-> FALSE]]
Cleaned(c)  == [c EXCEPT !.ping = 0, !.timer = FALSE, !.ws = 0, !.connected = FALSE]

\* the loop goes round: setupWebSocket, or the final cleanup
MayConnect == client.run => client.made < MaxSockets

GoRound(c, sockets) ==
    IF c.run
    THEN /\ client' = [c EXCEPT !.timer = FALSE, !.notify = FALSE, !.connected = FALSE,
                                !.made = @ + 1, !.ws = c.made + 1]
         /\ socket' = [sockets EXCEPT ![c.made + 1] = [at |-> "connecting", heard |-> TRUE]]
         /\ loop' = "connecting"
    ELSE /\ client' = Cleaned([c EXCEPT !.notify = FALSE])
         /\ socket' = [s \in Socket |-> IF s = c.ws THEN [sockets[s] EXCEPT !.heard = FALSE]
                                        ELSE sockets[s]]
         /\ loop' = "ended"

\* terminate() is local: its close event comes before any later handshake ends
NothingCloses == \A s \in Live : socket[s].at # "closing"

Opens ==
    LET s == client.ws
    IN  /\ loop = "connecting" /\ s # 0 /\ socket[s].at = "connecting" /\ NothingCloses
        /\ socket' = [socket EXCEPT ![s].at = "open"]
        /\ client' = [client EXCEPT !.connected = TRUE, !.ping = s, !.timer = TRUE,
                                    !.notify = TRUE]
        /\ loop' = "wait"
        /\ UNCHANGED <<config, sourceVars>>

\* refused, or not open within CONNECT_ATTEMPT_WAIT
FailsToOpen ==
    LET s == client.ws
    IN  /\ loop = "connecting" /\ s # 0 /\ socket[s].at = "connecting"
        /\ socket' = [socket EXCEPT ![s].at = "closed"]
        /\ client' = [client EXCEPT !.connected = FALSE, !.ping = 0]
        /\ loop' = "sleep"
        /\ UNCHANGED <<config, sourceVars>>

WakesUp ==
    /\ loop = "sleep" /\ MayConnect
    /\ GoRound(client, socket)
    /\ UNCHANGED <<config, sourceVars>>

\* the 'close' handler of any socket works on the variables of the client
OnClose(s) ==
    LET sockets == [socket EXCEPT ![s].at = "closed"]
        closed  == [client EXCEPT !.connected = FALSE, !.ping = 0]
    IN  IF client.notify THEN MayConnect /\ GoRound(closed, sockets)
        ELSE socket' = sockets /\ client' = closed /\ UNCHANGED loop

Closes ==
    /\ \E s \in Live :
        /\ socket[s].heard
        /\ socket[s].at = "closing" \/ (socket[s].at = "open" /\ NothingCloses)
        /\ OnClose(s)
    /\ UNCHANGED <<config, sourceVars>>

(* Mutant: the stale socket is not terminated.                             *)
StaleLeftOpen ==
    /\ client.ping # 0 /\ client.notify /\ socket[client.ws].at = "open" /\ MayConnect
    /\ GoRound(client, socket)
    /\ UNCHANGED <<config, sourceVars>>

\* the heartbeat finds no pong in PONG_WAIT; the loop is told before terminate()
Stale ==
    /\ client.ping # 0 /\ client.notify /\ socket[client.ws].at = "open" /\ MayConnect
    /\ GoRound(client, [socket EXCEPT ![client.ws].at = "closing"])
    /\ UNCHANGED <<config, sourceVars>>

\* the reconnect timer
Renews ==
    /\ client.timer /\ loop = "wait" /\ MayConnect
    /\ GoRound(Cleaned(client), CleanSocket)
    /\ UNCHANGED <<config, sourceVars>>

\* close(); while it connects the loop waits for ever, its socket is dropped
Stop == client' = Cleaned([client EXCEPT !.run = FALSE, !.notify = FALSE])

CloseClient ==
    /\ Stop
    /\ socket' = CleanSocket
    /\ loop' = IF loop = "wait" THEN "ended" ELSE loop

-----------------------------------------------------------------------------
(* The queue and its two ends.                                              *)

Input(e, way) == [event |-> e, way |-> way]
Sent == Cardinality({e \in Event : http[e] # "none"})

\* push: a waiter gets the input, else it is queued
Push(input) ==
    /\ arrived' = Append(arrived, input)
    /\ IF source.at = "waiting" /\ ~source.aborted
       THEN /\ source' = [source EXCEPT !.at = "processing", !.input = input]
            /\ UNCHANGED queue
       ELSE queue' = Append(queue, input) /\ UNCHANGED source

\* acknowledged first, and only then parsed and pushed
Message ==
    /\ Sent < MaxEvents
    /\ \E s \in Live : socket[s].at = "open" /\ socket[s].heard
    /\ acked' = IF client.ws # 0 /\ socket[client.ws].at = "open"
                THEN acked \cup {Sent + 1} ELSE acked
    /\ Push(Input(Sent + 1, "websocket"))
    /\ http' = [http EXCEPT ![Sent + 1] = "websocket"]
    /\ UNCHANGED <<config, socketVars, server, done>>

\* a POST whose body is still coming in
Request ==
    /\ Sent < MaxEvents /\ server
    /\ http' = [http EXCEPT ![Sent + 1] = "sending"]
    /\ UNCHANGED <<config, socketVars, source, queue, server, acked, arrived, done>>

Received(e) ==
    /\ http[e] = "sending"
    /\ http' = [http EXCEPT ![e] = "open"]
    /\ Push(Input(e, "http"))
    /\ UNCHANGED <<config, socketVars, server, acked, done>>

-----------------------------------------------------------------------------
(* read().                                                                  *)

\* without a CLI session read() throws
Start ==
    /\ source.at = "start" /\ ~source.aborted
    /\ \/ /\ source' = [source EXCEPT !.at = "backfill"]
          /\ IF config[1] THEN GoRound([client EXCEPT !.run = TRUE], socket)
                          ELSE UNCHANGED socketVars
       \/ /\ config[1]
          /\ source' = [source EXCEPT !.at = "ended"]
          /\ UNCHANGED socketVars
    /\ UNCHANGED <<config, queue, server, http, acked, arrived, done>>

Taken(outcome) == Append(done, [input |-> Head(queue), outcome |-> outcome])

\* drain: the item's data is taken for an event; a webhook's is none, and its
\* promise is not settled
DrainOne ==
    /\ source.at = "drain" \/ (source.at = "backfill" /\ config[1])
    /\ queue # <<>>
    /\ queue' = Tail(queue)
    /\ done' = Taken(IF Head(queue).way = "http" THEN "dropped" ELSE "processed")
    /\ UNCHANGED <<config, socketVars, source, server, http, acked, arrived>>

\* the backfill, then pollEvents, end; the server starts and the queue is drained
GoLive ==
    /\ source.at = "backfill" /\ ~source.aborted
    /\ IF config[1] \/ config[2]
       THEN source' = [source EXCEPT !.at = "drain"] /\ server' = config[2]
            /\ UNCHANGED socketVars
       ELSE source' = [source EXCEPT !.at = "ended"] /\ UNCHANGED <<server, socketVars>>
    /\ UNCHANGED <<config, queue, http, acked, arrived, done>>

(* Mutant: the queue is not looked at first.                               *)
WaitPastQueue ==
    /\ source.at = "drain" \/ source.at = "live"
    /\ source' = [source EXCEPT !.at = "waiting"]
    /\ UNCHANGED <<config, socketVars, queue, server, http, acked, arrived, done>>

\* wait(): what is queued first, then whatever is pushed next
Wait ==
    /\ (source.at = "drain" /\ queue = <<>>) \/ source.at = "live"
    /\ IF queue # <<>>
       THEN /\ source' = [source EXCEPT !.at = "processing", !.input = Head(queue)]
            /\ queue' = Tail(queue)
       ELSE /\ ~source.aborted
            /\ source' = [source EXCEPT !.at = "waiting"] /\ UNCHANGED queue
    /\ UNCHANGED <<config, socketVars, server, http, acked, arrived, done>>

\* Mutant: a failure is not answered.
NotRejected(ok) ==
    IF source.input.way = "http" /\ ok
    THEN [http EXCEPT ![source.input.event] = "200"] ELSE http

Settled(ok) ==
    IF source.input.way = "http"
    THEN [http EXCEPT ![source.input.event] = IF ok THEN "200" ELSE "500"] ELSE http

\* a failure is told to the sender of a webhook, and to nobody for the websocket
Process ==
    /\ source.at = "processing"
    /\ \E ok \in BOOLEAN :
        /\ http' = Settled(ok)
        /\ done' = Append(done, [input |-> source.input,
                                 outcome |-> IF ok THEN "processed" ELSE "failed"])
    /\ source' = [source EXCEPT !.at = "live", !.input = NoInput]
    /\ UNCHANGED <<config, socketVars, queue, server, acked, arrived>>

Abort ==
    /\ ~source.aborted /\ source.at # "ended"
    /\ source' = [source EXCEPT !.aborted = TRUE]
    /\ UNCHANGED <<config, socketVars, queue, server, http, acked, arrived, done>>

\* the wait or a request rejects, or return() comes at a yield: the finally block
End ==
    /\ source.aborted /\ source.at # "ended"
    /\ source' = [source EXCEPT !.at = "ended"]
    /\ server' = FALSE
    /\ IF config[1] /\ source.at # "start" THEN CloseClient ELSE UNCHANGED socketVars
    /\ UNCHANGED <<config, queue, http, acked, arrived, done>>

ClientNext == Opens \/ FailsToOpen \/ WakesUp \/ Closes \/ Stale \/ Renews
SourceNext == Start \/ DrainOne \/ GoLive \/ Wait \/ Process \/ End

Next ==
    \/ ClientNext \/ SourceNext \/ Abort
    \/ Message \/ Request \/ \E e \in Event : Received(e)

Spec == Init /\ [][Next]_vars

\* the promises and timers of the process run on, and a body comes to its end
Fairness ==
    /\ WF_vars(WakesUp) /\ WF_vars(Opens \/ FailsToOpen)
    /\ WF_vars(Start) /\ WF_vars(DrainOne) /\ WF_vars(GoLive) /\ WF_vars(Wait)
    /\ WF_vars(Process) /\ WF_vars(End)
    /\ \A e \in Event : WF_vars(Received(e))

FairSpec == Spec /\ Fairness

-----------------------------------------------------------------------------
(* Correctness.                                                             *)

Inputs == {NoInput} \cup [event : Event, way : {"websocket", "http"}]

\* The state is well typed, and an input is held only while it is processed.
TypeOK ==
    /\ config \in Configs
    /\ socket \in [Socket -> [at : {"none", "connecting", "open", "closing", "closed"},
                              heard : BOOLEAN]]
    /\ client.made \in 0 .. MaxSockets /\ {client.ws, client.ping} \subseteq 0 .. MaxSockets
    /\ {client.run, client.connected, client.timer, client.notify} \subseteq BOOLEAN
    /\ loop \in {"off", "connecting", "sleep", "wait", "ended"}
    /\ source.at \in {"start", "backfill", "drain", "live", "waiting", "processing", "ended"}
    /\ source.input \in Inputs
    /\ source.at = "processing" => source.input # NoInput
    /\ queue \in Seq(Inputs) /\ server \in BOOLEAN
    /\ http \in [Event -> {"none", "websocket", "sending", "open", "200", "500"}]
    /\ acked \subseteq Event

\* At any time one connection at most is open and heard, it is the one that
\* answers are sent on, and its heartbeat runs: no reconnect, whatever ended the
\* connection before, leaves a second one or one without a watch.
OneConnection ==
    \A s \in Live :
        socket[s].at = "open" /\ socket[s].heard =>
            /\ s = client.ws /\ client.connected
            /\ client.ping = s

\* Events are taken in the order in which they came, each once, whether a waiter
\* had them handed over or the queue held them: none is skipped or taken twice.
TakenInOrder ==
    LET takenNow == IF source.input = NoInput THEN <<>> ELSE <<source.input>>
        inputs   == [n \in DOMAIN done |-> done[n].input]
    IN  inputs \o takenNow \o queue = arrived

\* The sender of a webhook reads 200 only of an event that was processed, and 500
\* only of one that failed.
AnswersAreTrue ==
    \A e \in Event : http[e] \in {"200", "500"} =>
        \E n \in DOMAIN done :
            /\ done[n].input = Input(e, "http")
            /\ done[n].outcome = IF http[e] = "200" THEN "processed" ELSE "failed"

\* Once read() has ended nothing of it goes on: the server is closed, no socket
\* is heard, and the run loop makes no other one.
EndsQuietly ==
    source.at = "ended" =>
        /\ ~server /\ ~client.run
        /\ \A s \in Live : ~socket[s].heard \/ socket[s].at \in {"closing", "closed"}

\* While read() goes on, a lost or refused connection is followed by another.
Reconnects ==
    config[1] /\ client.run ~>
        client.connected \/ ~client.run \/ client.made = MaxSockets

\* Every webhook whose body came in is answered, unless read() ends first or the
\* drain before the live phase takes it for an event.
WebhooksAreAnswered ==
    \A e \in Event :
        http[e] = "open" ~>
            \/ http[e] \in {"200", "500"} \/ source.aborted
            \/ \E n \in DOMAIN done : done[n].input.event = e /\ done[n].outcome = "dropped"

\* Each event is taken once and in its turn, and the sender of a webhook is told
\* what became of it.
InputsAreSound == TypeOK /\ TakenInOrder /\ AnswersAreTrue

\* One connection is heard while read() goes on, and none afterwards.
ConnectionsAreSound == OneConnection /\ EndsQuietly

\* A lost connection is followed by another, and every webhook is answered.
InputsGoOn == Reconnects /\ WebhooksAreAnswered
=============================================================================
