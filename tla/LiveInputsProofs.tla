-------------------------- MODULE LiveInputsProofs ---------------------------
(* Proofs about LiveInputs, for any number of connection attempts and of    *)
(* events.  The run loop of the websocket client and the queue of inputs    *)
(* meet in source only: one invariant for each.                             *)
EXTENDS LiveInputs, FiniteSetTheorems, SequenceTheorems, TLAPS

SocketState == {r \in [at : {"none", "connecting", "open", "closing", "closed"},
                       heard : BOOLEAN] : r.at = "none" => ~r.heard}
Client == [run : BOOLEAN, made : 0 .. MaxSockets, ws : 0 .. MaxSockets, connected : BOOLEAN,
           ping : 0 .. MaxSockets, timer : BOOLEAN, notify : BOOLEAN]
Loops  == {"off", "connecting", "sleep", "wait", "ended"}
Source == [at : {"start", "backfill", "drain", "live", "waiting", "processing", "ended"},
           input : Inputs, aborted : BOOLEAN]

-----------------------------------------------------------------------------
(* The websocket client.                                                    *)

ClientTyped ==
    /\ config \in BOOLEAN \X BOOLEAN /\ config \in Configs
    /\ socket \in [Socket -> SocketState] /\ client \in Client /\ loop \in Loops
    /\ source \in Source /\ server \in BOOLEAN
    /\ client.ws <= client.made
    /\ \A s \in Socket : s > client.made => socket[s] = NoSocket

\* The loop waits only on an open connection that is the client's, and then it
\* can be told of its end; a socket that connects or is open is the client's.
Connected ==
    /\ client.notify <=> loop = "wait"
    /\ loop = "wait" =>
          /\ client.run /\ client.connected
          /\ client.ws \in Live /\ client.ping = client.ws
          /\ socket[client.ws].at = "open" /\ NothingCloses
    /\ \A s \in Socket :
          /\ socket[s].at = "connecting" => s = client.ws /\ loop = "connecting"
          /\ socket[s].at = "open" => s = client.ws /\ loop = "wait"

\* The client runs for a read() that has begun and not ended, and without it
\* nothing connects or is open.
RunsForRead ==
    /\ client.run => config[1] /\ source.at \notin {"start", "ended"}
    /\ source.at = "start" \/ ~config[1] => client.made = 0
    /\ ~client.run => \A s \in Socket : socket[s].at \notin {"connecting", "open"}
    /\ server => source.at \in {"drain", "live", "waiting", "processing"}

ClientInv == ClientTyped /\ Connected /\ RunsForRead

LEMMA BoundsAre == /\ MaxSockets \in Nat \ {0} /\ MaxEvents \in Nat \ {0}
                   /\ 0 \in 0 .. MaxSockets
  BY LiveInputsAssumption

\* The client keeps the rest of its record.
LEMMA ClientRests ==
    ASSUME NEW c \in Client
    PROVE  /\ [c EXCEPT !.connected = FALSE, !.ping = 0] \in Client
           /\ [c EXCEPT !.connected = FALSE, !.ping = 0].run = c.run
           /\ [c EXCEPT !.connected = FALSE, !.ping = 0].made = c.made
           /\ [c EXCEPT !.connected = FALSE, !.ping = 0].ws = c.ws
           /\ [c EXCEPT !.connected = FALSE, !.ping = 0].notify = c.notify
  BY BoundsAre DEF Client

\* After cleanupConnection.
LEMMA CleanedIs ==
    ASSUME NEW c \in Client
    PROVE  /\ Cleaned(c) \in Client /\ Cleaned(c).ws = 0 /\ Cleaned(c).made = c.made
           /\ Cleaned(c).run = c.run /\ Cleaned(c).notify = c.notify
  BY BoundsAre DEF Client, Cleaned

\* After the loop started a connection.
LEMMA NextIs ==
    ASSUME NEW c \in Client, c.made < MaxSockets, NEW d,
           d = [c EXCEPT !.timer = FALSE, !.notify = FALSE, !.connected = FALSE,
                         !.made = c.made + 1, !.ws = c.made + 1]
    PROVE  /\ d \in Client /\ d.made = c.made + 1 /\ d.ws = c.made + 1
           /\ d.run = c.run /\ ~d.notify
<1>1. c.made + 1 \in 0 .. MaxSockets
  BY BoundsAre DEF Client
<1>2. QED
  BY <1>1 DEF Client

LEMMA ClientStarts == Init => ClientInv
<1> SUFFICES ASSUME Init
             PROVE  ClientInv
  OBVIOUS
<1> USE BoundsAre, LiveInputsAssumption DEF Init
<1>1. ClientTyped
  <2>1. socket \in [Socket -> SocketState]
    BY DEF SocketState, NoSocket
  <2>2. client \in Client
    BY DEF Client
  <2>3. source \in Source
    BY DEF Source, Inputs
  <2>4. config \in BOOLEAN \X BOOLEAN /\ config \in Configs
    OBVIOUS
  <2>5. /\ client.ws <= client.made
        /\ \A s \in Socket : s > client.made => socket[s] = NoSocket
    OBVIOUS
  <2>6. loop \in Loops /\ server \in BOOLEAN
    BY DEF Loops
  <2>7. QED
    BY <2>1, <2>2, <2>3, <2>4, <2>5, <2>6 DEF ClientTyped
<1>2. Connected
  BY DEF Connected, NoSocket
<1>3. RunsForRead
  BY DEF RunsForRead, NoSocket
<1>4. QED
  BY <1>1, <1>2, <1>3 DEF ClientInv

\* However the loop came to go round, only the new connection, if there is one,
\* connects afterwards, and none is open.
LEMMA GoRoundFits ==
    ASSUME NEW c \in Client, NEW sockets \in [Socket -> SocketState],
           c.run => c.made < MaxSockets,
           \A s \in Socket : s > c.made => sockets[s] = NoSocket,
           \A s \in Socket : sockets[s].at \notin {"connecting", "open"},
           GoRound(c, sockets)
    PROVE  /\ client' \in Client /\ socket' \in [Socket -> SocketState] /\ loop' \in Loops
           /\ client'.ws <= client'.made
           /\ \A s \in Socket : s > client'.made => socket'[s] = NoSocket
           /\ Connected'
           /\ client'.run = c.run
           /\ ~c.run => client'.made = c.made
           /\ ~c.run => \A s \in Socket : socket'[s].at \notin {"connecting", "open"}
<1> USE BoundsAre
<1>1. CASE c.run
  <2> DEFINE n == c.made + 1
  <2>1. /\ client' = [c EXCEPT !.timer = FALSE, !.notify = FALSE, !.connected = FALSE,
                               !.made = c.made + 1, !.ws = c.made + 1]
        /\ socket' = [sockets EXCEPT ![c.made + 1] = [at |-> "connecting", heard |-> TRUE]]
        /\ loop' = "connecting"
    BY <1>1 DEF GoRound
  <2>2. n \in Socket
    BY <1>1 DEF Socket, Client
  <2>3. client' \in Client /\ client'.ws = n /\ client'.made = n /\ ~client'.notify
        /\ client'.run
    BY <1>1, <2>1, NextIs
  <2>4. socket' \in [Socket -> SocketState]
    BY <2>1, <2>2 DEF SocketState
  <2>5. \A s \in Socket : s > client'.made => socket'[s] = NoSocket
    BY <2>1, <2>2, <2>3 DEF Client, Socket
  <2>6. Connected'
    BY <2>1, <2>2, <2>3 DEF Connected, Loops
  <2>7. client'.ws <= client'.made
    BY <2>2, <2>3 DEF Socket
  <2>8. QED
    BY <1>1, <2>1, <2>3, <2>4, <2>5, <2>6, <2>7 DEF Loops
<1>2. CASE ~c.run
  <2>1. /\ client' = Cleaned([c EXCEPT !.notify = FALSE])
        /\ socket' = [s \in Socket |-> IF s = c.ws THEN [sockets[s] EXCEPT !.heard = FALSE]
                                       ELSE sockets[s]]
        /\ loop' = "ended"
    BY <1>2 DEF GoRound
  <2>2. client' \in Client /\ client'.made = c.made /\ ~client'.notify /\ ~client'.run
        /\ client'.ws = 0 /\ client'.run = c.run
    <3>1. [c EXCEPT !.notify = FALSE] \in Client /\ [c EXCEPT !.notify = FALSE].made = c.made
          /\ [c EXCEPT !.notify = FALSE].run = c.run /\ ~[c EXCEPT !.notify = FALSE].notify
      BY DEF Client
    <3>2. QED
      BY <1>2, <2>1, <3>1, CleanedIs
  <2>3. \A s \in Socket : socket'[s] \in SocketState /\ socket'[s].at = sockets[s].at
    BY <2>1 DEF SocketState
  <2>4. socket' \in [Socket -> SocketState]
    BY <2>1, <2>3
  <2>5. \A s \in Socket : s > client'.made => socket'[s] = NoSocket
    <3> SUFFICES ASSUME NEW s \in Socket, s > client'.made
                 PROVE  socket'[s] = NoSocket
      OBVIOUS
    <3>1. sockets[s] = [at |-> "none", heard |-> FALSE]
      BY <2>2 DEF NoSocket
    <3>2. socket'[s].heard = FALSE
      BY <2>1, <3>1
    <3>3. socket'[s] \in SocketState /\ socket'[s].at = "none"
      BY <2>3, <3>1
    <3>4. \A r \in SocketState : r.at = "none" /\ r.heard = FALSE => r = NoSocket
      BY DEF SocketState, NoSocket
    <3>5. QED
      BY <3>2, <3>3, <3>4
  <2>6. Connected'
    BY <2>1, <2>2, <2>3 DEF Connected
  <2>7. client'.ws <= client'.made
    BY <2>2 DEF Client
  <2>8. QED
    <3>1. \A s \in Socket : socket'[s].at \notin {"connecting", "open"}
      BY <2>3
    <3>2. loop' \in Loops
      BY <2>1 DEF Loops
    <3>3. QED
      BY <1>2, <2>2, <2>4, <2>5, <2>6, <2>7, <3>1, <3>2
<1>3. QED
  BY <1>1, <1>2

\* A step of the loop while read() goes on.
LEMMA RoundKeeps ==
    ASSUME ClientInv, NEW c \in Client, NEW sockets \in [Socket -> SocketState],
           c.run = client.run, c.made = client.made, MayConnect,
           \A s \in Socket : s > c.made => sockets[s] = NoSocket,
           \A s \in Socket : sockets[s].at \notin {"connecting", "open"},
           GoRound(c, sockets), UNCHANGED <<config, sourceVars>>
    PROVE  ClientInv'
<1>1. /\ client' \in Client /\ socket' \in [Socket -> SocketState] /\ loop' \in Loops
      /\ client'.ws <= client'.made
      /\ \A s \in Socket : s > client'.made => socket'[s] = NoSocket
      /\ Connected'
      /\ client'.run = c.run
      /\ ~c.run => client'.made = c.made
      /\ ~c.run => \A s \in Socket : socket'[s].at \notin {"connecting", "open"}
  BY GoRoundFits DEF MayConnect
<1>2. ClientTyped'
  BY <1>1 DEF ClientInv, ClientTyped, sourceVars
<1>3. RunsForRead'
  BY <1>1 DEF ClientInv, RunsForRead, sourceVars
<1>4. QED
  BY <1>1, <1>2, <1>3 DEF ClientInv

LEMMA OpensKeeps ==
    ASSUME ClientInv, Opens
    PROVE  ClientInv'
<1> DEFINE s == client.ws
<1> USE BoundsAre DEF ClientInv
<1>1. /\ loop = "connecting" /\ s # 0 /\ socket[s].at = "connecting" /\ NothingCloses
      /\ socket' = [socket EXCEPT ![s].at = "open"]
      /\ client' = [client EXCEPT !.connected = TRUE, !.ping = s, !.timer = TRUE, !.notify = TRUE]
      /\ loop' = "wait"
      /\ UNCHANGED <<config, sourceVars>>
  BY DEF Opens
<1>2. s \in Socket
  BY <1>1 DEF ClientTyped, Client, Socket
<1>3. client' \in Client /\ client'.made = client.made /\ client'.ws = s /\ client'.run = client.run
      /\ client'.ping = s /\ client'.connected /\ client'.notify
  BY <1>1 DEF ClientTyped, Client
<1>4. s <= client.made
  BY <1>1, <1>2 DEF ClientTyped, Client, NoSocket, Socket
<1>5. /\ \A t \in Socket : t # s => socket'[t] = socket[t]
      /\ socket'[s].at = "open" /\ socket'[s].heard = socket[s].heard
      /\ socket' \in [Socket -> SocketState]
  BY <1>1, <1>2 DEF ClientTyped, SocketState
<1>6. ClientTyped'
  BY <1>1, <1>2, <1>3, <1>4, <1>5 DEF ClientTyped, sourceVars, Loops, Client, Socket
<1>7. client.run
  BY <1>1, <1>2 DEF RunsForRead
<1>8. NothingCloses'
  BY <1>1, <1>3, <1>5 DEF NothingCloses, Live, ClientTyped, Client, Socket
<1>9. Connected'
  BY <1>1, <1>2, <1>3, <1>4, <1>5, <1>7, <1>8 DEF Connected, Live, ClientTyped, Client, Socket
<1>10. RunsForRead'
  BY <1>1, <1>3, <1>7 DEF RunsForRead, sourceVars
<1>11. QED
  BY <1>6, <1>9, <1>10

LEMMA FailsToOpenKeeps ==
    ASSUME ClientInv, FailsToOpen
    PROVE  ClientInv'
<1> DEFINE s == client.ws
<1> USE BoundsAre DEF ClientInv
<1>1. /\ loop = "connecting" /\ s # 0 /\ socket[s].at = "connecting"
      /\ socket' = [socket EXCEPT ![s].at = "closed"]
      /\ client' = [client EXCEPT !.connected = FALSE, !.ping = 0]
      /\ loop' = "sleep"
      /\ UNCHANGED <<config, sourceVars>>
  BY DEF FailsToOpen
<1>2. s \in Socket
  BY <1>1 DEF ClientTyped, Client, Socket
<1>3. client' \in Client /\ client'.made = client.made /\ client'.ws = s /\ client'.run = client.run
      /\ client'.notify = client.notify
  BY <1>1, ClientRests DEF ClientTyped
<1>4. s <= client.made
  BY <1>1, <1>2 DEF ClientTyped, Client, NoSocket, Socket
<1>5. /\ \A t \in Socket : t # s => socket'[t] = socket[t]
      /\ socket'[s].at = "closed"
      /\ socket' \in [Socket -> SocketState]
  BY <1>1, <1>2 DEF ClientTyped, SocketState
<1>6. ClientTyped'
  BY <1>1, <1>2, <1>3, <1>4, <1>5 DEF ClientTyped, sourceVars, Loops, Client, Socket
<1>7. Connected'
  BY <1>1, <1>2, <1>3, <1>5 DEF Connected
<1>8. RunsForRead'
  BY <1>1, <1>2, <1>3, <1>5 DEF RunsForRead, sourceVars
<1>9. QED
  BY <1>6, <1>7, <1>8

LEMMA WakesUpKeeps ==
    ASSUME ClientInv, WakesUp
    PROVE  ClientInv'
<1>1. \A s \in Socket : socket[s].at \notin {"connecting", "open"}
  BY DEF WakesUp, ClientInv, Connected
<1>2. QED
  BY <1>1, RoundKeeps DEF WakesUp, ClientInv, ClientTyped

LEMMA ClosesKeeps ==
    ASSUME ClientInv, Closes
    PROVE  ClientInv'
<1> USE BoundsAre
<1>1. PICK s \in Live : /\ socket[s].at = "closing" \/ (socket[s].at = "open" /\ NothingCloses)
                        /\ OnClose(s)
  BY DEF Closes
<1>2. UNCHANGED <<config, sourceVars>>
  BY DEF Closes
<1> DEFINE sockets == [socket EXCEPT ![s].at = "closed"]
           closed  == [client EXCEPT !.connected = FALSE, !.ping = 0]
<1>3. s \in Socket /\ s <= client.made
  BY DEF ClientInv, ClientTyped, Client, Live, Socket
<1>4. closed \in Client /\ closed.run = client.run /\ closed.made = client.made
      /\ closed.ws = client.ws /\ closed.notify = client.notify
  BY ClientRests DEF ClientInv, ClientTyped
<1>5. /\ \A t \in Socket : t # s => sockets[t] = socket[t]
      /\ sockets[s].at = "closed"
      /\ sockets \in [Socket -> SocketState]
  BY <1>3 DEF ClientInv, ClientTyped, SocketState
<1>6. \A t \in Socket : t > closed.made => sockets[t] = NoSocket
  BY <1>3, <1>4, <1>5 DEF ClientInv, ClientTyped, Client, Socket
<1>7. CASE client.notify
  <2>1. MayConnect /\ GoRound(closed, sockets)
    BY <1>1, <1>7 DEF OnClose
  <2>2. loop = "wait" /\ socket[s].at = "open" /\ s = client.ws
    BY <1>1, <1>3, <1>7 DEF ClientInv, Connected, NothingCloses
  <2>3. \A t \in Socket : sockets[t].at \notin {"connecting", "open"}
    BY <1>5, <2>2 DEF ClientInv, Connected
  <2>4. QED
    BY <1>2, <1>4, <1>5, <1>6, <2>1, <2>3, RoundKeeps
<1>8. CASE ~client.notify
  <2>1. socket' = sockets /\ client' = closed /\ loop' = loop
    BY <1>1, <1>8 DEF OnClose
  <2>2. ClientTyped'
    BY <1>2, <1>4, <1>5, <1>6, <2>1 DEF ClientInv, ClientTyped, sourceVars
  <2>3. Connected'
    BY <1>4, <1>5, <1>8, <2>1 DEF ClientInv, Connected
  <2>4. RunsForRead'
    BY <1>2, <1>4, <1>5, <2>1 DEF ClientInv, RunsForRead, sourceVars
  <2>5. QED
    BY <2>2, <2>3, <2>4 DEF ClientInv
<1>9. QED
  BY <1>7, <1>8

LEMMA StaleKeeps ==
    ASSUME ClientInv, Stale
    PROVE  ClientInv'
<1> DEFINE s == client.ws
           sockets == [socket EXCEPT ![s].at = "closing"]
<1>1. client.notify /\ MayConnect /\ GoRound(client, sockets) /\ UNCHANGED <<config, sourceVars>>
  BY DEF Stale
<1>2. loop = "wait" /\ s \in Socket /\ s <= client.made
  BY <1>1, BoundsAre DEF ClientInv, ClientTyped, Connected, Live, Client, Socket
<1>3. /\ \A t \in Socket : t # s => sockets[t] = socket[t]
      /\ sockets[s].at = "closing"
      /\ sockets \in [Socket -> SocketState]
  BY <1>2 DEF ClientInv, ClientTyped, SocketState
<1>4. \A t \in Socket : t > client.made => sockets[t] = NoSocket
  BY <1>2, <1>3 DEF ClientInv, ClientTyped, Client, Socket
<1>5. \A t \in Socket : sockets[t].at \notin {"connecting", "open"}
  BY <1>2, <1>3 DEF ClientInv, Connected
<1>6. client \in Client
  BY DEF ClientInv, ClientTyped
<1>7. QED
  BY <1>1, <1>3, <1>4, <1>5, <1>6, RoundKeeps

\* cleanupConnection leaves nothing that connects or is open.
LEMMA CleanSocketIs ==
    ASSUME ClientInv
    PROVE  /\ CleanSocket \in [Socket -> SocketState]
           /\ \A s \in Socket :
                 /\ CleanSocket[s].at \notin {"connecting", "open"}
                 /\ s > client.made => CleanSocket[s] = NoSocket
                 /\ CleanSocket[s].heard => CleanSocket[s] = socket[s]
<1> USE BoundsAre DEF ClientInv, ClientTyped
<1>1. CASE client.ws = 0
  <2>1. CleanSocket = socket
    BY <1>1 DEF CleanSocket
  <2>2. \A s \in Socket : s # client.ws
    BY <1>1 DEF Socket
  <2>3. QED
    BY <2>1, <2>2 DEF Connected
<1>2. CASE client.ws # 0
  <2>1. client.ws \in Socket
    BY <1>2 DEF Client, Socket
  <2>2. /\ CleanSocket \in [Socket -> SocketState]
        /\ CleanSocket[client.ws] = [at |-> "closed", heard |-> FALSE]
        /\ \A s \in Socket : s # client.ws => CleanSocket[s] = socket[s]
    BY <1>2, <2>1 DEF CleanSocket, SocketState
  <2>3. \A s \in Socket : s > client.made => s # client.ws
    BY DEF Client, Socket
  <2>4. QED
    BY <2>1, <2>2, <2>3 DEF Connected
<1>3. QED
  BY <1>1, <1>2

LEMMA RenewsKeeps ==
    ASSUME ClientInv, Renews
    PROVE  ClientInv'
<1>1. MayConnect /\ GoRound(Cleaned(client), CleanSocket) /\ UNCHANGED <<config, sourceVars>>
  BY DEF Renews
<1>2. client \in Client
  BY DEF ClientInv, ClientTyped
<1>3. QED
  BY <1>1, <1>2, CleanedIs, CleanSocketIs, RoundKeeps

\* What leaves the client alone, and read() where it stands or goes on.
LEMMA SourceKeeps ==
    ASSUME ClientInv, UNCHANGED <<config, socketVars, server>>, source' \in Source,
           \/ source'.at = source.at
           \/ /\ source.at \in {"drain", "live", "waiting", "processing"}
              /\ source'.at \in {"live", "waiting", "processing"}
    PROVE  ClientInv'
<1> USE DEF ClientInv, socketVars
<1>1. ClientTyped'
  BY DEF ClientTyped
<1>2. Connected'
  BY DEF Connected, NothingCloses, Live
<1>3. RunsForRead'
  BY DEF RunsForRead
<1>4. QED
  BY <1>1, <1>2, <1>3

\* read() begins, or throws.
LEMMA StartKeeps ==
    ASSUME ClientInv, Start
    PROVE  ClientInv'
<1> USE BoundsAre
<1>1. /\ source.at = "start" /\ client.made = 0 /\ ~client.run /\ ~server
      /\ UNCHANGED <<config, server>>
  BY DEF Start, ClientInv, RunsForRead
<1>2. /\ client \in Client /\ source \in Source /\ config \in BOOLEAN \X BOOLEAN
      /\ config[1] \in BOOLEAN
  BY DEF ClientInv, ClientTyped
<1>3. \A s \in Socket : socket[s].at \notin {"connecting", "open"}
  BY <1>1 DEF ClientInv, RunsForRead
<1>4. CASE /\ source' = [source EXCEPT !.at = "backfill"] /\ config[1]
           /\ GoRound([client EXCEPT !.run = TRUE], socket)
  <2> DEFINE c == [client EXCEPT !.run = TRUE]
  <2>1. c \in Client /\ c.run /\ c.made = client.made
    BY <1>2 DEF Client
  <2>2. c.made < MaxSockets
    BY <1>1, <2>1
  <2>3. socket \in [Socket -> SocketState] /\ \A s \in Socket : s > c.made => socket[s] = NoSocket
    BY <2>1 DEF ClientInv, ClientTyped
  <2> HIDE DEF c
  <2>4. /\ client' \in Client /\ socket' \in [Socket -> SocketState] /\ loop' \in Loops
        /\ client'.ws <= client'.made
        /\ \A s \in Socket : s > client'.made => socket'[s] = NoSocket
        /\ Connected'
        /\ client'.run = c.run
    BY <1>3, <1>4, <2>1, <2>2, <2>3, GoRoundFits DEF c
  <2>5. source' \in Source /\ source'.at = "backfill"
    BY <1>2, <1>4 DEF Source
  <2>6. ClientTyped'
    BY <1>1, <2>4, <2>5 DEF ClientInv, ClientTyped
  <2>7. RunsForRead'
    BY <1>1, <1>4, <2>1, <2>4, <2>5 DEF RunsForRead
  <2>8. QED
    BY <2>4, <2>6, <2>7 DEF ClientInv
<1>5. CASE /\ source' = [source EXCEPT !.at = "backfill"] /\ ~config[1] /\ UNCHANGED socketVars
  <2>1. source' \in Source /\ source'.at = "backfill"
    BY <1>2, <1>5 DEF Source
  <2>2. ClientTyped' /\ Connected'
    BY <1>1, <1>5, <2>1
    DEF ClientInv, ClientTyped, Connected, socketVars, NothingCloses, Live
  <2>3. RunsForRead'
    BY <1>1, <1>3, <1>5, <2>1 DEF RunsForRead, socketVars
  <2>4. QED
    BY <2>2, <2>3 DEF ClientInv
<1>6. CASE source' = [source EXCEPT !.at = "ended"] /\ UNCHANGED socketVars
  <2>1. source' \in Source /\ source'.at = "ended"
    BY <1>2, <1>6 DEF Source
  <2>2. ClientTyped' /\ Connected'
    BY <1>1, <1>6, <2>1
    DEF ClientInv, ClientTyped, Connected, socketVars, NothingCloses, Live
  <2>3. RunsForRead'
    BY <1>1, <1>3, <1>6, <2>1 DEF RunsForRead, socketVars
  <2>4. QED
    BY <2>2, <2>3 DEF ClientInv
<1>7. QED
  BY <1>4, <1>5, <1>6 DEF Start

LEMMA GoLiveKeeps ==
    ASSUME ClientInv, GoLive
    PROVE  ClientInv'
<1>1. /\ source.at = "backfill" /\ UNCHANGED <<config, socketVars>>
      /\ \/ source' = [source EXCEPT !.at = "drain"] /\ server' = config[2]
         \/ source' = [source EXCEPT !.at = "ended"] /\ UNCHANGED server /\ ~config[1]
  BY DEF GoLive
<1>2. source \in Source /\ config[1] \in BOOLEAN /\ config[2] \in BOOLEAN
  BY DEF ClientInv, ClientTyped
<1>3. source' \in Source /\ source'.at \in {"drain", "ended"}
  BY <1>1, <1>2 DEF Source
<1>4. server' \in BOOLEAN
  BY <1>1, <1>2 DEF ClientInv, ClientTyped
<1>5. ClientTyped' /\ Connected'
  BY <1>1, <1>3, <1>4 DEF ClientInv, ClientTyped, Connected, socketVars, NothingCloses, Live
<1>6. client.run => source'.at = "drain"
  BY <1>1, <1>2 DEF ClientInv, RunsForRead, Source
<1>7. server' => source'.at = "drain"
  BY <1>1, <1>2 DEF ClientInv, RunsForRead, Source
<1>8. RunsForRead'
  BY <1>1, <1>3, <1>6, <1>7 DEF ClientInv, RunsForRead, socketVars
<1>9. QED
  BY <1>5, <1>8 DEF ClientInv

LEMMA EndKeeps ==
    ASSUME ClientInv, End
    PROVE  ClientInv'
<1> USE BoundsAre
<1>1. /\ source' = [source EXCEPT !.at = "ended"] /\ ~server' /\ server' \in BOOLEAN
      /\ UNCHANGED config
  BY DEF End
<1>2. /\ client \in Client /\ source \in Source /\ config[1] \in BOOLEAN
      /\ loop \in Loops
  BY DEF ClientInv, ClientTyped
<1>3. source' \in Source /\ source'.at = "ended"
  BY <1>1, <1>2 DEF Source
<1>4. CASE config[1] /\ source.at # "start"
  <2>1. CloseClient
    BY <1>4 DEF End
  <2> DEFINE c == [client EXCEPT !.run = FALSE, !.notify = FALSE]
  <2>2. c \in Client /\ ~c.run /\ ~c.notify /\ c.made = client.made
    BY <1>2 DEF Client
  <2>3. client' = Cleaned(c) /\ socket' = CleanSocket
        /\ loop' = IF loop = "wait" THEN "ended" ELSE loop
    BY <2>1 DEF CloseClient, Stop
  <2> HIDE DEF c
  <2>4. client' \in Client /\ client'.ws = 0 /\ client'.made = client.made
        /\ ~client'.run /\ ~client'.notify
    BY <2>2, <2>3, CleanedIs
  <2>5. loop' \in Loops /\ loop' # "wait"
    BY <1>2, <2>3 DEF Loops
  <2>6. /\ socket' \in [Socket -> SocketState]
        /\ \A s \in Socket : /\ socket'[s].at \notin {"connecting", "open"}
                             /\ s > client'.made => socket'[s] = NoSocket
    BY <2>3, <2>4, CleanSocketIs
  <2>7. client'.ws <= client'.made
    BY <2>4 DEF Client
  <2>8. ClientTyped'
    BY <1>1, <1>3, <2>4, <2>5, <2>6, <2>7 DEF ClientInv, ClientTyped
  <2>9. Connected'
    BY <2>4, <2>5, <2>6 DEF Connected
  <2>10. RunsForRead'
    BY <1>1, <1>2, <1>3, <1>4, <2>4, <2>6 DEF RunsForRead
  <2>11. QED
    BY <2>8, <2>9, <2>10 DEF ClientInv
<1>5. CASE ~(config[1] /\ source.at # "start")
  <2>1. UNCHANGED socketVars
    BY <1>5 DEF End
  <2>2. ~client.run /\ client.made = 0
    BY <1>2, <1>5 DEF ClientInv, RunsForRead
  <2>3. ClientTyped' /\ Connected'
    BY <1>1, <1>3, <2>1
    DEF ClientInv, ClientTyped, Connected, socketVars, NothingCloses, Live
  <2>4. RunsForRead'
    BY <1>1, <1>3, <2>1, <2>2 DEF ClientInv, RunsForRead, socketVars
  <2>5. QED
    BY <2>3, <2>4 DEF ClientInv
<1>6. QED
  BY <1>4, <1>5

-----------------------------------------------------------------------------
(* The queue and its two ends.                                              *)

Given    == Inputs \ {NoInput}
Outcome  == [input : Given, outcome : {"processed", "failed", "dropped"}]
InputsOf(d) == [n \in DOMAIN d |-> d[n].input]
Hand     == IF source.input = NoInput THEN <<>> ELSE <<source.input>>

QueueTyped ==
    /\ queue \in Seq(Given) /\ arrived \in Seq(Given) /\ done \in Seq(Outcome)
    /\ http \in [Event -> {"none", "websocket", "sending", "open", "200", "500"}]
    /\ acked \subseteq Event
    /\ source \in Source

\* read() holds an input while it processes it, and waits only on an empty queue.
HandFits ==
    /\ source.at = "processing" => source.input # NoInput
    /\ source.input # NoInput => source.at \in {"processing", "ended"}
    /\ source.at = "waiting" /\ ~source.aborted => queue = <<>>

QueueInv == QueueTyped /\ HandFits /\ TakenInOrder /\ AnswersAreTrue

LEMMA GivenIs ==
    /\ Given = [event : Event, way : {"websocket", "http"}]
    /\ \A e \in Event, way \in {"websocket", "http"} : Input(e, way) \in Given
    /\ \A i \in Inputs : i # NoInput => i \in Given
    /\ Given \subseteq Inputs /\ NoInput \in Inputs /\ NoInput \notin Given
<1> DEFINE Real == [event : Event, way : {"websocket", "http"}]
<1>1. NoInput.way = "none"
  BY DEF NoInput
<1>2. \A i \in Real : i.way # "none"
  OBVIOUS
<1>3. NoInput \notin Real
  BY <1>1, <1>2
<1>4. Inputs = {NoInput} \cup Real
  BY DEF Inputs
<1>5. \A e \in Event, way \in {"websocket", "http"} : Input(e, way) \in Real
  BY DEF Input
<1> HIDE DEF Real
<1>6. Given = Real
  BY <1>3, <1>4 DEF Given
<1>7. QED
  BY <1>3, <1>4, <1>5, <1>6 DEF Real

LEMMA OrderIs == TakenInOrder <=> (InputsOf(done) \o Hand) \o queue = arrived
  BY DEF TakenInOrder, InputsOf, Hand

\* One more outcome adds its input at the end.
LEMMA InputsGrow ==
    ASSUME NEW d \in Seq(Outcome), NEW o \in Outcome
    PROVE  /\ InputsOf(d) \in Seq(Given)
           /\ Append(d, o) \in Seq(Outcome)
           /\ InputsOf(Append(d, o)) = Append(InputsOf(d), o.input)
<1>1. /\ DOMAIN d = 1 .. Len(d) /\ Len(d) \in Nat
      /\ \A n \in 1 .. Len(d) : d[n] \in Outcome
  BY ElementOfSeq, LenProperties
<1>2. \A n \in 1 .. Len(d) : d[n].input \in Given
  BY <1>1 DEF Outcome
<1>3. InputsOf(d) \in Seq(Given) /\ Len(InputsOf(d)) = Len(d)
  BY <1>1, <1>2, IsASeq DEF InputsOf
<1>4. /\ Append(d, o) \in Seq(Outcome) /\ Len(Append(d, o)) = Len(d) + 1
      /\ \A n \in 1 .. Len(d) + 1 :
            Append(d, o)[n] = IF n <= Len(d) THEN d[n] ELSE o
  BY <1>1, AppendProperties
<1>5. o.input \in Given
  BY DEF Outcome
<1>6. /\ Append(InputsOf(d), o.input) \in Seq(Given)
      /\ Len(Append(InputsOf(d), o.input)) = Len(d) + 1
      /\ \A n \in 1 .. Len(d) + 1 :
            Append(InputsOf(d), o.input)[n] = IF n <= Len(d) THEN InputsOf(d)[n] ELSE o.input
  BY <1>3, <1>5, AppendProperties
<1>7. \A n \in 1 .. Len(d) + 1 : Append(d, o)[n] \in Outcome
  BY <1>1, <1>4
<1>8. /\ DOMAIN Append(d, o) = 1 .. Len(d) + 1
      /\ \A n \in 1 .. Len(d) + 1 : Append(d, o)[n].input \in Given
  BY <1>4, <1>7, LenProperties DEF Outcome
<1>9. InputsOf(Append(d, o)) \in Seq(Given) /\ Len(InputsOf(Append(d, o))) = Len(d) + 1
  BY <1>1, <1>8, IsASeq DEF InputsOf
<1>10. \A n \in 1 .. Len(d) + 1 :
          InputsOf(Append(d, o))[n] = Append(InputsOf(d), o.input)[n]
  BY <1>1, <1>4, <1>6, <1>8 DEF InputsOf
<1>11. QED
  BY <1>3, <1>4, <1>6, <1>9, <1>10, SeqEqual

\* What is appended last stays last, whatever it is grouped with.
LEMMA AppendLast ==
    ASSUME NEW S, NEW s \in Seq(S), NEW t \in Seq(S), NEW x \in S
    PROVE  s \o Append(t, x) = Append(s \o t, x)
<1>1. <<x>> \in Seq(S) /\ s \o t \in Seq(S)
  BY ConcatProperties
<1>2. Append(t, x) = t \o <<x>> /\ Append(s \o t, x) = (s \o t) \o <<x>>
  BY <1>1, AppendIsConcat
<1>3. QED
  BY <1>1, <1>2, ConcatAssociative

\* The head of a sequence may as well stand at the end of the one before it.
LEMMA HeadMoves ==
    ASSUME NEW S, NEW s \in Seq(S), NEW t \in Seq(S), t # <<>>
    PROVE  /\ Append(s, Head(t)) \o Tail(t) = s \o t
           /\ (s \o <<Head(t)>>) \o Tail(t) = s \o t
<1>1. Head(t) \in S /\ Tail(t) \in Seq(S) /\ <<Head(t)>> \in Seq(S)
  BY HeadTailProperties
<1>2. <<Head(t)>> \o Tail(t) = t
  <2>1. /\ Len(Tail(t)) = Len(t) - 1 /\ \A i \in 1 .. Len(Tail(t)) : Tail(t)[i] = t[i + 1]
        /\ Len(t) \in Nat /\ Head(t) = t[1]
    BY HeadTailProperties, LenProperties
  <2>2. Len(<<Head(t)>>) = 1 /\ <<Head(t)>>[1] = Head(t)
    OBVIOUS
  <2>3. /\ <<Head(t)>> \o Tail(t) \in Seq(S)
        /\ Len(<<Head(t)>> \o Tail(t)) = Len(t)
        /\ \A i \in 1 .. Len(t) : (<<Head(t)>> \o Tail(t))[i] =
              IF i <= 1 THEN <<Head(t)>>[i] ELSE Tail(t)[i - 1]
    BY <1>1, <2>1, <2>2, ConcatProperties
  <2>4. ASSUME NEW i \in 1 .. Len(t)
        PROVE  (<<Head(t)>> \o Tail(t))[i] = t[i]
    <3>1. CASE i = 1
      BY <2>1, <2>2, <2>3, <3>1
    <3>2. CASE i # 1
      <4>1. i - 1 \in 1 .. Len(Tail(t)) /\ (i - 1) + 1 = i
        BY <2>1, <3>2
      <4>2. Tail(t)[i - 1] = t[i]
        BY <2>1, <4>1
      <4>3. QED
        BY <2>1, <2>3, <3>2, <4>2
    <3>3. QED
      BY <3>1, <3>2
  <2>5. QED
    BY <2>3, <2>4, SeqEqual
<1>3. (s \o <<Head(t)>>) \o Tail(t) = s \o t
  BY <1>1, <1>2, ConcatAssociative
<1>4. Append(s, Head(t)) = s \o <<Head(t)>>
  BY <1>1, AppendIsConcat
<1>5. QED
  BY <1>3, <1>4

LEMMA HandIs ==
    ASSUME QueueTyped
    PROVE  /\ Hand \in Seq(Given) /\ InputsOf(done) \in Seq(Given)
           /\ InputsOf(done) \o Hand \in Seq(Given)
           /\ source.input = NoInput => InputsOf(done) \o Hand = InputsOf(done)
           /\ source.input # NoInput => /\ source.input \in Given
                                        /\ InputsOf(done) \o Hand = Append(InputsOf(done), source.input)
<1>1. source.input # NoInput => source.input \in Given
  BY GivenIs DEF QueueTyped, Source
<1>2. Hand \in Seq(Given)
  BY <1>1 DEF Hand
<1>3. InputsOf(done) \in Seq(Given)
  <2>1. \A n \in 1 .. Len(done) : done[n] \in Outcome /\ done[n].input \in Given
    <3>1. done \in Seq(Outcome) /\ \A o \in Outcome : o.input \in Given
      BY DEF QueueTyped, Outcome
    <3>2. QED
      BY <3>1, ElementOfSeq
  <2>2. DOMAIN done = 1 .. Len(done) /\ Len(done) \in Nat
    BY LenProperties DEF QueueTyped
  <2>3. QED
    BY <2>1, <2>2, IsASeq DEF InputsOf
<1>4. InputsOf(done) \o Hand \in Seq(Given)
  BY <1>2, <1>3, ConcatProperties
<1>5. source.input = NoInput => InputsOf(done) \o Hand = InputsOf(done)
  BY <1>3, ConcatEmptySeq DEF Hand
<1>6. source.input # NoInput => InputsOf(done) \o Hand = Append(InputsOf(done), source.input)
  BY <1>1, <1>3, AppendIsConcat DEF Hand
<1>7. QED
  BY <1>1, <1>2, <1>3, <1>4, <1>5, <1>6

LEMMA EventIs == Sent < MaxEvents => Sent + 1 \in Event
<1>1. IsFiniteSet(Event)
  BY FS_Interval, BoundsAre DEF Event
<1>2. {e \in Event : http[e] # "none"} \in SUBSET Event
  OBVIOUS
<1>3. Sent \in Nat
  BY <1>1, <1>2, FS_Subset, FS_CardinalityType DEF Sent
<1>4. QED
  BY <1>3, BoundsAre DEF Event

LEMMA QueueStarts == Init => QueueInv
<1> SUFFICES ASSUME Init
             PROVE  QueueInv
  OBVIOUS
<1> USE BoundsAre DEF Init
<1>1. QueueTyped
  BY EmptySeq, GivenIs DEF QueueTyped, Source
<1>2. HandFits
  BY DEF HandFits
<1>3. TakenInOrder
  <2>1. InputsOf(done) = <<>>
    BY DEF InputsOf
  <2>2. Hand = <<>>
    BY DEF Hand
  <2>3. (InputsOf(done) \o Hand) \o queue = arrived
    BY <2>1, <2>2
  <2>4. QED
    BY <2>3, OrderIs
<1>4. AnswersAreTrue
  BY DEF AnswersAreTrue
<1>5. QED
  BY <1>1, <1>2, <1>3, <1>4 DEF QueueInv

\* read() goes on without touching an input.
LEMMA QueueRests ==
    ASSUME QueueInv, UNCHANGED <<queue, http, acked, arrived, done>>,
           source' \in Source, source'.input = source.input, HandFits'
    PROVE  QueueInv'
<1>1. QueueTyped'
  BY DEF QueueInv, QueueTyped
<1>2. TakenInOrder'
  BY DEF QueueInv, TakenInOrder
<1>3. AnswersAreTrue'
  BY DEF QueueInv, AnswersAreTrue
<1>4. QED
  BY <1>1, <1>2, <1>3 DEF QueueInv

\* What is answered is in done, and what is done stays done.
LEMMA AnswersStay ==
    ASSUME QueueInv, NEW e \in Event, NEW a \in {"websocket", "sending", "open"},
           http' = [http EXCEPT ![e] = a], UNCHANGED done
    PROVE  /\ AnswersAreTrue'
           /\ http' \in [Event -> {"none", "websocket", "sending", "open", "200", "500"}]
<1>1. /\ http' \in [Event -> {"none", "websocket", "sending", "open", "200", "500"}]
      /\ \A f \in Event : http'[f] \in {"200", "500"} => http'[f] = http[f]
  BY DEF QueueInv, QueueTyped
<1>2. AnswersAreTrue'
  BY <1>1 DEF QueueInv, AnswersAreTrue
<1>3. QED
  BY <1>1, <1>2

\* A push hands the input over or queues it, and it is the last one either way.
LEMMA PushKeeps ==
    ASSUME QueueInv, NEW e \in Event, NEW way \in {"websocket", "http"}, Push(Input(e, way)),
           NEW a \in {"websocket", "open"}, http' = [http EXCEPT ![e] = a],
           UNCHANGED done, acked' \subseteq Event
    PROVE  /\ QueueInv' /\ source' \in Source
           /\ \/ source' = source
              \/ source.at = "waiting" /\ source'.at = "processing"
<1> DEFINE i == Input(e, way)
<1>1. i \in Given /\ i \in Inputs /\ i # NoInput
  BY GivenIs
<1>2. AnswersAreTrue' /\ http' \in [Event -> {"none", "websocket", "sending", "open", "200", "500"}]
  BY AnswersStay
<1>3. /\ queue \in Seq(Given) /\ arrived \in Seq(Given) /\ done \in Seq(Outcome)
      /\ source \in Source
  BY DEF QueueInv, QueueTyped
<1>4. arrived' = Append(arrived, i) /\ arrived' \in Seq(Given)
  BY <1>1, <1>3, AppendProperties DEF Push
<1>5. /\ InputsOf(done) \o Hand \in Seq(Given) /\ InputsOf(done) \in Seq(Given)
      /\ source.input = NoInput => InputsOf(done) \o Hand = InputsOf(done)
      /\ (InputsOf(done) \o Hand) \o queue = arrived
  BY HandIs, OrderIs DEF QueueInv
<1>6. InputsOf(done') = InputsOf(done)
  OBVIOUS
<1>7. CASE source.at = "waiting" /\ ~source.aborted
  <2>1. source' = [source EXCEPT !.at = "processing", !.input = i] /\ queue' = queue
    BY <1>7 DEF Push
  <2>2. source' \in Source /\ source'.at = "processing" /\ source'.input = i
    BY <1>1, <1>3, <2>1 DEF Source
  <2>3. queue = <<>> /\ source.input = NoInput
    BY <1>7 DEF QueueInv, HandFits
  <2>4. QueueTyped'
    BY <1>2, <1>3, <1>4, <2>1, <2>2 DEF QueueTyped
  <2>5. HandFits'
    BY <1>1, <2>2 DEF HandFits
  <2>6. arrived = InputsOf(done)
    BY <1>5, <2>3, ConcatEmptySeq
  <2>7. Hand' = <<i>>
    BY <1>1, <2>2 DEF Hand
  <2>8. InputsOf(done') \o Hand' = arrived' /\ queue' = <<>>
    BY <1>1, <1>4, <1>5, <1>6, <2>1, <2>3, <2>6, <2>7, AppendIsConcat
  <2>9. (InputsOf(done') \o Hand') \o queue' = arrived'
    BY <1>4, <2>8, ConcatEmptySeq
  <2>10. TakenInOrder'
    BY <2>9, OrderIs DEF TakenInOrder, InputsOf, Hand
  <2>11. QED
    BY <1>2, <1>7, <2>2, <2>4, <2>5, <2>10 DEF QueueInv
<1>8. CASE ~(source.at = "waiting" /\ ~source.aborted)
  <2>1. source' = source /\ queue' = Append(queue, i)
    BY <1>8 DEF Push
  <2>2. queue' \in Seq(Given)
    BY <1>1, <1>3, <2>1, AppendProperties
  <2>3. QueueTyped'
    BY <1>2, <1>3, <1>4, <2>1, <2>2 DEF QueueTyped
  <2>4. HandFits'
    BY <1>8, <2>1 DEF QueueInv, HandFits
  <2>5. Hand' = Hand
    BY <2>1 DEF Hand
  <2>6. (InputsOf(done') \o Hand') \o queue' = arrived'
    <3>1. (InputsOf(done) \o Hand) \o Append(queue, i) = Append((InputsOf(done) \o Hand) \o queue, i)
      BY <1>1, <1>3, <1>5, AppendLast
    <3>2. Append((InputsOf(done) \o Hand) \o queue, i) = arrived'
      BY <1>4, <1>5
    <3>3. QED
      BY <1>6, <2>1, <2>5, <3>1, <3>2, Zenon
  <2>7. TakenInOrder'
    BY <2>6, OrderIs DEF TakenInOrder, InputsOf, Hand
  <2>8. QED
    BY <1>2, <1>3, <2>1, <2>3, <2>4, <2>7 DEF QueueInv
<1>9. QED
  BY <1>7, <1>8

\* An outcome is told only of what was done so, and nothing is undone.
LEMMA OutcomesStay ==
    ASSUME QueueInv, NEW o \in Outcome, done' = Append(done, o),
           http' \in [Event -> {"none", "websocket", "sending", "open", "200", "500"}],
           \A e \in Event : http'[e] \in {"200", "500"} /\ http'[e] # http[e] =>
               /\ o.input = Input(e, "http")
               /\ o.outcome = IF http'[e] = "200" THEN "processed" ELSE "failed"
    PROVE  AnswersAreTrue'
<1> SUFFICES ASSUME NEW e \in Event, http'[e] \in {"200", "500"}
             PROVE  \E n \in DOMAIN done' :
                       /\ done'[n].input = Input(e, "http")
                       /\ done'[n].outcome = IF http'[e] = "200" THEN "processed" ELSE "failed"
  BY DEF AnswersAreTrue
<1>1. done \in Seq(Outcome) /\ Len(done) \in Nat /\ DOMAIN done = 1 .. Len(done)
  BY LenProperties DEF QueueInv, QueueTyped
<1>2. /\ DOMAIN done' = 1 .. Len(done) + 1 /\ done'[Len(done) + 1] = o
      /\ \A n \in 1 .. Len(done) : done'[n] = done[n]
  BY <1>1, AppendProperties, LenProperties
<1>3. CASE http'[e] = http[e]
  <2>1. PICK n \in DOMAIN done :
               /\ done[n].input = Input(e, "http")
               /\ done[n].outcome = IF http[e] = "200" THEN "processed" ELSE "failed"
    BY <1>3 DEF QueueInv, AnswersAreTrue
  <2>2. n \in DOMAIN done' /\ done'[n] = done[n]
    BY <1>1, <1>2
  <2>3. QED
    BY <1>3, <2>1, <2>2
<1>4. CASE http'[e] # http[e]
  <2>1. Len(done) + 1 \in DOMAIN done'
    BY <1>1, <1>2
  <2>2. QED
    BY <1>2, <1>4, <2>1
<1>5. QED
  BY <1>3, <1>4

\* The drain, from the queue's head on.
LEMMA DrainKeeps ==
    ASSUME QueueInv, DrainOne
    PROVE  QueueInv'
<1> DEFINE how == IF Head(queue).way = "http" THEN "dropped" ELSE "processed"
           o   == [input |-> Head(queue), outcome |-> how]
<1>1. /\ source.at \in {"drain", "backfill"} /\ queue # <<>> /\ queue' = Tail(queue)
      /\ done' = Append(done, o) /\ UNCHANGED <<source, http, acked, arrived>>
  BY DEF DrainOne, Taken
<1>2. queue \in Seq(Given) /\ done \in Seq(Outcome) /\ arrived \in Seq(Given)
  BY DEF QueueInv, QueueTyped
<1>3. Head(queue) \in Given /\ Tail(queue) \in Seq(Given)
  BY <1>1, <1>2, HeadTailProperties
<1>4. o \in Outcome
  BY <1>3 DEF Outcome
<1>5. source.input = NoInput
  BY <1>1 DEF QueueInv, HandFits
<1>6. Head(queue).way = "http" => how = "dropped"
  OBVIOUS
<1>7. o.input = Head(queue) /\ o.outcome = how
  OBVIOUS
<1> HIDE DEF o, how
<1>8. /\ InputsOf(done) \in Seq(Given) /\ done' \in Seq(Outcome)
      /\ InputsOf(done') = Append(InputsOf(done), Head(queue))
  BY <1>1, <1>2, <1>4, <1>7, InputsGrow
<1>9. QueueTyped'
  BY <1>1, <1>3, <1>8 DEF QueueInv, QueueTyped
<1>10. HandFits'
  BY <1>1 DEF QueueInv, HandFits
<1>11. AnswersAreTrue'
  BY <1>1, <1>4, OutcomesStay DEF QueueInv, QueueTyped
<1>12. TakenInOrder'
  <2>1. InputsOf(done) \o queue = arrived
    BY <1>5, HandIs, OrderIs DEF QueueInv
  <2>2. Append(InputsOf(done), Head(queue)) \o Tail(queue) = arrived
    BY <1>1, <1>2, <1>8, <2>1, HeadMoves
  <2>3. Hand' = <<>> /\ InputsOf(done') \in Seq(Given)
    BY <1>1, <1>3, <1>5, <1>8, AppendProperties DEF Hand
  <2>4. (InputsOf(done') \o Hand') \o queue' = arrived'
    BY <1>1, <1>8, <2>2, <2>3, ConcatEmptySeq
  <2>5. QED
    BY <2>4 DEF TakenInOrder, InputsOf, Hand
<1>13. QED
  BY <1>9, <1>10, <1>11, <1>12 DEF QueueInv

LEMMA WaitKeeps ==
    ASSUME QueueInv, Wait
    PROVE  /\ QueueInv' /\ source' \in Source
           /\ source.at \in {"drain", "live"} /\ source'.at \in {"waiting", "processing"}
<1>1. source.at \in {"drain", "live"} /\ UNCHANGED <<http, acked, arrived, done>>
  BY DEF Wait
<1>2. /\ queue \in Seq(Given) /\ done \in Seq(Outcome) /\ arrived \in Seq(Given)
      /\ source \in Source
  BY DEF QueueInv, QueueTyped
<1>3. source.input = NoInput
  BY <1>1 DEF QueueInv, HandFits
<1>4. CASE queue # <<>>
  <2>1. /\ source' = [source EXCEPT !.at = "processing", !.input = Head(queue)]
        /\ queue' = Tail(queue)
    BY <1>4 DEF Wait
  <2>2. Head(queue) \in Given /\ Tail(queue) \in Seq(Given)
    BY <1>2, <1>4, HeadTailProperties
  <2>3. Head(queue) \in Inputs /\ Head(queue) # NoInput
    BY <2>2, GivenIs
  <2>4. source' \in Source /\ source'.at = "processing" /\ source'.input = Head(queue)
    BY <1>2, <2>1, <2>3 DEF Source
  <2>5. QueueTyped'
    BY <1>1, <2>1, <2>2, <2>4 DEF QueueInv, QueueTyped
  <2>6. HandFits'
    BY <2>3, <2>4 DEF HandFits
  <2>7. AnswersAreTrue'
    BY <1>1 DEF QueueInv, AnswersAreTrue
  <2>8. InputsOf(done) \o queue = arrived /\ InputsOf(done) \in Seq(Given)
    BY <1>3, HandIs, OrderIs DEF QueueInv
  <2>9. Hand' = <<Head(queue)>>
    BY <2>3, <2>4 DEF Hand
  <2>10. (InputsOf(done') \o Hand') \o queue' = arrived'
    BY <1>1, <1>2, <1>4, <2>1, <2>8, <2>9, HeadMoves
  <2>11. TakenInOrder'
    BY <2>10 DEF TakenInOrder, InputsOf, Hand
  <2>12. QED
    BY <1>1, <2>4, <2>5, <2>6, <2>7, <2>11 DEF QueueInv
<1>5. CASE queue = <<>>
  <2>1. source' = [source EXCEPT !.at = "waiting"] /\ queue' = queue
    BY <1>5 DEF Wait
  <2>2. source' \in Source /\ source'.at = "waiting" /\ source'.input = source.input
    BY <1>2, <2>1 DEF Source
  <2>3. HandFits'
    BY <1>3, <1>5, <2>1, <2>2 DEF HandFits
  <2>4. QED
    BY <1>1, <2>1, <2>2, <2>3, QueueRests
<1>6. QED
  BY <1>4, <1>5

\* An input is processed, and the sender of a webhook is told how.
LEMMA ProcessKeeps ==
    ASSUME QueueInv, Process
    PROVE  /\ QueueInv' /\ source' \in Source
           /\ source.at = "processing" /\ source'.at = "live"
<1>1. PICK ok \in BOOLEAN :
        /\ http' = Settled(ok)
        /\ done' = Append(done, [input |-> source.input,
                                 outcome |-> IF ok THEN "processed" ELSE "failed"])
  BY DEF Process
<1>2. /\ source.at = "processing" /\ source' = [source EXCEPT !.at = "live", !.input = NoInput]
      /\ UNCHANGED <<queue, acked, arrived>>
  BY DEF Process
<1>3. /\ queue \in Seq(Given) /\ done \in Seq(Outcome) /\ source \in Source
      /\ http \in [Event -> {"none", "websocket", "sending", "open", "200", "500"}]
  BY DEF QueueInv, QueueTyped
<1>4. source.input # NoInput /\ source.input \in Given
  BY <1>2, <1>3, GivenIs DEF QueueInv, HandFits, Source
<1> DEFINE how == IF ok THEN "processed" ELSE "failed"
           o   == [input |-> source.input, outcome |-> how]
<1>5. o \in Outcome /\ o.input = source.input /\ o.outcome = how
  BY <1>4 DEF Outcome
<1>6. source' \in Source /\ source'.at = "live" /\ source'.input = NoInput
  BY <1>2, <1>3, GivenIs DEF Source
<1>7. /\ InputsOf(done) \in Seq(Given) /\ done' \in Seq(Outcome)
      /\ InputsOf(done') = Append(InputsOf(done), source.input)
  BY <1>1, <1>3, <1>5, InputsGrow
<1>8. /\ http' \in [Event -> {"none", "websocket", "sending", "open", "200", "500"}]
      /\ \A e \in Event : http'[e] \in {"200", "500"} /\ http'[e] # http[e] =>
             source.input = Input(e, "http") /\ http'[e] = IF ok THEN "200" ELSE "500"
  <2>1. CASE source.input.way = "http"
    <3>1. http' = [http EXCEPT ![source.input.event] = IF ok THEN "200" ELSE "500"]
      BY <1>1, <2>1 DEF Settled
    <3>2. source.input.event \in Event /\ source.input = Input(source.input.event, "http")
      BY <1>4, <2>1, GivenIs DEF Input
    <3>3. QED
      BY <1>3, <3>1, <3>2
  <2>2. CASE source.input.way # "http"
    <3>1. http' = http
      BY <1>1, <2>2 DEF Settled
    <3>2. QED
      BY <1>3, <3>1
  <2>3. QED
    BY <2>1, <2>2
<1>9. \A e \in Event : http'[e] \in {"200", "500"} /\ http'[e] # http[e] =>
          /\ o.input = Input(e, "http")
          /\ o.outcome = IF http'[e] = "200" THEN "processed" ELSE "failed"
  BY <1>5, <1>8
<1>10. done' = Append(done, o)
  BY <1>1
<1> HIDE DEF o, how
<1>11. AnswersAreTrue'
  BY <1>5, <1>8, <1>9, <1>10, OutcomesStay
<1>12. QueueTyped'
  BY <1>2, <1>6, <1>7, <1>8 DEF QueueInv, QueueTyped
<1>13. HandFits'
  BY <1>6 DEF HandFits
<1>14. TakenInOrder'
  <2>1. Append(InputsOf(done), source.input) \o queue = arrived
    BY <1>4, HandIs, OrderIs DEF QueueInv
  <2>2. Hand' = <<>> /\ InputsOf(done') \in Seq(Given)
    BY <1>4, <1>6, <1>7, AppendProperties DEF Hand
  <2>3. (InputsOf(done') \o Hand') \o queue' = arrived'
    BY <1>2, <1>7, <2>1, <2>2, ConcatEmptySeq
  <2>4. QED
    BY <2>3 DEF TakenInOrder, InputsOf, Hand
<1>15. QED
  BY <1>2, <1>6, <1>11, <1>12, <1>13, <1>14 DEF QueueInv

\* The other steps of read() leave the inputs alone.
LEMMA ReadKeeps ==
    ASSUME QueueInv, Start \/ GoLive \/ End \/ Abort
    PROVE  QueueInv' /\ source' \in Source
<1>1. source \in Source
  BY DEF QueueInv, QueueTyped
<1>2. UNCHANGED <<queue, http, acked, arrived, done>>
  BY DEF Start, GoLive, End, Abort
<1>3. CASE Start \/ GoLive \/ End
  <2>1. PICK at \in {"backfill", "drain", "ended"} :
           /\ source' = [source EXCEPT !.at = at]
           /\ at = "ended" \/ source.at \in {"start", "backfill"}
    BY <1>3 DEF Start, GoLive, End
  <2>2. source' \in Source /\ source'.at = at /\ source'.input = source.input
    BY <1>1, <2>1 DEF Source
  <2>3. HandFits'
    BY <2>1, <2>2 DEF QueueInv, HandFits
  <2>4. QED
    BY <1>2, <2>2, <2>3, QueueRests
<1>4. CASE Abort
  <2>1. source' = [source EXCEPT !.aborted = TRUE]
    BY <1>4 DEF Abort
  <2>2. source' \in Source /\ source'.at = source.at /\ source'.input = source.input
        /\ source'.aborted
    BY <1>1, <2>1 DEF Source
  <2>3. HandFits'
    BY <2>2 DEF QueueInv, HandFits
  <2>4. QED
    BY <1>2, <2>2, <2>3, QueueRests
<1>5. QED
  BY <1>3, <1>4

-----------------------------------------------------------------------------
(* Both together.                                                           *)

Inv == ClientInv /\ QueueInv

\* What happens to a connection is no matter of the inputs.
LEMMA ClientSteps ==
    ASSUME Inv, ClientNext
    PROVE  Inv'
<1>1. UNCHANGED sourceVars
  BY DEF ClientNext, Opens, FailsToOpen, WakesUp, Closes, Stale, Renews
<1>2. QueueInv'
  BY <1>1
  DEF Inv, QueueInv, QueueTyped, HandFits, TakenInOrder, AnswersAreTrue, sourceVars
<1>3. ClientInv'
  BY OpensKeeps, FailsToOpenKeeps, WakesUpKeeps, ClosesKeeps, StaleKeeps, RenewsKeeps
  DEF Inv, ClientNext
<1>4. QED
  BY <1>2, <1>3 DEF Inv

LEMMA SourceSteps ==
    ASSUME Inv, SourceNext \/ Abort
    PROVE  Inv'
<1> USE DEF Inv
<1>1. CASE Start \/ GoLive \/ End
  BY <1>1, ReadKeeps, StartKeeps, GoLiveKeeps, EndKeeps
<1>2. CASE Abort
  <2>1. UNCHANGED <<config, socketVars, server>> /\ source'.at = source.at
    BY <1>2 DEF Abort, ClientInv, ClientTyped, Source
  <2>2. QED
    BY <1>2, <2>1, ReadKeeps, SourceKeeps
<1>3. CASE DrainOne
  <2>1. UNCHANGED <<config, socketVars, server>> /\ source' = source
    BY <1>3 DEF DrainOne
  <2>2. source' \in Source
    BY <2>1 DEF ClientInv, ClientTyped
  <2>3. QED
    BY <1>3, <2>1, <2>2, DrainKeeps, SourceKeeps
<1>4. CASE Wait
  <2>1. UNCHANGED <<config, socketVars, server>>
    BY <1>4 DEF Wait
  <2>2. QED
    BY <1>4, <2>1, WaitKeeps, SourceKeeps
<1>5. CASE Process
  <2>1. UNCHANGED <<config, socketVars, server>>
    BY <1>5 DEF Process
  <2>2. QED
    BY <1>5, <2>1, ProcessKeeps, SourceKeeps
<1>6. QED
  BY <1>1, <1>2, <1>3, <1>4, <1>5 DEF SourceNext

LEMMA ArrivalSteps ==
    ASSUME Inv, Message \/ Request \/ \E e \in Event : Received(e)
    PROVE  Inv'
<1> USE DEF Inv
<1>1. CASE Message
  <2>1. Sent + 1 \in Event
    BY <1>1, EventIs DEF Message
  <2>2. acked' \subseteq Event
    BY <1>1, <2>1 DEF Message, QueueInv, QueueTyped
  <2>3. /\ Push(Input(Sent + 1, "websocket"))
        /\ http' = [http EXCEPT ![Sent + 1] = "websocket"]
        /\ UNCHANGED <<config, socketVars, server, done>>
    BY <1>1 DEF Message
  <2>4. /\ QueueInv' /\ source' \in Source
        /\ \/ source' = source
           \/ source.at = "waiting" /\ source'.at = "processing"
    BY <2>1, <2>2, <2>3, PushKeeps
  <2>5. QED
    BY <2>3, <2>4, SourceKeeps
<1>2. CASE Request
  <2>1. Sent + 1 \in Event
    BY <1>2, EventIs DEF Request
  <2>2. /\ http' = [http EXCEPT ![Sent + 1] = "sending"]
        /\ UNCHANGED <<config, socketVars, source, queue, server, acked, arrived, done>>
    BY <1>2 DEF Request
  <2>3. /\ AnswersAreTrue'
        /\ http' \in [Event -> {"none", "websocket", "sending", "open", "200", "500"}]
    BY <2>1, <2>2, AnswersStay
  <2>4. QueueInv'
    BY <2>2, <2>3 DEF QueueInv, QueueTyped, HandFits, TakenInOrder
  <2>5. source' \in Source
    BY <2>2 DEF ClientInv, ClientTyped
  <2>6. QED
    BY <2>2, <2>4, <2>5, SourceKeeps
<1>3. ASSUME NEW e \in Event, Received(e)
      PROVE  Inv'
  <2>1. /\ Push(Input(e, "http")) /\ http' = [http EXCEPT ![e] = "open"]
        /\ UNCHANGED <<config, socketVars, server, acked, done>>
    BY <1>3 DEF Received
  <2>2. acked' \subseteq Event
    BY <2>1 DEF QueueInv, QueueTyped
  <2>3. /\ QueueInv' /\ source' \in Source
        /\ \/ source' = source
           \/ source.at = "waiting" /\ source'.at = "processing"
    BY <2>1, <2>2, PushKeeps
  <2>4. QED
    BY <2>1, <2>3, SourceKeeps
<1>4. QED
  BY <1>1, <1>2, <1>3

\* The invariant holds in every reachable state.
THEOREM InvHolds == Spec => []Inv
<1>1. Init => Inv
  BY ClientStarts, QueueStarts DEF Inv
<1>2. Inv /\ [Next]_vars => Inv'
  <2> SUFFICES ASSUME Inv, [Next]_vars
               PROVE  Inv'
    OBVIOUS
  <2>1. CASE UNCHANGED vars
    BY <2>1
    DEF Inv, vars, socketVars, sourceVars, ClientInv, ClientTyped, Connected, NothingCloses,
        Live, RunsForRead, QueueInv, QueueTyped, HandFits, TakenInOrder, AnswersAreTrue
  <2>2. CASE Next
    BY <2>2, ClientSteps, SourceSteps, ArrivalSteps DEF Next
  <2>3. QED
    BY <2>1, <2>2
<1>3. QED
  BY <1>1, <1>2, PTL DEF Spec

(* One connection at most is open and heard, the one that answers go out on *)
(* and the heartbeat watches; once read() has ended nothing of it goes on   *)
(* (createStripeWebSocketClient's runLoop, closeClient, read()'s finally).  *)
THEOREM OneConnectionIsHeard == Spec => []ConnectionsAreSound
<1>1. Inv => ConnectionsAreSound
  <2> SUFFICES ASSUME Inv
               PROVE  ConnectionsAreSound
    OBVIOUS
  <2> USE DEF Inv, ClientInv
  <2>1. \A s \in Live : s \in Socket
    BY BoundsAre DEF ClientTyped, Client, Live, Socket
  <2>2. OneConnection
    BY <2>1 DEF OneConnection, Connected
  <2>3. EndsQuietly
    <3> SUFFICES ASSUME source.at = "ended"
                 PROVE  /\ ~server /\ ~client.run
                        /\ \A s \in Live : ~socket[s].heard \/ socket[s].at \in {"closing", "closed"}
      BY DEF EndsQuietly
    <3>1. ~server /\ ~client.run
      BY DEF RunsForRead
    <3>2. ASSUME NEW s \in Live
          PROVE  ~socket[s].heard \/ socket[s].at \in {"closing", "closed"}
      BY <2>1, <3>1, <3>2 DEF RunsForRead, ClientTyped, SocketState
    <3>3. QED
      BY <3>1, <3>2
  <2>4. QED
    BY <2>2, <2>3 DEF ConnectionsAreSound
<1>2. QED
  BY <1>1, InvHolds, PTL

(* Events are taken in the order in which they came, each once, and the     *)
(* sender of a webhook is told what became of it (createInputQueue, the     *)
(* drain, and read()'s loop over what it waits for).                        *)
THEOREM InputsAreTakenInTurn == Spec => []InputsAreSound
<1>1. Inv => InputsAreSound
  <2> SUFFICES ASSUME Inv
               PROVE  InputsAreSound
    OBVIOUS
  <2>1. TypeOK
    <3> USE DEF Inv, ClientInv, ClientTyped, QueueInv, QueueTyped
    <3>1. /\ config \in Configs /\ loop \in Loops /\ server \in BOOLEAN
          /\ acked \subseteq Event
          /\ http \in [Event -> {"none", "websocket", "sending", "open", "200", "500"}]
      OBVIOUS
    <3>2. socket \in [Socket -> [at : {"none", "connecting", "open", "closing", "closed"},
                                 heard : BOOLEAN]]
      BY DEF SocketState
    <3>3. /\ client.made \in 0 .. MaxSockets /\ {client.ws, client.ping} \subseteq 0 .. MaxSockets
          /\ {client.run, client.connected, client.timer, client.notify} \subseteq BOOLEAN
      BY DEF Client
    <3>4. /\ source.at \in {"start", "backfill", "drain", "live", "waiting", "processing", "ended"}
          /\ source.input \in Inputs
      BY DEF Source
    <3>5. queue \in Seq(Inputs)
      BY GivenIs, SeqMonotonic
    <3>6. QED
      BY <3>1, <3>2, <3>3, <3>4, <3>5 DEF TypeOK, HandFits, Loops
  <2>2. QED
    BY <2>1 DEF Inv, QueueInv, InputsAreSound
<1>2. QED
  BY <1>1, InvHolds, PTL
=============================================================================
