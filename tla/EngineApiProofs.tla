-------------------------- MODULE EngineApiProofs ---------------------------
(* Proofs about EngineApi, for every set of requests and whatever each of   *)
(* them may ask, and about Catalog, for all documents that are well formed  *)
(* and keep the types of their fields, and any number of processes.         *)
EXTENDS EngineApi, Catalog, SequenceTheorems, FiniteSetTheorems, WellFoundedInduction, TLAPS

Ways    == {"off", "running", "closing", "done", "crashed", "garbled", "killed"}
Ops     == Op \cup {"none"}
Sides   == SUBSET Side
Stages  == {"idle", "asked", "resolving", "running", "over"}
Runs    == [Side -> Ways]
Pumps   == {"none", "open", "closed", "stuck"}
Counts  == 0 .. MaxItems
Tallies == [Side -> Counts]
Answers == Seq(Message)
Clients == {"none", "reading", "done", "refused", "left", "cut"}

Records ==
    [op : Ops, sides : Sides, stage : Stages, fresh : Sides, run : Runs, pump : Pumps,
     pulled : Counts, said : Tallies, soft : BOOLEAN, answer : Answers, client : Clients,
     stopping : BOOLEAN, after : Nat]

LEMMA OpsAre ==
    /\ Op = {"check", "setup", "teardown", "discover", "read", "write", "sync", "batch"}
    /\ \A op \in Op : OutputOf[op] \subseteq Message
    /\ \A op \in {"read", "sync"} : OutputOf[op] \cap Eof = {}
<1>1. Op = {"check", "setup", "teardown", "discover", "read", "write", "sync", "batch"}
  BY DEF Op, OutputOf
<1>2. CoreMessage \subseteq Message /\ ConnectionStatus \subseteq Message
  BY DEF CoreMessage, Message, ConnectionStatus
<1>3. CoreMessage \cap Eof = {}
  BY DEF CoreMessage, Eof, ConnectionStatus
<1>4. /\ OutputOf["read"] = CoreMessage /\ OutputOf["sync"] = CoreMessage
      /\ OutputOf["batch"] = CoreMessage /\ OutputOf["write"] = Message
      /\ OutputOf["check"] \subseteq CoreMessage /\ OutputOf["setup"] \subseteq CoreMessage
      /\ OutputOf["teardown"] \subseteq CoreMessage /\ OutputOf["discover"] \subseteq CoreMessage
  <2> HIDE DEF Message
  <2>1. ConnectionStatus \cup {"log"} \subseteq CoreMessage /\ {"control", "log"} \subseteq CoreMessage
        /\ {"log"} \subseteq CoreMessage /\ {"catalog", "log"} \subseteq CoreMessage
    BY DEF CoreMessage
  <2>2. QED
    BY <2>1 DEF OutputOf
<1>5. QED
  BY <1>1, <1>2, <1>3, <1>4

LEMMA MessagesAre ==
    /\ Eof \subseteq Message /\ "log" \in Message /\ "connection_failed" \in Message
    /\ "progress" \in Message
    /\ {"log", "connection_failed", "progress"} \cap Eof = {}
    /\ {"eof", "eof_more", "eof_failed"} = Eof
  BY DEF Eof, Message, CoreMessage, ConnectionStatus

LEMMA FieldsAre ==
    ASSUME NEW q \in Records
    PROVE  /\ q.op \in Ops /\ q.sides \in Sides /\ q.stage \in Stages /\ q.fresh \in Sides
           /\ q.run \in Runs /\ q.pump \in Pumps /\ q.pulled \in Counts /\ q.said \in Tallies
           /\ q.soft \in BOOLEAN /\ q.answer \in Answers /\ q.client \in Clients
           /\ q.stopping \in BOOLEAN /\ q.after \in Nat
  BY DEF Records

LEMMA IdleIs ==
    /\ Idle \in Records
    /\ Idle.op = "none" /\ Idle.stage = "idle" /\ Idle.run = [s \in Side |-> "off"]
    /\ Idle.pump = "none" /\ Idle.answer = <<>> /\ Idle.client = "none" /\ Idle.sides = {}
    /\ Idle.fresh = {} /\ ~ Idle.soft /\ ~ Idle.stopping /\ Idle.after = 0
<1>1. /\ "none" \in Ops /\ {} \in Sides /\ "idle" \in Stages /\ [s \in Side |-> "off"] \in Runs
      /\ "none" \in Pumps /\ 0 \in Counts /\ [s \in Side |-> 0] \in Tallies
      /\ <<>> \in Answers /\ "none" \in Clients /\ FALSE \in BOOLEAN /\ 0 \in Nat
  BY EngineApiAssumption DEF Ops, Sides, Stages, Runs, Ways, Pumps, Counts, Tallies, Answers, Clients
<1>2. QED
  BY <1>1 DEF Idle, Records

(* The parts of a request that only its own steps change.                   *)
Rest(p, q) ==
    /\ p.op = q.op /\ p.sides = q.sides /\ p.fresh = q.fresh /\ p.pump = q.pump
    /\ p.pulled = q.pulled /\ p.said = q.said /\ p.soft = q.soft /\ p.stopping = q.stopping

LEMMA OverIs ==
    ASSUME NEW q \in Records
    PROVE  /\ Over(q) \in Records /\ Over(q).stage = "over" /\ Rest(Over(q), q)
           /\ Over(q).client = IF q.client = "reading" THEN "done" ELSE q.client
           /\ Over(q).run = q.run /\ Over(q).answer = q.answer /\ Over(q).after = q.after
<1> DEFINE client == IF q.client = "reading" THEN "done" ELSE q.client
<1>1. "over" \in Stages /\ client \in Clients
  BY FieldsAre DEF Stages, Clients
<1>2. Over(q) = [q EXCEPT !.stage = "over", !.client = client]
  BY DEF Over
<1> HIDE DEF client
<1>3. QED
  BY <1>1, <1>2 DEF Records, Rest, client

LEMMA RunChanges ==
    ASSUME NEW q \in Records, NEW run \in Runs
    PROVE  /\ [q EXCEPT !.run = run] \in Records /\ Rest([q EXCEPT !.run = run], q)
           /\ [q EXCEPT !.run = run].run = run /\ [q EXCEPT !.run = run].stage = q.stage
           /\ [q EXCEPT !.run = run].client = q.client /\ [q EXCEPT !.run = run].answer = q.answer
           /\ [q EXCEPT !.run = run].after = q.after
  BY DEF Records, Rest

(* What return() leaves of the streams: each is as it was, or it ran and is *)
(* told to end.                                                             *)
LEMMA ClosedIs ==
    ASSUME NEW q \in Records
    PROVE  /\ ClosedAtYield(q) \in Runs
           /\ \A s \in Side :
                 \/ ClosedAtYield(q)[s] = q.run[s]
                 \/ /\ q.run[s] = "running"
                    /\ ClosedAtYield(q)[s] = IF q.op \in Merged THEN "closing" ELSE "killed"
           /\ q.op \in Piped => /\ ClosedAtYield(q)["destination"] # "running"
                                /\ kind["destination"] = "inprocess"
                                     => ClosedAtYield(q)["source"] # "running"
           /\ q.op \notin Piped => \A s \in Side : ClosedAtYield(q)[s] # "running"
<1>1. q.run \in Runs /\ Side = {"source", "destination"} /\ "closing" \in Ways /\ "killed" \in Ways
  BY FieldsAre DEF Side, Ways
<1>2. ASSUME NEW S \in SUBSET Side
      PROVE  /\ Returned(q, S) \in Runs
             /\ \A s \in Side : Returned(q, S)[s] = IF s \in S /\ q.run[s] = "running" THEN "killed"
                                                   ELSE q.run[s]
  BY <1>1 DEF Returned, Runs
<1>3. CASE q.op \in Merged
  <2>1. q.op \notin Piped
    BY <1>3 DEF Merged, Piped
  <2>2. ClosedAtYield(q) = [s \in Side |-> IF q.run[s] = "running" THEN "closing" ELSE q.run[s]]
    BY <1>3, <2>1 DEF ClosedAtYield
  <2>3. QED
    BY <1>1, <1>3, <2>1, <2>2 DEF Runs
<1>4. CASE q.op \in Piped
  <2>1. q.op \notin Merged /\ Chain \in SUBSET Side /\ "destination" \in Chain
        /\ (kind["destination"] = "inprocess" => "source" \in Chain)
    BY <1>1, <1>4 DEF Merged, Piped, Chain
  <2>2. ClosedAtYield(q) = Returned(q, Chain)
    BY <1>4, <2>1 DEF ClosedAtYield
  <2>3. QED
    BY <1>1, <1>2, <1>4, <2>1, <2>2
<1>5. CASE q.op \notin Merged \cup Piped
  <2>1. ClosedAtYield(q) = Returned(q, Side)
    BY <1>5 DEF ClosedAtYield
  <2>2. QED
    BY <1>1, <1>2, <1>5, <2>1
<1>6. QED
  BY <1>3, <1>4, <1>5

LEMMA SayIs ==
    ASSUME NEW q \in Records, NEW ms \in Answers
    PROVE  /\ Say(q, ms) \in Records /\ Rest(Say(q, ms), q)
           /\ (ms = <<>> => Say(q, ms) = q)
           /\ (ms # <<>> /\ q.stopping =>
                 /\ Say(q, ms).stage = "over" /\ Say(q, ms).after = q.after + 1
                 /\ Say(q, ms).run = ClosedAtYield(q) /\ Say(q, ms).answer = q.answer
                 /\ Say(q, ms).client = IF q.client = "reading" THEN "done" ELSE q.client)
           /\ (ms # <<>> /\ ~ q.stopping =>
                 /\ Say(q, ms).stage = q.stage /\ Say(q, ms).after = q.after
                 /\ Say(q, ms).run = q.run /\ Say(q, ms).client = q.client
                 /\ Say(q, ms).answer = IF q.client = "reading" THEN q.answer \o ms ELSE q.answer)
<1>1. CASE ms = <<>>
  BY <1>1 DEF Say, Rest
<1>2. CASE ms # <<>> /\ q.stopping
  <2> DEFINE run == ClosedAtYield(q)
             p == [q EXCEPT !.after = q.after + 1, !.run = run]
  <2>1. Say(q, ms) = Over(p)
    BY <1>2 DEF Say
  <2>2. run \in Runs /\ q.after + 1 \in Nat
    BY ClosedIs, FieldsAre
  <2> HIDE DEF run
  <2>3. /\ p \in Records /\ Rest(p, q) /\ p.after = q.after + 1 /\ p.run = run
        /\ p.answer = q.answer /\ p.client = q.client
    BY <2>2 DEF Records, Rest
  <2> HIDE DEF p
  <2>4. /\ Over(p) \in Records /\ Over(p).stage = "over" /\ Rest(Over(p), p)
        /\ Over(p).client = IF p.client = "reading" THEN "done" ELSE p.client
        /\ Over(p).run = p.run /\ Over(p).answer = p.answer /\ Over(p).after = p.after
    BY <2>3, OverIs
  <2>5. Rest(Over(p), q)
    BY <2>3, <2>4 DEF Rest
  <2>6. QED
    BY <1>2, <2>1, <2>3, <2>4, <2>5 DEF run
<1>3. CASE ms # <<>> /\ ~ q.stopping
  <2> DEFINE answer == IF q.client = "reading" THEN q.answer \o ms ELSE q.answer
  <2>1. Say(q, ms) = [q EXCEPT !.answer = answer]
    BY <1>3 DEF Say
  <2>2. answer \in Answers
    BY FieldsAre DEF Answers
  <2> HIDE DEF answer
  <2>3. QED
    BY <1>3, <2>1, <2>2 DEF Records, Rest, answer
<1>4. QED
  BY <1>1, <1>2, <1>3

(* An answer that ends with the messages ms.                                *)
Finished(p, q, ms) ==
    /\ p \in Records /\ Rest(p, q) /\ p.stage = "over"
    /\ p.client = IF q.client = "reading" THEN "done" ELSE q.client
    /\ \/ p.run = q.run /\ p.after = q.after
       \/ q.stopping /\ p.run = ClosedAtYield(q) /\ p.after = q.after + 1
    /\ q.client = "reading" /\ ~ q.stopping => p.answer = q.answer \o ms

LEMMA OverSayIs ==
    ASSUME NEW q \in Records, NEW ms \in Answers
    PROVE  Finished(Over(Say(q, ms)), q, ms)
<1>1. Say(q, ms) \in Records /\ q.answer \in Answers
  BY SayIs, FieldsAre
<1>2. q.answer \o <<>> = q.answer
  BY <1>1 DEF Answers
<1> DEFINE p == Say(q, ms)
<1>3. /\ p \in Records /\ Rest(p, q)
      /\ p.client = q.client \/ p.client = IF q.client = "reading" THEN "done" ELSE q.client
      /\ \/ p.run = q.run /\ p.after = q.after
         \/ q.stopping /\ p.run = ClosedAtYield(q) /\ p.after = q.after + 1
      /\ q.client = "reading" /\ ~ q.stopping => p.answer = q.answer \o ms
  BY <1>1, <1>2, SayIs
<1> HIDE DEF p
<1>4. Finished(Over(p), q, ms)
  BY <1>3, OverIs DEF Finished, Rest
<1>5. QED
  BY <1>4 DEF p

LEMMA EndsIs ==
    ASSUME NEW q \in Records, NEW eof \in Eof
    PROVE  Finished(Ends(q, eof), q, IF Bounded(q) THEN <<eof>> ELSE <<>>)
<1> DEFINE ms == IF Bounded(q) THEN <<eof>> ELSE <<>>
<1>1. ms \in Answers
  BY MessagesAre DEF Answers
<1>2. Finished(Over(Say(q, ms)), q, ms)
  BY <1>1, OverSayIs
<1>3. QED
  BY <1>2 DEF Ends

Notice(q) == IF Told(q) THEN <<>> ELSE <<"log", "connection_failed">>
Failing(q) == (IF Bounded(q) THEN <<"eof_failed">> ELSE <<>>) \o Notice(q)

LEMMA ThrowsIs ==
    ASSUME NEW q \in Records
    PROVE  /\ q.op # "batch" => Finished(Throws(q), q, Failing(q))
           /\ q.op = "batch" =>
                 /\ Throws(q) \in Records /\ Rest(Throws(q), q) /\ Throws(q).stage = "over"
                 /\ Throws(q).client = IF q.client = "reading" THEN "refused" ELSE q.client
                 /\ Throws(q).run = q.run /\ Throws(q).after = q.after
<1>1. Failing(q) \in Answers
  <2>1. (IF Bounded(q) THEN <<"eof_failed">> ELSE <<>>) \in Answers
    BY MessagesAre DEF Answers
  <2>2. Notice(q) \in Answers
    BY MessagesAre DEF Answers, Notice
  <2>3. QED
    BY <2>1, <2>2 DEF Answers, Failing
<1>2. CASE q.op # "batch"
  <2>1. Throws(q) = Over(Say(q, Failing(q)))
    BY <1>2 DEF Throws, Failing, Notice
  <2>2. QED
    BY <1>1, <1>2, <2>1, OverSayIs
<1>3. CASE q.op = "batch"
  <2> DEFINE client == IF q.client = "reading" THEN "refused" ELSE q.client
  <2>1. Throws(q) = [q EXCEPT !.stage = "over", !.client = client]
    BY <1>3 DEF Throws
  <2>2. "over" \in Stages /\ client \in Clients
    BY FieldsAre DEF Stages, Clients
  <2> HIDE DEF client
  <2>3. QED
    BY <1>3, <2>1, <2>2 DEF Records, Rest, client
<1>4. QED
  BY <1>2, <1>3

-----------------------------------------------------------------------------
(* The invariant, request by request.                                       *)

Unfinished == {"asked", "resolving", "running"}

\* what runs, and for whom
Shaped(q) ==
    /\ q.stage = "idle" => q = Idle
    /\ q.stage # "idle" => q.op \in Op /\ q.sides # {}
    /\ q.stage \in {"asked", "resolving"} =>
          /\ \A s \in Side : q.run[s] = "off"
          /\ q.answer = <<>>
    /\ q.stage \in Unfinished => q.client \in {"reading", "left", "cut"}
    /\ q.stage = "over" => q.client # "reading"
    /\ q.stopping => q.client = "left"
    /\ q.op \in {"read", "discover"} => q.sides = {"source"}
    /\ q.op = "write" => q.sides = {"destination"}
    /\ q.op \in Piped => q.sides = Side
    /\ \A s \in Side \ q.sides : q.run[s] = "off"

\* a message for a client that left is the last: nothing speaks after it
Stopped(q) ==
    /\ q.after \in {0, 1} /\ (q.after = 1 => q.stage = "over")
    /\ q.op \in Piped /\ q.stage = "over" => q.run["destination"] # "running"

\* while a request runs, what speaks for it has not failed, nor all of it ended
Quit(q)  == IF q.op = "setup" THEN {"closing", "killed"} ELSE {}
Sound(q) ==
    q.stage = "running" =>
        /\ \A s \in Speaks(q) : q.run[s] \in {"running", "done"} \cup Quit(q)
        /\ \E s \in Speaks(q) : q.run[s] = "running"

\* a source runs on only for a pump, or for a destination that is closing
Held(q, k) ==
    /\ q.op \in Piped /\ k["destination"] = "subprocess" /\ q.run["source"] = "running"
          => q.pump \in {"open", "stuck"}
    /\ Bounded(q) => \A s \in Side : k[s] = "subprocess" => q.run[s] \notin {"closing", "garbled"}
Released(q, k) ==
    /\ q.op = "sync" /\ q.run["source"] = "running" /\ k["destination"] = "inprocess"
          => q.run["destination"] = "closing"
    /\ q.op = "read" => q.run["source"] # "running"

\* the eof comes at the end
NoEof(q) ==
    Bounded(q) /\ q.client = "reading" => \A i \in DOMAIN q.answer : q.answer[i] \notin Eof

Good(q, k) ==
    /\ Shaped(q) /\ Stopped(q) /\ Sound(q) /\ Held(q, k) /\ NoEof(q)
    /\ q.stage = "over" => Released(q, k)
    /\ q.client = "done" => q.stage = "over" /\ CleanEnd(q)

Resolver ==
    /\ kind \in [Side -> {"inprocess", "subprocess"}] /\ up \in BOOLEAN
    /\ found \subseteq Side /\ schemas \subseteq cache /\ cache \subseteq found
    /\ made \in [Side -> Nat]
    /\ \A s \in Side : made[s] <= IF s \in cache THEN 1 ELSE 0

Requests ==
    /\ req \in [Request -> Records]
    /\ \A r \in Request : Good(req[r], kind) /\ req[r].fresh \subseteq cache

Inv == Resolver /\ Requests

-----------------------------------------------------------------------------
(* How an answer ends.                                                      *)

\* a request about to end
Ending(q) ==
    /\ q.stage \in Unfinished /\ Shaped(q) /\ q.after = 0
    /\ q.op \in Piped => q.run["destination"] # "running"
    /\ Held(q, kind) /\ Released(q, kind) /\ NoEof(q)

LEMMA FinishedIsGood ==
    ASSUME NEW q \in Records, NEW ms \in Answers, NEW p, Finished(p, q, ms), Ending(q),
           q.client = "reading" => CleanEnd(p)
    PROVE  Good(p, kind)
<1>1. /\ p \in Records /\ Rest(p, q) /\ p.stage = "over" /\ q.after = 0 /\ q.stage \in Unfinished
      /\ p.client = IF q.client = "reading" THEN "done" ELSE q.client
      /\ \/ p.run = q.run /\ p.after = q.after
         \/ q.stopping /\ p.run = ClosedAtYield(q) /\ p.after = q.after + 1
  BY DEF Finished, Ending
<1>2. /\ \A s \in Side : \/ p.run[s] = q.run[s]
                         \/ /\ q.run[s] = "running"
                            /\ p.run[s] = IF q.op \in Merged THEN "closing" ELSE "killed"
      /\ Side = {"source", "destination"}
  BY <1>1, ClosedIs DEF Side
<1>3. q.op \in Op /\ q.client \in {"reading", "left", "cut"} /\ q.stage # "idle"
  BY <1>1 DEF Ending, Shaped, Unfinished
<1>4. Shaped(p)
  <2>1. \A s \in Side \ q.sides : p.run[s] = "off"
    BY <1>2 DEF Ending, Shaped
  <2>2. p.stopping => p.client = "left"
    BY <1>1 DEF Ending, Shaped, Rest
  <2>3. p.client # "reading"
    BY <1>1
  <2>4. /\ p.op \in {"read", "discover"} => p.sides = {"source"}
        /\ p.op = "write" => p.sides = {"destination"}
        /\ p.op \in Piped => p.sides = Side
        /\ p.op \in Op /\ p.sides = q.sides /\ p.sides # {}
    BY <1>1, <1>3 DEF Ending, Shaped, Rest
  <2>5. QED
    BY <1>1, <2>1, <2>2, <2>3, <2>4 DEF Shaped, Unfinished
<1>5. Stopped(p)
  <2>1. p.after \in {0, 1}
    BY <1>1
  <2>2. q.op \in Piped => p.run["destination"] # "running"
    BY <1>2 DEF Ending
  <2>3. QED
    BY <1>1, <2>1, <2>2 DEF Stopped, Rest
<1>6. Sound(p) /\ NoEof(p)
  BY <1>1 DEF Sound, NoEof
<1>7. Held(p, kind)
  <2>1. p.run["source"] = "running" => q.run["source"] = "running"
    BY <1>2
  <2>2. Bounded(q) => q.op \notin Merged
    BY DEF Bounded, Merged
  <2>3. Bounded(q) => \A s \in Side : p.run[s] \in {"closing", "garbled"} => p.run[s] = q.run[s]
    BY <1>2, <2>2
  <2>4. Held(q, kind) /\ p.op = q.op /\ p.pump = q.pump
    BY <1>1 DEF Ending, Rest
  <2>5. QED
    BY <1>2, <2>1, <2>3, <2>4 DEF Held, Bounded
<1>8. Released(p, kind)
  <2>1. Released(q, kind) /\ p.op = q.op
    BY <1>1 DEF Ending, Rest
  <2>2. /\ p.run["source"] = "running" => q.run["source"] = "running"
        /\ q.run["destination"] = "closing" => p.run["destination"] = "closing"
    BY <1>2
  <2>3. QED
    BY <2>1, <2>2 DEF Released
<1>9. p.client = "done" => CleanEnd(p)
  BY <1>1, <1>3
<1>10. QED
  BY <1>1, <1>4, <1>5, <1>6, <1>7, <1>8, <1>9 DEF Good

LEMMA Joined ==
    ASSUME NEW S, NEW a \in Seq(S), NEW b \in Seq(S)
    PROVE  /\ Len(a \o b) = Len(a) + Len(b) /\ DOMAIN (a \o b) = 1 .. Len(a) + Len(b)
           /\ \A i \in 1 .. Len(a) : (a \o b)[i] = a[i]
           /\ \A i \in 1 .. Len(b) : (a \o b)[Len(a) + i] = b[i]
<1>1. a \o b \in Seq(S) /\ Len(a) \in Nat /\ Len(b) \in Nat
  OBVIOUS
<1>2. /\ Len(a \o b) = Len(a) + Len(b)
      /\ \A i \in 1 .. Len(a) + Len(b) : (a \o b)[i] = IF i <= Len(a) THEN a[i] ELSE b[i - Len(a)]
  BY ConcatProperties
<1>3. ASSUME NEW i \in 1 .. Len(b) PROVE (a \o b)[Len(a) + i] = b[i]
  <2>1. Len(a) + i \in 1 .. Len(a) + Len(b) /\ ~ (Len(a) + i <= Len(a)) /\ (Len(a) + i) - Len(a) = i
    BY <1>1
  <2>2. QED
    BY <1>2, <2>1
<1>4. ASSUME NEW i \in 1 .. Len(a) PROVE (a \o b)[i] = a[i]
  BY <1>1, <1>2
<1>5. QED
  BY <1>1, <1>2, <1>3, <1>4

(* A failure is told, after the eof where there is one.                     *)
LEMMA FailingIsClean ==
    ASSUME NEW q \in Records, NEW p, Finished(p, q, Failing(q)), Ending(q), q.client = "reading"
    PROVE  CleanEnd(p)
<1>1. /\ p.op = q.op /\ p.answer = q.answer \o Failing(q) /\ ~ q.stopping
      /\ q.answer \in Answers /\ p.answer \in Answers
  <2>1. ~ q.stopping
    BY DEF Ending, Shaped
  <2>2. QED
    BY <2>1, FieldsAre DEF Finished, Rest
<1>2. q.answer \in Seq(Message) /\ Len(q.answer) \in Nat
  BY <1>1 DEF Answers
<1>3. CASE Told(q)
  <2>1. Notice(q) = <<>>
    BY <1>3 DEF Notice
  <2>2. CASE Bounded(q)
    <3>1. p.answer = q.answer \o <<"eof_failed">>
      BY <1>1, <2>1, <2>2 DEF Failing
    <3>2. /\ Len(p.answer) = Len(q.answer) + 1 /\ p.answer[Len(q.answer) + 1] = "eof_failed"
          /\ DOMAIN p.answer = 1 .. Len(q.answer) + 1
          /\ \A i \in 1 .. Len(q.answer) : p.answer[i] = q.answer[i]
      BY <1>2, <3>1, MessagesAre
    <3>3. \A i \in 1 .. Len(q.answer) : q.answer[i] \notin Eof
      BY <1>2, <2>2 DEF Ending, NoEof
    <3>4. \A j \in DOMAIN p.answer \ {Len(q.answer) + 1} : j \in 1 .. Len(q.answer)
      BY <1>2, <3>2
    <3>5. QED
      BY <1>2, <3>2, <3>3, <3>4, MessagesAre DEF CleanEnd
  <2>3. CASE ~ Bounded(q)
    <3>1. p.answer = q.answer
      BY <1>1, <1>2, <2>1, <2>3 DEF Failing
    <3>2. QED
      BY <1>1, <1>3, <2>3, <3>1 DEF CleanEnd, Told, Bounded
  <2>4. QED
    BY <2>2, <2>3
<1>4. CASE ~ Told(q)
  <2>1. Notice(q) = <<"log", "connection_failed">>
    BY <1>4 DEF Notice
  <2>2. CASE Bounded(q)
    <3>1. Failing(q) = <<"eof_failed">> \o <<"log", "connection_failed">>
      BY <2>1, <2>2 DEF Failing
    <3>2. /\ Failing(q) \in Seq(Message) /\ Len(Failing(q)) = 3
          /\ Failing(q)[1] = "eof_failed" /\ Failing(q)[2] = "log"
          /\ Failing(q)[3] = "connection_failed"
      <4>1. <<"eof_failed">> \in Seq(Message) /\ <<"log", "connection_failed">> \in Seq(Message)
        BY MessagesAre
      <4>2. QED
        BY <3>1, <4>1
    <3>3. /\ Len(p.answer) = Len(q.answer) + 3 /\ p.answer[Len(q.answer) + 1] = "eof_failed"
          /\ p.answer[Len(q.answer) + 2] = "log" /\ p.answer[Len(q.answer) + 3] = "connection_failed"
          /\ DOMAIN p.answer = 1 .. Len(q.answer) + 3
          /\ \A i \in 1 .. Len(q.answer) : p.answer[i] = q.answer[i]
      <4> DEFINE a == q.answer
                 b == Failing(q)
      <4>1. a \in Seq(Message) /\ b \in Seq(Message) /\ p.answer = a \o b /\ Len(b) = 3
        BY <1>1, <1>2, <3>2
      <4>2. b[1] = "eof_failed" /\ b[2] = "log" /\ b[3] = "connection_failed" /\ Len(a) \in Nat
        BY <1>2, <3>2
      <4> HIDE DEF a, b
      <4>3. /\ Len(a \o b) = Len(a) + Len(b) /\ DOMAIN (a \o b) = 1 .. Len(a) + Len(b)
            /\ \A i \in 1 .. Len(a) : (a \o b)[i] = a[i]
            /\ \A i \in 1 .. Len(b) : (a \o b)[Len(a) + i] = b[i]
        BY <4>1, Joined
      <4>4. 1 \in 1 .. 3 /\ 2 \in 1 .. 3 /\ 3 \in 1 .. 3
        OBVIOUS
      <4>5. /\ Len(p.answer) = Len(a) + 3 /\ p.answer[Len(a) + 1] = "eof_failed"
            /\ p.answer[Len(a) + 2] = "log" /\ p.answer[Len(a) + 3] = "connection_failed"
            /\ DOMAIN p.answer = 1 .. Len(a) + 3
            /\ \A i \in 1 .. Len(a) : p.answer[i] = a[i]
        BY <4>1, <4>2, <4>3, <4>4
      <4>6. QED
        BY <4>5 DEF a
    <3>4. \A i \in 1 .. Len(q.answer) : q.answer[i] \notin Eof
      BY <1>2, <2>2 DEF Ending, NoEof
    <3>5. \A j \in DOMAIN p.answer \ {Len(q.answer) + 1} : p.answer[j] \notin Eof
      <4>1. \A j \in DOMAIN p.answer \ {Len(q.answer) + 1} :
              j \in 1 .. Len(q.answer) \/ j = Len(q.answer) + 2 \/ j = Len(q.answer) + 3
        BY <1>2, <3>3
      <4>2. QED
        BY <3>3, <3>4, <4>1, MessagesAre
    <3>6. Last(p.answer) = "connection_failed"
      BY <3>3 DEF Last
    <3>7. Len(q.answer) + 1 \in DOMAIN p.answer /\ Len(q.answer) + 3 \in DOMAIN p.answer
      BY <1>2, <3>3
    <3>8. Told(p)
      BY <3>3, <3>7 DEF Told
    <3>9. \E i \in DOMAIN p.answer :
            /\ p.answer[i] \in Eof
            /\ \A j \in DOMAIN p.answer \ {i} : p.answer[j] \notin Eof
            /\ i < Len(p.answer) => /\ p.answer[i] = "eof_failed"
                                    /\ Len(p.answer) = i + 2 /\ Last(p.answer) = "connection_failed"
      <4>1. "eof_failed" \in Eof /\ Len(q.answer) + 1 + 2 = Len(q.answer) + 3
        BY <1>2, MessagesAre
      <4>2. QED
        BY <3>3, <3>5, <3>6, <3>7, <4>1
    <3>10. QED
      BY <3>8, <3>9 DEF CleanEnd
  <2>3. CASE ~ Bounded(q)
    <3>1. p.answer = q.answer \o <<"log", "connection_failed">>
      BY <1>1, <2>1, <2>3 DEF Failing
    <3>2. Len(q.answer) + 2 \in DOMAIN p.answer /\ p.answer[Len(q.answer) + 2] = "connection_failed"
      BY <1>2, <3>1
    <3>3. QED
      BY <1>1, <2>3, <3>2 DEF CleanEnd, Told, Bounded
  <2>4. QED
    BY <2>2, <2>3
<1>5. QED
  BY <1>3, <1>4

(* An answer that ends well ends with what its streams did, or says that    *)
(* there is more.                                                           *)
LEMMA EndingIsClean ==
    ASSUME NEW q \in Records, NEW eof \in Eof, NEW p, Ending(q), q.client = "reading",
           Finished(p, q, IF Bounded(q) THEN <<eof>> ELSE <<>>),
           \/ Bounded(q) /\ eof # "eof"
           \/ \A s \in Speaks(q) :
                 q.run[s] \in IF q.op = "setup" THEN {"done", "closing", "killed"} ELSE {"done"}
    PROVE  CleanEnd(p)
<1>1. /\ p.op = q.op /\ p.sides = q.sides /\ ~ q.stopping /\ p.run = q.run
      /\ p.answer = q.answer \o (IF Bounded(q) THEN <<eof>> ELSE <<>>)
      /\ q.answer \in Seq(Message) /\ Len(q.answer) \in Nat
  <2>1. ~ q.stopping
    BY DEF Ending, Shaped
  <2>2. q.answer \in Seq(Message)
    BY FieldsAre DEF Answers
  <2>3. Len(q.answer) \in Nat
    BY <2>2
  <2>4. p.op = q.op /\ p.sides = q.sides /\ p.run = q.run
    BY <2>1 DEF Finished, Rest
  <2>5. p.answer = q.answer \o (IF Bounded(q) THEN <<eof>> ELSE <<>>)
    BY <2>1 DEF Finished
  <2>6. QED
    BY <2>1, <2>2, <2>3, <2>4, <2>5
<1>2. Speaks(p) = Speaks(q) /\ (Bounded(p) <=> Bounded(q))
  BY <1>1 DEF Speaks, Bounded
<1>3. CASE Bounded(q)
  <2>1. /\ Len(p.answer) = Len(q.answer) + 1 /\ p.answer[Len(q.answer) + 1] = eof
        /\ DOMAIN p.answer = 1 .. Len(q.answer) + 1
        /\ \A i \in 1 .. Len(q.answer) : p.answer[i] = q.answer[i]
    BY <1>1, <1>3, MessagesAre
  <2>2. \A i \in 1 .. Len(q.answer) : q.answer[i] \notin Eof
    BY <1>1, <1>3 DEF Ending, NoEof
  <2> DEFINE n == Len(q.answer)
             a == p.answer
  <2>n. n \in Nat /\ Len(a) = n + 1 /\ a[n + 1] = eof /\ DOMAIN a = 1 .. n + 1
    BY <1>1, <2>1
  <2>a. \A k \in 1 .. n : a[k] \notin Eof
    BY <2>1, <2>2
  <2> HIDE DEF n, a
  <2>3. \A j \in DOMAIN a \ {n + 1} : a[j] \notin Eof
    <3>1. \A j \in DOMAIN a \ {n + 1} : j \in 1 .. n
      BY <2>n
    <3>2. QED
      BY <2>a, <3>1
  <2>4. n + 1 \in DOMAIN a /\ ~ (n + 1 < Len(a))
    BY <2>n
  <2>5. \E i \in DOMAIN a :
          /\ a[i] \in Eof
          /\ \A j \in DOMAIN a \ {i} : a[j] \notin Eof
          /\ i < Len(a) => /\ a[i] = "eof_failed"
                           /\ Len(a) = i + 2 /\ Last(a) = "connection_failed"
    BY <2>n, <2>3, <2>4
  <2>6. eof # "eof" => \E i \in DOMAIN p.answer : p.answer[i] \in {"eof_more", "eof_failed"}
    BY <2>n, <2>4 DEF Eof, a
  <2>7. QED
    BY <1>1, <1>2, <2>5, <2>6 DEF CleanEnd, a
<1>4. CASE ~ Bounded(q)
  BY <1>1, <1>2, <1>4 DEF CleanEnd
<1>5. QED
  BY <1>3, <1>4

LEMMA ThrowsIsGood ==
    ASSUME NEW q \in Records, Ending(q)
    PROVE  Throws(q) \in Records /\ Good(Throws(q), kind)
<1>1. CASE q.op # "batch"
  <2>1. Finished(Throws(q), q, Failing(q))
    BY <1>1, ThrowsIs
  <2>2. Failing(q) \in Answers
    <3>1. (IF Bounded(q) THEN <<"eof_failed">> ELSE <<>>) \in Seq(Message)
          /\ Notice(q) \in Seq(Message)
      BY MessagesAre DEF Notice
    <3>2. QED
      BY <3>1 DEF Answers, Failing
  <2>3. q.client = "reading" => CleanEnd(Throws(q))
    BY <2>1, FailingIsClean
  <2>4. Good(Throws(q), kind)
    BY <2>1, <2>2, <2>3, FinishedIsGood
  <2>5. QED
    BY <2>1, <2>4 DEF Finished
<1>2. CASE q.op = "batch"
  <2>1. /\ Throws(q) \in Records /\ Rest(Throws(q), q) /\ Throws(q).stage = "over"
        /\ Throws(q).client = IF q.client = "reading" THEN "refused" ELSE q.client
        /\ Throws(q).run = q.run /\ Throws(q).after = q.after
    BY <1>2, ThrowsIs
  <2> DEFINE p == Throws(q)
  <2> HIDE DEF p
  <2>2. /\ p.op = "batch" /\ p.stage = "over" /\ p.run = q.run /\ p.after = 0 /\ p.pump = q.pump
        /\ p.sides = q.sides /\ p.stopping = q.stopping
        /\ p.client = IF q.client = "reading" THEN "refused" ELSE q.client
    BY <1>2, <2>1 DEF Ending, p, Rest
  <2>3. q.client \in {"reading", "left", "cut"} /\ q.stage # "idle"
    BY DEF Ending, Shaped, Unfinished
  <2>4. Shaped(p)
    BY <1>2, <2>2, <2>3, OpsAre DEF Ending, Shaped, Unfinished
  <2>5. Stopped(p)
    BY <1>2, <2>2 DEF Stopped, Ending
  <2>6. Sound(p) /\ NoEof(p) /\ Held(p, kind) /\ Released(p, kind)
    BY <1>2, <2>2 DEF Sound, NoEof, Held, Released, Bounded, Ending
  <2>7. Good(p, kind)
    BY <2>2, <2>3, <2>4, <2>5, <2>6 DEF Good
  <2>8. QED
    BY <2>1, <2>7 DEF p
<1>3. QED
  BY <1>1, <1>2

LEMMA EndsIsGood ==
    ASSUME NEW q \in Records, NEW eof \in Eof, Ending(q),
           \/ Bounded(q) /\ eof # "eof"
           \/ \A s \in Speaks(q) :
                 q.run[s] \in IF q.op = "setup" THEN {"done", "closing", "killed"} ELSE {"done"}
    PROVE  Ends(q, eof) \in Records /\ Good(Ends(q, eof), kind)
<1> DEFINE ms == IF Bounded(q) THEN <<eof>> ELSE <<>>
<1>1. Finished(Ends(q, eof), q, ms) /\ ms \in Answers
  BY EndsIs, MessagesAre DEF Answers
<1>2. q.client = "reading" => CleanEnd(Ends(q, eof))
  BY <1>1, EndingIsClean
<1>3. Good(Ends(q, eof), kind)
  BY <1>1, <1>2, FinishedIsGood
<1>4. QED
  BY <1>1, <1>3 DEF Finished

(* Steps that leave what runs, and for whom, as it is.                      *)
Alike(p, q) ==
    /\ p.op = q.op /\ p.sides = q.sides /\ p.stage = q.stage /\ p.run = q.run
    /\ p.client = q.client /\ p.stopping = q.stopping /\ p.after = q.after

LEMMA AlikeIsGood ==
    ASSUME NEW q \in Records, NEW p, Good(q, kind), q.stage \in Unfinished \cup {"over"},
           Alike(p, q), Held(p, kind), NoEof(p), p.answer = q.answer \/ q.stage = "running"
    PROVE  Good(p, kind)
<1>1. Shaped(p)
  BY DEF Alike, Good, Shaped, Unfinished
<1>2. Stopped(p) /\ Sound(p)
  BY DEF Alike, Good, Stopped, Sound, Speaks, Quit
<1>3. p.stage = "over" => Released(p, kind)
  BY DEF Alike, Good, Released
<1>4. ASSUME p.client = "done" PROVE p.stage = "over" /\ CleanEnd(p)
  <2>1. q.stage = "over" /\ CleanEnd(q) /\ p.stage = "over" /\ p.answer = q.answer
    BY <1>4 DEF Alike, Good
  <2>2. QED
    BY <2>1 DEF Alike, CleanEnd, Bounded, Told, Speaks
<1>5. QED
  BY <1>1, <1>2, <1>3, <1>4 DEF Good

(* A message to the client, or the last one for a client that has left.     *)
LEMMA SayIsGood ==
    ASSUME NEW q \in Records, NEW ms \in Answers, Good(q, kind), q.stage = "running",
           Bounded(q) => \A i \in DOMAIN ms : ms[i] \notin Eof
    PROVE  Say(q, ms) \in Records /\ Good(Say(q, ms), kind)
<1> DEFINE p == Say(q, ms)
<1>1. p \in Records /\ Rest(p, q)
  BY SayIs
<1>2. CASE ms = <<>>
  BY <1>1, <1>2, SayIs
<1>3. CASE ms # <<>> /\ q.stopping
  <2>1. /\ p.stage = "over" /\ p.after = q.after + 1 /\ p.run = ClosedAtYield(q)
        /\ q.client = "left" /\ p.client = "left" /\ q.after = 0
    BY <1>3, SayIs DEF Good, Shaped, Stopped
  <2>2. /\ \A s \in Side : \/ p.run[s] = q.run[s]
                           \/ /\ q.run[s] = "running"
                              /\ p.run[s] = IF q.op \in Merged THEN "closing" ELSE "killed"
        /\ Side = {"source", "destination"}
        /\ q.op \in Piped => /\ p.run["destination"] # "running"
                             /\ kind["destination"] = "inprocess" => p.run["source"] # "running"
        /\ q.op \notin Piped => \A s \in Side : p.run[s] # "running"
    BY <2>1, ClosedIs DEF Side
  <2> HIDE DEF p
  <2>3. Shaped(p)
    BY <1>1, <2>1, <2>2 DEF Good, Shaped, Unfinished, Rest
  <2>4. Stopped(p)
    <3>1. p.after = 1
      BY <2>1
    <3>2. p.op = q.op
      BY <1>1 DEF Rest
    <3>3. QED
      BY <2>1, <2>2, <3>1, <3>2 DEF Stopped
  <2>5. Sound(p) /\ NoEof(p)
    BY <2>1 DEF Sound, NoEof
  <2>6. Held(p, kind)
    <3>1. Bounded(q) => q.op \notin Merged
      BY DEF Bounded, Merged
    <3>2. Bounded(q) => \A s \in Side : p.run[s] \in {"closing", "garbled"} => p.run[s] = q.run[s]
      BY <2>2, <3>1
    <3>3. Held(q, kind) /\ p.op = q.op /\ p.pump = q.pump
      BY <1>1 DEF Good, Rest
    <3>4. p.run["source"] = "running" => q.run["source"] = "running"
      BY <2>2
    <3>5. QED
      BY <2>2, <3>2, <3>3, <3>4 DEF Held, Bounded
  <2>7. Released(p, kind)
    <3>1. p.op = q.op /\ "sync" \in Piped /\ "read" \notin Piped
      BY <1>1 DEF Rest, Piped
    <3>2. QED
      BY <2>2, <3>1 DEF Released
  <2>8. QED
    BY <1>1, <2>1, <2>3, <2>4, <2>5, <2>6, <2>7 DEF Good, p
<1>4. CASE ms # <<>> /\ ~ q.stopping
  <2>1. /\ p.stage = q.stage /\ p.after = q.after /\ p.run = q.run /\ p.client = q.client
        /\ p.answer = IF q.client = "reading" THEN q.answer \o ms ELSE q.answer
    BY <1>4, SayIs
  <2>2. NoEof(p)
    <3>1. q.answer \in Seq(Message) /\ ms \in Seq(Message)
      BY FieldsAre DEF Answers
    <3>2. ASSUME Bounded(p), p.client = "reading", NEW i \in DOMAIN p.answer PROVE p.answer[i] \notin Eof
      <4>1. Bounded(q) /\ q.client = "reading" /\ NoEof(q) /\ p.answer = q.answer \o ms
        BY <1>1, <2>1, <3>2 DEF Good, Rest, Bounded
      <4>2. \A k \in DOMAIN q.answer : q.answer[k] \notin Eof
        BY <4>1 DEF NoEof
      <4>3. /\ DOMAIN p.answer = 1 .. Len(q.answer) + Len(ms)
            /\ \A k \in 1 .. Len(q.answer) : p.answer[k] = q.answer[k]
            /\ \A k \in 1 .. Len(ms) : p.answer[Len(q.answer) + k] = ms[k]
        BY <3>1, <4>1, Joined
      <4>4. Len(q.answer) \in Nat /\ Len(ms) \in Nat /\ DOMAIN q.answer = 1 .. Len(q.answer)
            /\ DOMAIN ms = 1 .. Len(ms)
        BY <3>1
      <4>5. CASE i \in 1 .. Len(q.answer)
        BY <4>2, <4>3, <4>4, <4>5
      <4>6. CASE i \notin 1 .. Len(q.answer)
        <5>1. i - Len(q.answer) \in 1 .. Len(ms) /\ i = Len(q.answer) + (i - Len(q.answer))
          BY <3>2, <4>3, <4>4, <4>6
        <5>2. p.answer[i] = ms[i - Len(q.answer)]
          BY <4>3, <5>1
        <5>3. QED
          BY <4>1, <4>4, <5>1, <5>2
      <4>7. QED
        BY <4>5, <4>6
    <3>3. QED
      BY <3>2 DEF NoEof
  <2> HIDE DEF p
  <2>3. Alike(p, q)
    BY <1>1, <2>1 DEF Alike, Rest
  <2>4. Held(p, kind)
    BY <1>1, <2>1 DEF Good, Held, Bounded, Rest
  <2>5. Good(p, kind)
    BY <2>2, <2>3, <2>4, AlikeIsGood DEF Unfinished
  <2>6. QED
    BY <1>1, <2>5 DEF p
<1>5. QED
  BY <1>2, <1>3, <1>4

-----------------------------------------------------------------------------
(* Each step, on the request it is about.                                   *)

\* what a step leaves of its request
Moved(r) ==
    /\ req' = [req EXCEPT ![r] = req'[r]]
    /\ req'[r] \in Records /\ Good(req'[r], kind) /\ req'[r].fresh \subseteq req[r].fresh

LEMMA BecomeIs ==
    ASSUME Inv, NEW r \in Request, NEW e, Become(r, e), e \in Records
    PROVE  req' = [req EXCEPT ![r] = req'[r]] /\ req'[r] = e
  BY DEF Become, Inv, Requests

LEMMA RequestIs ==
    ASSUME Inv, NEW r \in Request
    PROVE  req[r] \in Records /\ Good(req[r], kind) /\ req[r].fresh \subseteq cache
  BY DEF Inv, Requests

LEMMA KindIs ==
    ASSUME Inv
    PROVE  \A s \in Side : kind[s] \in {"inprocess", "subprocess"}
  BY DEF Inv, Resolver

(* A request whose connectors have not started may end.                     *)
LEMMA OffIsEnding ==
    ASSUME NEW q \in Records, Good(q, kind), q.stage \in {"asked", "resolving"}
    PROVE  Ending(q)
<1>1. \A s \in Side : q.run[s] = "off"
  BY DEF Good, Shaped
<1>2. "source" \in Side /\ "destination" \in Side
  BY DEF Side
<1>3. Held(q, kind) /\ Released(q, kind) /\ q.after = 0 /\ q.run["destination"] # "running"
  BY <1>1, <1>2 DEF Good, Stopped, Held, Released
<1>4. QED
  BY <1>3 DEF Ending, Good, Unfinished

(* The specs a request still waits for matter to nothing else.              *)
LEMMA FreshIs ==
    ASSUME NEW q \in Records, Good(q, kind), NEW S \in Sides, q.stage # "idle"
    PROVE  LET p == [q EXCEPT !.fresh = S]
           IN  p \in Records /\ Good(p, kind) /\ p.stage = q.stage /\ p.fresh = S
<1> DEFINE p == [q EXCEPT !.fresh = S]
<1>1. p \in Records /\ p.fresh = S /\ Alike(p, q) /\ p.answer = q.answer /\ p.pump = q.pump
  BY DEF Records, Alike
<1> HIDE DEF p
<1>2. Held(p, kind) /\ NoEof(p)
  BY <1>1 DEF Good, Held, NoEof, Bounded, Alike
<1>3. q.stage \in Unfinished \cup {"over"}
  BY FieldsAre DEF Stages, Unfinished
<1>4. Good(p, kind)
  BY <1>1, <1>2, <1>3, AlikeIsGood
<1>5. QED
  BY <1>1, <1>4 DEF Alike, p

LEMMA AskMoves ==
    ASSUME Inv, NEW r \in Request, Ask(r)
    PROVE  Moved(r)
<1>1. PICK op \in Asks[r], S \in (SUBSET Side) \ {{}} :
        /\ CASE op \in {"read", "discover"} -> S = {"source"}
             [] op = "write"                -> S = {"destination"}
             [] op \in Piped                -> S = Side
             [] OTHER                       -> TRUE
        /\ Become(r, [Idle EXCEPT !.op = op, !.sides = S, !.stage = "asked",
                                  !.client = "reading"])
  BY DEF Ask
<1> DEFINE p == [Idle EXCEPT !.op = op, !.sides = S, !.stage = "asked", !.client = "reading"]
<1>2. op \in Op /\ S \in Sides /\ S # {}
  <2>1. Asks[r] \in SUBSET Op
    BY EngineApiAssumption
  <2>2. QED
    BY <2>1 DEF Sides
<1>3. op \in Ops /\ "asked" \in Stages /\ "reading" \in Clients
  BY <1>2 DEF Ops, Stages, Clients
<1>4. /\ p \in Records /\ p.op = op /\ p.sides = S /\ p.stage = "asked" /\ p.client = "reading"
      /\ p.run = Idle.run /\ p.answer = Idle.answer /\ p.stopping = Idle.stopping
      /\ p.after = Idle.after /\ p.fresh = Idle.fresh
  BY <1>2, <1>3, IdleIs DEF Records
<1>5. /\ op \in {"read", "discover"} => S = {"source"}
      /\ op = "write" => S = {"destination"}
      /\ op \in Piped => S = Side
  BY <1>1 DEF Piped
<1>6. Become(r, p)
  BY <1>1
<1> HIDE DEF p
<1>7. req' = [req EXCEPT ![r] = req'[r]] /\ req'[r] = p
  BY <1>4, <1>6, BecomeIs
<1>8. (\A s \in Side : p.run[s] = "off") /\ p.answer = <<>> /\ p.after = 0 /\ ~ p.stopping
      /\ p.fresh = {}
  BY <1>4, IdleIs
<1>9. Shaped(p)
  BY <1>2, <1>4, <1>5, <1>8 DEF Shaped, Unfinished
<1>10. Stopped(p) /\ Sound(p) /\ NoEof(p)
  BY <1>4, <1>8 DEF Stopped, Sound, NoEof
<1>11. Held(p, kind)
  BY <1>8 DEF Held, Side
<1>12. QED
  BY <1>4, <1>7, <1>8, <1>9, <1>10, <1>11 DEF Moved, Good

LEMMA RefuseMoves ==
    ASSUME Inv, NEW r \in Request, Refuse(r)
    PROVE  Moved(r)
<1>1. PICK q : q = req[r]
  OBVIOUS
<1> DEFINE client == IF q.client = "reading" THEN "refused" ELSE q.client
           p == [q EXCEPT !.stage = "over", !.client = client]
<1>2. q \in Records /\ Good(q, kind) /\ q.stage = "asked" /\ Become(r, p)
  BY <1>1, RequestIs DEF Refuse
<1>3. client \in Clients /\ "over" \in Stages
  BY <1>2, FieldsAre DEF Clients, Stages
<1>4. client # "reading" /\ client # "done" /\ (q.client = "left" => client = "left")
  BY <1>2 DEF Good, Shaped, Unfinished
<1> HIDE DEF client
<1>5. /\ p \in Records /\ p.stage = "over" /\ p.client = client /\ Rest(p, q) /\ p.run = q.run
      /\ p.answer = q.answer /\ p.after = q.after
  BY <1>2, <1>3 DEF Records, Rest
<1> HIDE DEF p
<1>6. req' = [req EXCEPT ![r] = req'[r]] /\ req'[r] = p
  BY <1>2, <1>5, BecomeIs
<1>7. Ending(q) /\ \A s \in Side : q.run[s] = "off"
  BY <1>2, OffIsEnding DEF Good, Shaped
<1>8. Shaped(p)
  BY <1>2, <1>4, <1>5 DEF Good, Shaped, Unfinished, Rest
<1>9. Stopped(p) /\ Sound(p) /\ NoEof(p)
  BY <1>4, <1>5, <1>7 DEF Stopped, Sound, NoEof, Ending, Rest
<1>10. Held(p, kind) /\ Released(p, kind)
  BY <1>5, <1>7 DEF Held, Released, Ending, Rest, Bounded
<1>11. Good(p, kind)
  BY <1>4, <1>5, <1>8, <1>9, <1>10 DEF Good
<1>12. QED
  BY <1>1, <1>5, <1>6, <1>11 DEF Moved, Rest

\* what a request needs beyond Ending where it may end
LEMMA ThrowsMoves ==
    ASSUME Inv, NEW r \in Request, NEW p \in Records, p.fresh \subseteq req[r].fresh,
           Become(r, Throws(p)), Ending(p)
    PROVE  Moved(r)
<1>1. PICK e : e = Throws(p)
  OBVIOUS
<1>2. e \in Records /\ Good(e, kind) /\ e.fresh = p.fresh
  <2>1. Throws(p) \in Records /\ Good(Throws(p), kind)
    BY ThrowsIsGood
  <2>2. Throws(p).fresh = p.fresh
    BY ThrowsIs DEF Finished, Rest
  <2>3. QED
    BY <1>1, <2>1, <2>2
<1>3. req' = [req EXCEPT ![r] = req'[r]] /\ req'[r] = e
  BY <1>1, <1>2, BecomeIs
<1>4. QED
  BY <1>2, <1>3 DEF Moved

LEMMA EndsMoves ==
    ASSUME Inv, NEW r \in Request, NEW p \in Records, p.fresh \subseteq req[r].fresh, NEW eof \in Eof,
           Become(r, Ends(p, eof)), Ending(p),
           \/ Bounded(p) /\ eof # "eof"
           \/ \A s \in Speaks(p) :
                 p.run[s] \in IF p.op = "setup" THEN {"done", "closing", "killed"} ELSE {"done"}
    PROVE  Moved(r)
<1>1. PICK e : e = Ends(p, eof)
  OBVIOUS
<1>2. e \in Records /\ Good(e, kind) /\ e.fresh = p.fresh
  <2>1. Ends(p, eof) \in Records /\ Good(Ends(p, eof), kind)
    BY EndsIsGood
  <2>2. Ends(p, eof).fresh = p.fresh
    BY EndsIs DEF Finished, Rest
  <2>3. QED
    BY <1>1, <2>1, <2>2
<1>3. req' = [req EXCEPT ![r] = req'[r]] /\ req'[r] = e
  BY <1>1, <1>2, BecomeIs
<1>4. QED
  BY <1>2, <1>3 DEF Moved

LEMMA StaysMoves ==
    ASSUME Inv, NEW r \in Request, NEW p \in Records, p.fresh \subseteq req[r].fresh,
           Become(r, p), Good(p, kind)
    PROVE  Moved(r)
  BY BecomeIs DEF Moved

(* Resolving: the step on the request, and on the resolver.                 *)
LEMMA ResolveMoves ==
    ASSUME Inv, NEW r \in Request, Resolve(r)
    PROVE  /\ req' = [req EXCEPT ![r] = req'[r]]
           /\ req'[r] \in Records /\ Good(req'[r], kind) /\ req'[r].fresh \subseteq cache'
<1>1. PICK q : q = req[r]
  OBVIOUS
<1> DEFINE p == [q EXCEPT !.stage = "resolving", !.fresh = New(q)]
<1>2. q \in Records /\ Good(q, kind) /\ q.stage = "asked"
      /\ Become(r, IF Needs(q) \subseteq cache \cup New(q) THEN p ELSE Throws(p))
  BY <1>1, RequestIs DEF Resolve
<1>3. New(q) \in Sides /\ New(q) \subseteq cache' /\ "resolving" \in Stages
  BY <1>1 DEF Resolve, New, Sides, Stages, Inv, Resolver
<1>4. p \in Records /\ p.fresh = New(q) /\ p.stage = "resolving" /\ p.run = q.run
      /\ p.answer = q.answer /\ p.op = q.op /\ p.sides = q.sides /\ p.client = q.client
      /\ p.stopping = q.stopping /\ p.after = q.after /\ p.pump = q.pump
  BY <1>2, <1>3 DEF Records
<1>5. Good(p, kind)
  <2> HIDE DEF p
  <2>1. Shaped(p)
    BY <1>2, <1>4 DEF Good, Shaped, Unfinished
  <2>2. Stopped(p) /\ Sound(p) /\ NoEof(p) /\ Held(p, kind)
    BY <1>2, <1>4 DEF Good, Stopped, Sound, NoEof, Held, Bounded
  <2>3. p.client # "done"
    BY <1>2, <1>4 DEF Good
  <2>4. QED
    BY <1>4, <2>1, <2>2, <2>3 DEF Good
<1>6. Ending(p)
  BY <1>4, <1>5, OffIsEnding
<1> HIDE DEF p
<1>7. PICK e : e = IF Needs(q) \subseteq cache \cup New(q) THEN p ELSE Throws(p)
  OBVIOUS
<1>8. e \in Records /\ Good(e, kind) /\ e.fresh = New(q)
  <2>1. Throws(p) \in Records /\ Good(Throws(p), kind) /\ Throws(p).fresh = p.fresh
    BY <1>4, <1>6, ThrowsIsGood, ThrowsIs DEF Finished, Rest
  <2>2. QED
    BY <1>4, <1>5, <1>7, <2>1
<1>9. req' = [req EXCEPT ![r] = req'[r]] /\ req'[r] = e
  BY <1>2, <1>7, <1>8, BecomeIs
<1>10. QED
  BY <1>3, <1>8, <1>9

LEMMA SpecOfMoves ==
    ASSUME Inv, NEW r \in Request, NEW s \in Side, SpecOf(r, s)
    PROVE  Moved(r)
<1>1. PICK q : q = req[r]
  OBVIOUS
<1> DEFINE p == [q EXCEPT !.fresh = q.fresh \ {s}]
<1>2. q \in Records /\ Good(q, kind) /\ s \in q.fresh
      /\ (Become(r, p) \/ Become(r, IF q.stage = "resolving" THEN Throws(p) ELSE p))
  BY <1>1, RequestIs DEF SpecOf
<1>3. q.stage # "idle"
  BY <1>2, IdleIs DEF Good, Shaped
<1>4. q.fresh \ {s} \in Sides
  BY <1>2, FieldsAre DEF Sides
<1>5. p \in Records /\ Good(p, kind) /\ p.stage = q.stage /\ p.fresh \subseteq req[r].fresh
  BY <1>1, <1>2, <1>3, <1>4, FreshIs
<1> HIDE DEF p
<1>6. CASE Become(r, p)
  BY <1>5, <1>6, StaysMoves
<1>7. CASE q.stage = "resolving" /\ Become(r, Throws(p))
  BY <1>5, <1>7, OffIsEnding, ThrowsMoves
<1>8. QED
  BY <1>2, <1>6, <1>7

LEMMA StartMoves ==
    ASSUME Inv, NEW r \in Request, Start(r)
    PROVE  Moved(r)
<1>1. PICK q : q = req[r]
  OBVIOUS
<1>2. q \in Records /\ Good(q, kind) /\ q.stage = "resolving"
      /\ (Become(r, Started(q)) \/ Become(r, Throws(q)))
  BY <1>1, RequestIs DEF Start
<1>3. CASE Become(r, Throws(q))
  BY <1>1, <1>2, <1>3, OffIsEnding, ThrowsMoves
<1>4. CASE Become(r, Started(q))
  <2> DEFINE run  == [s \in Side |-> IF s \in q.sides THEN "running" ELSE "off"]
             pump == IF q.op \in Piped \cup {"write"} /\ kind["destination"] = "subprocess"
                     THEN "open" ELSE "none"
  <2>1. PICK p : p = Started(q)
    OBVIOUS
  <2>2. run \in Runs /\ pump \in Pumps /\ "running" \in Stages
    BY DEF Runs, Ways, Pumps, Stages
  <2>3. /\ \A s \in Side : run[s] = IF s \in q.sides THEN "running" ELSE "off"
        /\ q.op \in Piped /\ kind["destination"] = "subprocess" => pump = "open"
    OBVIOUS
  <2> HIDE DEF run, pump
  <2>4. p = [q EXCEPT !.stage = "running", !.run = run, !.pump = pump]
    BY <2>1 DEF Started, run, pump
  <2>5. /\ p \in Records /\ p.stage = "running" /\ p.run = run /\ p.pump = pump
        /\ p.op = q.op /\ p.sides = q.sides /\ p.client = q.client /\ p.answer = q.answer
        /\ p.stopping = q.stopping /\ p.after = q.after /\ p.fresh = q.fresh
    BY <1>2, <2>2, <2>4 DEF Records
  <2> HIDE <2>4
  <2>6. Shaped(p)
    BY <1>2, <2>3, <2>5 DEF Good, Shaped, Unfinished
  <2>7. Stopped(p)
    BY <1>2, <2>5 DEF Good, Stopped
  <2>8. Sound(p)
    <3>1. q.sides \in Sides /\ q.sides # {} /\ (q.op \in Piped => q.sides = Side)
      BY <1>2, FieldsAre DEF Good, Shaped
    <3>2. Speaks(p) \subseteq q.sides /\ Speaks(p) # {} /\ q.sides \subseteq Side
      BY <2>5, <3>1 DEF Speaks, Side, Sides
    <3>3. \A s \in Speaks(p) : p.run[s] = "running"
      BY <2>3, <2>5, <3>2
    <3>4. QED
      BY <3>2, <3>3 DEF Sound
  <2>9. Held(p, kind)
    BY <2>3, <2>5 DEF Held
  <2>10. NoEof(p)
    BY <1>2, <2>5 DEF Good, NoEof, Bounded
  <2>11. Good(p, kind)
    BY <1>2, <2>5, <2>6, <2>7, <2>8, <2>9, <2>10 DEF Good
  <2>12. QED
    BY <1>1, <1>4, <2>1, <2>5, <2>11, StaysMoves
<1>5. QED
  BY <1>2, <1>3, <1>4

LEMMA ConnectorSaysMoves ==
    ASSUME Inv, NEW r \in Request, NEW s \in Side, ConnectorSays(r, s)
    PROVE  Moved(r)
<1>1. PICK q : q = req[r]
  OBVIOUS
<1>2. /\ q \in Records /\ Good(q, kind) /\ q.stage = "running" /\ q.said[s] < MaxItems
      /\ \E m \in OutputOf[q.op] \cap Spoken :
            Become(r, Say([q EXCEPT !.said[s] = @ + 1], Emits(q, m)))
  BY <1>1, RequestIs DEF ConnectorSays, Alive
<1>3. PICK m \in OutputOf[q.op] \cap Spoken : Become(r, Say([q EXCEPT !.said[s] = @ + 1], Emits(q, m)))
  BY <1>2
<1> DEFINE said == [q.said EXCEPT ![s] = q.said[s] + 1]
           p    == [q EXCEPT !.said = said]
<1>4. said \in Tallies
  <2>1. q.said \in [Side -> 0 .. MaxItems] /\ MaxItems \in Nat
    BY <1>2, FieldsAre, EngineApiAssumption DEF Tallies, Counts
  <2>2. q.said[s] + 1 \in 0 .. MaxItems
    BY <1>2, <2>1
  <2>3. QED
    BY <2>1, <2>2 DEF Tallies, Counts
<1>5. Become(r, Say(p, Emits(q, m)))
  BY <1>3
<1> HIDE DEF said
<1>6. p \in Records /\ Alike(p, q) /\ p.answer = q.answer /\ p.pump = q.pump /\ p.fresh = q.fresh
  BY <1>2, <1>4 DEF Records, Alike
<1> HIDE DEF p
<1>7. Good(p, kind)
  <2>1. Held(p, kind) /\ NoEof(p)
    BY <1>2, <1>6 DEF Good, Held, NoEof, Bounded, Alike
  <2>2. QED
    BY <1>2, <1>6, <2>1, AlikeIsGood DEF Unfinished
<1>8. q.op \in Op /\ m \in Message /\ (Bounded(q) => m \notin Eof)
  <2>1. q.op \in Op
    BY <1>2 DEF Good, Shaped
  <2>2. QED
    BY <2>1, OpsAre DEF Bounded
<1>9. /\ Emits(q, m) \in Answers
      /\ Bounded(q) => \A i \in DOMAIN Emits(q, m) : Emits(q, m)[i] \notin Eof
  <2>1. Emits(q, m) \in {<<>>, <<m, "progress">>, <<m>>}
    BY DEF Emits
  <2>2. CASE Emits(q, m) = <<>>
    BY <2>2 DEF Answers
  <2>3. CASE Emits(q, m) = <<m, "progress">>
    BY <1>8, <2>3, MessagesAre DEF Answers
  <2>4. CASE Emits(q, m) = <<m>>
    BY <1>8, <2>4 DEF Answers
  <2>5. QED
    BY <2>1, <2>2, <2>3, <2>4
<1>10. p.stage = "running" /\ Bounded(p) = Bounded(q)
  BY <1>2, <1>6 DEF Alike, Bounded
<1>11. PICK e : e = Say(p, Emits(q, m))
  OBVIOUS
<1>12. e \in Records /\ Good(e, kind) /\ e.fresh = q.fresh
  <2>1. Say(p, Emits(q, m)) \in Records /\ Good(Say(p, Emits(q, m)), kind)
    BY <1>6, <1>7, <1>9, <1>10, SayIsGood
  <2>2. Rest(Say(p, Emits(q, m)), p)
    BY <1>6, <1>9, SayIs
  <2>3. QED
    BY <1>6, <1>11, <2>1, <2>2 DEF Rest
<1>13. QED
  BY <1>1, <1>5, <1>11, <1>12, StaysMoves

\* the pump, and what was pulled
LEMMA PumpMoves ==
    ASSUME Inv, NEW r \in Request, NEW pump \in Pumps, req[r].stage \in Unfinished \cup {"over"},
           req[r].pulled < MaxItems, pump = req[r].pump \/ pump \in {"open", "stuck"},
           Become(r, [req[r] EXCEPT !.pulled = @ + 1, !.pump = pump])
    PROVE  Moved(r)
<1>1. PICK q : q = req[r]
  OBVIOUS
<1> DEFINE pulled == q.pulled + 1
           p      == [q EXCEPT !.pulled = pulled, !.pump = pump]
<1>2. q \in Records /\ Good(q, kind) /\ Become(r, p)
  BY <1>1, RequestIs
<1>3. pulled \in Counts
  <2>1. q.pulled \in 0 .. MaxItems /\ MaxItems \in Nat /\ q.pulled < MaxItems
    BY <1>1, <1>2, FieldsAre, EngineApiAssumption DEF Counts
  <2>2. QED
    BY <2>1 DEF Counts
<1> HIDE DEF pulled
<1>4. p \in Records /\ Alike(p, q) /\ p.answer = q.answer /\ p.pump = pump /\ p.fresh = q.fresh
  BY <1>2, <1>3 DEF Records, Alike
<1> HIDE DEF p
<1>5. Held(p, kind) /\ NoEof(p)
  BY <1>1, <1>2, <1>4 DEF Good, Held, NoEof, Bounded, Alike
<1>6. Good(p, kind)
  BY <1>1, <1>2, <1>4, <1>5, AlikeIsGood
<1>7. QED
  BY <1>1, <1>2, <1>4, <1>6, StaysMoves

\* a request with streams, or what is left of them, has begun
LEMMA BegunIs ==
    ASSUME NEW q \in Records, Good(q, kind), NEW s \in Side, q.run[s] # "off"
    PROVE  q.stage \in {"running", "over"}
<1>1. q.stage # "idle"
  BY IdleIs DEF Good, Shaped
<1>2. q.stage \notin {"asked", "resolving"}
  BY DEF Good, Shaped
<1>3. QED
  BY <1>1, <1>2, FieldsAre DEF Stages

LEMMA SourceGivesMoves ==
    ASSUME Inv, NEW r \in Request, SourceGives(r)
    PROVE  Moved(r)
<1>1. req[r] \in Records /\ Good(req[r], kind) /\ req[r].pump \in Pumps
  BY RequestIs, FieldsAre
<1>2. /\ req[r].pulled < MaxItems /\ req[r].run["destination"] = "running"
      /\ Become(r, [req[r] EXCEPT !.pulled = @ + 1])
  BY DEF SourceGives, Feeds
<1>3. req[r].stage \in Unfinished \cup {"over"}
  <2>1. "destination" \in Side
    BY DEF Side
  <2>2. QED
    BY <1>1, <1>2, <2>1, BegunIs DEF Unfinished
<1>4. [req[r] EXCEPT !.pulled = @ + 1] = [req[r] EXCEPT !.pulled = @ + 1, !.pump = req[r].pump]
  BY <1>1 DEF Records
<1>5. QED
  BY <1>1, <1>2, <1>3, <1>4, PumpMoves

LEMMA PumpToTheDeadMoves ==
    ASSUME Inv, NEW r \in Request, PumpToTheDead(r)
    PROVE  Moved(r) \/ req' = [x \in Request |->
                                  [req[x] EXCEPT !.client = IF @ = "reading" THEN "cut" ELSE @]]
<1>1. req[r] \in Records /\ Good(req[r], kind) /\ req[r].pump \in Pumps
  BY RequestIs, FieldsAre
<1>2. req[r].pulled < MaxItems /\ req[r].run["destination"] # "off"
  BY DEF PumpToTheDead, Feeds
<1>3. req[r].stage \in Unfinished \cup {"over"}
  <2>1. "destination" \in Side
    BY DEF Side
  <2>2. QED
    BY <1>1, <1>2, <2>1, BegunIs DEF Unfinished
<1>4. CASE Become(r, [req[r] EXCEPT !.pulled = @ + 1, !.pump = "stuck"])
  <2>1. "stuck" \in Pumps
    BY DEF Pumps
  <2>2. QED
    BY <1>2, <1>3, <1>4, <2>1, PumpMoves
<1>5. QED
  BY <1>4 DEF PumpToTheDead

(* When the process crashes, every open answer is cut.                      *)
LEMMA CutIsGood ==
    ASSUME NEW q \in Records, Good(q, kind)
    PROVE  LET p == [q EXCEPT !.client = IF @ = "reading" THEN "cut" ELSE @]
           IN  p \in Records /\ Good(p, kind) /\ p.fresh = q.fresh
<1> DEFINE client == IF q.client = "reading" THEN "cut" ELSE q.client
           p      == [q EXCEPT !.client = client]
<1>1. client \in Clients
  BY FieldsAre DEF Clients
<1>2. client # "reading" /\ (q.client # "reading" => client = q.client)
      /\ client \in {q.client, "cut"}
  OBVIOUS
<1> HIDE DEF client
<1>3. p \in Records /\ p.client = client /\ Rest(p, q) /\ p.stage = q.stage /\ p.run = q.run
      /\ p.answer = q.answer /\ p.after = q.after
  BY <1>1 DEF Records, Rest
<1>4. Good(p, kind)
  <2>1. CASE q.stage = "idle"
    <3>1. q = Idle /\ client = q.client
      BY <1>2, <2>1, IdleIs DEF Good, Shaped
    <3>2. p = q
      BY <3>1 DEF Records
    <3>3. QED
      BY <3>2
  <2>2. CASE q.stage # "idle"
    <3> HIDE DEF p
    <3>1. Shaped(p)
      BY <1>2, <1>3, <2>2 DEF Good, Shaped, Unfinished, Rest
    <3>2. Stopped(p) /\ Sound(p) /\ NoEof(p)
      BY <1>2, <1>3 DEF Good, Stopped, Sound, Speaks, NoEof, Quit, Rest
    <3>3. Held(p, kind) /\ (p.stage = "over" => Released(p, kind))
      BY <1>3 DEF Good, Held, Released, Bounded, Rest
    <3>4. p.client = "done" => p.stage = "over" /\ CleanEnd(p)
      <4>1. p.client = "done" => q.client = "done"
        BY <1>2, <1>3
      <4>2. CleanEnd(q) => CleanEnd(p)
        BY <1>3 DEF CleanEnd, Bounded, Told, Speaks, Rest
      <4>3. QED
        BY <1>3, <4>1, <4>2 DEF Good
    <3>5. QED
      BY <3>1, <3>2, <3>3, <3>4 DEF Good
  <2>3. QED
    BY <2>1, <2>2
<1>5. QED
  BY <1>3, <1>4 DEF client, Rest

\* the streams of a request that runs change, and perhaps its pump
Shifted(p, q) ==
    /\ p.op = q.op /\ p.sides = q.sides /\ p.stage = q.stage /\ p.client = q.client
    /\ p.answer = q.answer /\ p.stopping = q.stopping /\ p.after = q.after
    /\ \A s \in Side \ q.sides : p.run[s] = "off"

LEMMA ShiftedIsEnding ==
    ASSUME NEW q \in Records, NEW p, Good(q, kind), q.stage = "running", Shifted(p, q),
           q.op \in Piped => p.run["destination"] # "running",
           Held(p, kind), Released(p, kind)
    PROVE  Ending(p)
<1>1. Shaped(p)
  BY DEF Good, Shaped, Shifted, Unfinished
<1>2. p.after = 0 /\ NoEof(p) /\ p.stage \in Unfinished
  BY DEF Good, Stopped, NoEof, Bounded, Shifted, Unfinished
<1>3. QED
  BY <1>1, <1>2 DEF Ending, Shifted

LEMMA ShiftedIsGood ==
    ASSUME NEW q \in Records, NEW p, Good(q, kind), q.stage \in {"running", "over"}, Shifted(p, q),
           Held(p, kind), Sound(p),
           q.op \in Piped /\ q.stage = "over" => p.run["destination"] # "running",
           q.stage = "over" => Released(p, kind),
           q.client = "done" => CleanEnd(p)
    PROVE  Good(p, kind)
<1>1. Shaped(p)
  BY DEF Good, Shaped, Shifted, Unfinished
<1>2. Stopped(p) /\ NoEof(p)
  BY DEF Good, Stopped, NoEof, Bounded, Shifted
<1>3. QED
  BY <1>1, <1>2 DEF Good, Shifted

LEMMA SourceStopsMoves ==
    ASSUME Inv, NEW r \in Request, NEW how \in {"done", "crashed"}, SourceStops(r, how)
    PROVE  Moved(r)
<1>1. PICK q : q = req[r]
  OBVIOUS
<1> DEFINE run  == [q.run EXCEPT !["source"] = how]
           pump == IF q.pump = "open" THEN "closed" ELSE q.pump
           p    == [q EXCEPT !.run = run, !.pump = pump]
           both == [run EXCEPT !["destination"] = "crashed"]
           t    == [p EXCEPT !.run = both]
<1>2. q \in Records /\ Good(q, kind) /\ q.op \in Piped /\ q.run["source"] = "running"
  BY <1>1, RequestIs DEF SourceStops
<1>3. \/ q.run["destination"] = "running" /\ Become(r, Throws(t))
      \/ Become(r, p)
  BY <1>1 DEF SourceStops
<1>4. q.run \in Runs /\ q.pump \in Pumps /\ how \in Ways /\ "crashed" \in Ways
      /\ Side = {"source", "destination"}
  BY <1>2, FieldsAre DEF Ways, Side
<1>5. /\ run \in Runs /\ run["source"] = how /\ run["destination"] = q.run["destination"]
      /\ both \in Runs /\ both["source"] = how /\ both["destination"] = "crashed"
      /\ pump \in Pumps
  BY <1>4 DEF Runs, Pumps
<1> HIDE DEF run, both, pump
<1>6. /\ p \in Records /\ p.run = run /\ p.pump = pump /\ p.fresh = q.fresh /\ p.op = q.op
      /\ p.sides = q.sides /\ p.stage = q.stage /\ p.client = q.client /\ p.answer = q.answer
      /\ p.stopping = q.stopping /\ p.after = q.after
  BY <1>2, <1>5 DEF Records
<1> HIDE DEF p
<1>7. /\ t \in Records /\ t.run = both /\ t.fresh = q.fresh /\ t.op = q.op
      /\ t.sides = q.sides /\ t.stage = q.stage /\ t.client = q.client /\ t.answer = q.answer
      /\ t.stopping = q.stopping /\ t.after = q.after
  BY <1>5, <1>6 DEF Records
<1> HIDE DEF t
<1>8. q.sides = Side /\ q.stage \in {"running", "over"} /\ how # "running"
  <2>1. q.sides = Side
    BY <1>2 DEF Good, Shaped
  <2>2. QED
    BY <1>2, <1>4, <2>1, BegunIs
<1>9. Shifted(p, q) /\ Shifted(t, q)
  BY <1>6, <1>7, <1>8 DEF Shifted
<1>10. \A s \in Side : kind[s] = "subprocess" /\ Bounded(q) => q.run[s] \notin {"closing", "garbled"}
  BY <1>2 DEF Good, Held
<1>11. Held(p, kind) /\ Held(t, kind)
  <2>1. how \notin {"running", "closing", "garbled"}
    OBVIOUS
  <2>2. Held(p, kind)
    BY <1>4, <1>5, <1>6, <1>10, <2>1 DEF Held, Bounded
  <2>3. Held(t, kind)
    BY <1>4, <1>5, <1>7, <1>10, <2>1 DEF Held, Bounded
  <2>4. QED
    BY <2>2, <2>3
<1>12. Released(p, kind) /\ Released(t, kind)
  BY <1>5, <1>6, <1>7, <1>8 DEF Released
<1>13. CASE q.run["destination"] = "running" /\ Become(r, Throws(t))
  <2>1. q.stage = "running"
    BY <1>2, <1>8, <1>13 DEF Good, Stopped
  <2>2. Ending(t)
    BY <1>2, <1>5, <1>7, <1>9, <1>11, <1>12, <2>1, ShiftedIsEnding
  <2>3. QED
    BY <1>1, <1>7, <1>13, <2>2, ThrowsMoves
<1>14. CASE Become(r, p)
  <2>1. Speaks(p) = {"destination"} /\ Speaks(q) = {"destination"}
    BY <1>2, <1>6 DEF Speaks
  <2>2. Sound(p)
    BY <1>2, <1>5, <1>6, <2>1 DEF Good, Sound, Quit
  <2>3. q.client = "done" => CleanEnd(p)
    <3>1. q.client = "done" => CleanEnd(q)
      BY <1>2 DEF Good
    <3>2. QED
      BY <1>5, <1>6, <2>1, <3>1 DEF CleanEnd, Bounded, Told
  <2>4. q.stage = "over" => p.run["destination"] # "running"
    BY <1>2, <1>5, <1>6 DEF Good, Stopped
  <2>5. Good(p, kind)
    BY <1>2, <1>8, <1>9, <1>11, <1>12, <2>2, <2>3, <2>4, ShiftedIsGood
  <2>6. QED
    BY <1>1, <1>6, <1>14, <2>5, StaysMoves
<1>15. QED
  BY <1>3, <1>13, <1>14

(* A request that runs, with other runs.                                    *)
LEMMA WithRun ==
    ASSUME NEW q \in Records, NEW run \in Runs, NEW p, p = [q EXCEPT !.run = run]
    PROVE  /\ p \in Records /\ p.run = run /\ p.pump = q.pump /\ p.fresh = q.fresh /\ p.op = q.op
           /\ p.sides = q.sides /\ p.stage = q.stage /\ p.client = q.client /\ p.answer = q.answer
           /\ p.stopping = q.stopping /\ p.after = q.after /\ p.soft = q.soft
  BY DEF Records

LEMMA SpeaksAre ==
    ASSUME NEW q \in Records, Good(q, kind), q.stage # "idle"
    PROVE  /\ Speaks(q) \subseteq q.sides /\ q.sides \subseteq Side
           /\ q.op \in Piped => Speaks(q) = {"destination"}
           /\ q.op \notin Piped => Speaks(q) = q.sides
           /\ q.op = "read" => Speaks(q) = {"source"}
<1>1. q.sides \subseteq Side
  BY FieldsAre DEF Sides
<1>2. (q.op \in Piped => q.sides = Side) /\ (q.op = "read" => q.sides = {"source"})
  BY DEF Good, Shaped
<1>3. "read" \notin Piped /\ "destination" \in Side
  BY DEF Piped, Side
<1>4. QED
  BY <1>1, <1>2, <1>3 DEF Speaks

LEMMA StreamEndsMoves ==
    ASSUME Inv, NEW r \in Request, NEW s \in Side, StreamEnds(r, s)
    PROVE  Moved(r)
<1>1. PICK q : q = req[r]
  OBVIOUS
<1> DEFINE run == [q.run EXCEPT ![s] = "done"]
           eof == IF q.soft THEN "eof_more" ELSE "eof"
<1>a. PICK p : p = [q EXCEPT !.run = run]
  OBVIOUS
<1>2. /\ q \in Records /\ Good(q, kind) /\ q.stage = "running" /\ s \in Speaks(q) /\ q.run[s] = "running"
      /\ q.op \in Piped => q.run["source"] # "running"
  BY <1>1, RequestIs DEF StreamEnds, Alive, InputEnded
<1>3. /\ (\E t \in Speaks(q) : p.run[t] = "running") => Become(r, p)
      /\ (\A t \in Speaks(q) : p.run[t] # "running") => Become(r, Ends(p, eof))
  BY <1>1, <1>a DEF StreamEnds
<1>4. q.run \in Runs /\ Side = {"source", "destination"} /\ "done" \in Ways
  BY <1>2, FieldsAre DEF Ways, Side
<1>5. run \in Runs /\ \A t \in Side : run[t] = IF t = s THEN "done" ELSE q.run[t]
  BY <1>4 DEF Runs
<1>6. eof \in Eof
  BY MessagesAre
<1> HIDE DEF run, eof
<1>7. /\ p \in Records /\ p.run = run /\ p.pump = q.pump /\ p.fresh = q.fresh /\ p.op = q.op
      /\ p.sides = q.sides /\ p.stage = q.stage /\ p.client = q.client /\ p.answer = q.answer
      /\ p.stopping = q.stopping /\ p.after = q.after
  BY <1>2, <1>5, <1>a, WithRun
<1> HIDE <1>a
<1>8. Speaks(q) \subseteq q.sides /\ q.sides \subseteq Side /\ Speaks(p) = Speaks(q)
      /\ (q.op \in Piped => Speaks(q) = {"destination"}) /\ (q.op = "read" => Speaks(q) = {"source"})
  BY <1>2, <1>7, SpeaksAre DEF Speaks
<1>9. Shifted(p, q)
  BY <1>2, <1>5, <1>7, <1>8 DEF Shifted, Good, Shaped
<1>10. Held(p, kind)
  BY <1>2, <1>4, <1>5, <1>7 DEF Held, Good, Bounded
<1>11. CASE \E t \in Speaks(q) : p.run[t] = "running"
  <2>1. q.op \notin Piped
    BY <1>2, <1>5, <1>7, <1>8, <1>11
  <2>2. Sound(p)
    BY <1>2, <1>5, <1>7, <1>8, <1>11 DEF Sound, Good, Quit
  <2>3. q.client # "done"
    BY <1>2 DEF Good
  <2>4. Good(p, kind)
    BY <1>2, <1>9, <1>10, <2>1, <2>2, <2>3, ShiftedIsGood
  <2>5. QED
    BY <1>1, <1>3, <1>7, <1>11, <2>4, StaysMoves
<1>12. CASE \A t \in Speaks(q) : p.run[t] # "running"
  <2>1. q.op \in Piped => p.run["destination"] # "running"
    BY <1>8, <1>12
  <2>2. Released(p, kind)
    <3>1. q.op = "read" => p.run["source"] # "running"
      BY <1>8, <1>12
    <3>2. q.op = "sync" => p.run["source"] # "running"
      BY <1>2, <1>4, <1>5, <1>7 DEF Piped
    <3>3. QED
      BY <1>7, <3>1, <3>2 DEF Released
  <2>3. Ending(p)
    BY <1>2, <1>9, <1>10, <2>1, <2>2, ShiftedIsEnding
  <2>4. \A t \in Speaks(p) :
           p.run[t] \in IF p.op = "setup" THEN {"done", "closing", "killed"} ELSE {"done"}
    BY <1>2, <1>5, <1>7, <1>8, <1>12 DEF Good, Sound, Quit
  <2>5. QED
    BY <1>1, <1>3, <1>6, <1>7, <1>12, <2>3, <2>4, EndsMoves
<1>13. QED
  BY <1>11, <1>12

LEMMA StreamFailsMoves ==
    ASSUME Inv, NEW r \in Request, NEW s \in Side, StreamFails(r, s)
    PROVE  Moved(r)
<1>1. PICK q : q = req[r]
  OBVIOUS
<1> DEFINE run == [ClosedAtYield(q) EXCEPT ![s] = "crashed"]
<1>a. PICK p : p = [q EXCEPT !.run = run]
  OBVIOUS
<1>2. q \in Records /\ Good(q, kind) /\ q.stage = "running" /\ s \in Speaks(q) /\ q.run[s] = "running"
  BY <1>1, RequestIs DEF StreamFails, Alive
<1>3. Become(r, Throws(p))
  <2>1. q.op \in Piped => q.op \notin Merged
    BY DEF Piped, Merged
  <2>2. q.op \in Piped => ClosedAtYield(q) = Returned(q, Chain)
    BY <2>1 DEF ClosedAtYield
  <2>3. CASE q.op \in Piped
    BY <1>1, <1>a, <2>2, <2>3 DEF StreamFails
  <2>4. CASE q.op \notin Piped
    BY <1>1, <1>a, <2>4 DEF StreamFails
  <2>5. QED
    BY <2>3, <2>4
<1>4. ClosedAtYield(q) \in Runs /\ "crashed" \in Ways /\ Side = {"source", "destination"}
  BY <1>2, ClosedIs DEF Ways, Side
<1>5. run \in Runs /\ \A t \in Side : run[t] = IF t = s THEN "crashed" ELSE ClosedAtYield(q)[t]
  BY <1>4 DEF Runs
<1> HIDE DEF run
<1>6. /\ p \in Records /\ p.run = run /\ p.pump = q.pump /\ p.fresh = q.fresh /\ p.op = q.op
      /\ p.sides = q.sides /\ p.stage = q.stage /\ p.client = q.client /\ p.answer = q.answer
      /\ p.stopping = q.stopping /\ p.after = q.after
  BY <1>2, <1>5, <1>a, WithRun
<1> HIDE <1>a
<1>7. Speaks(q) \subseteq q.sides /\ q.sides \subseteq Side
      /\ (q.op \in Piped => s = "destination") /\ (q.op = "read" => s = "source")
  BY <1>2, SpeaksAre
<1>8. /\ \A t \in Side : \/ p.run[t] = q.run[t] \/ p.run[t] = "crashed"
                         \/ q.run[t] = "running" /\ p.run[t] = "killed"
                         \/ q.run[t] = "running" /\ p.run[t] = "closing" /\ q.op \in Merged
      /\ q.op \in Piped /\ kind["destination"] = "inprocess" => p.run["source"] # "running"
      /\ \A t \in Side : p.run[t] = "running" => q.run[t] = "running"
      /\ p.run[s] = "crashed"
  BY <1>2, <1>4, <1>5, <1>6, <1>7, ClosedIs
<1>9. Shifted(p, q)
  <2>1. \A t \in Side \ q.sides : t # s /\ q.run[t] = "off"
    BY <1>2, <1>7 DEF Good, Shaped
  <2>2. \A t \in Side \ q.sides : ClosedAtYield(q)[t] = "off"
    BY <1>2, <2>1, ClosedIs
  <2>3. QED
    BY <1>5, <1>6, <2>1, <2>2 DEF Shifted
<1>10. Held(p, kind)
  <2>1. Bounded(q) => q.op \notin Merged
    BY DEF Bounded, Merged
  <2>2. QED
    BY <1>2, <1>4, <1>6, <1>8, <2>1 DEF Good, Held, Bounded
<1>11. Released(p, kind)
  BY <1>6, <1>7, <1>8 DEF Released, Piped
<1>12. Ending(p)
  BY <1>2, <1>7, <1>8, <1>9, <1>10, <1>11, ShiftedIsEnding
<1>13. QED
  BY <1>1, <1>3, <1>6, <1>12, ThrowsMoves

LEMMA GarbageMoves ==
    ASSUME Inv, NEW r \in Request, NEW s \in Side, Garbage(r, s)
    PROVE  Moved(r)
<1>1. PICK q : q = req[r]
  OBVIOUS
<1> DEFINE left == IF Bounded(q) THEN "killed" ELSE "garbled"
           rest == IF q.op \in Merged THEN ClosedAtYield(q) ELSE q.run
           run  == [rest EXCEPT ![s] = left]
<1>a. PICK p : p = [q EXCEPT !.run = run]
  OBVIOUS
<1>2. q \in Records /\ Good(q, kind) /\ q.stage = "running" /\ s \in Speaks(q) /\ q.run[s] = "running"
      /\ kind[s] = "subprocess"
  BY <1>1, RequestIs DEF Garbage, Alive
<1>3. Become(r, Throws(p))
  <2>1. CASE q.op \in Merged
    BY <1>1, <1>a, <2>1 DEF Garbage
  <2>2. CASE q.op \notin Merged
    BY <1>1, <1>a, <2>2 DEF Garbage
  <2>3. QED
    BY <2>1, <2>2
<1>4. rest \in Runs /\ left \in Ways /\ left # "running" /\ (Bounded(q) => left = "killed")
      /\ Side = {"source", "destination"}
  BY <1>2, ClosedIs, FieldsAre DEF Ways, Side
<1>5. \A t \in Side : rest[t] = q.run[t] \/ (q.op \in Merged /\ q.run[t] = "running")
  BY <1>2, ClosedIs
<1> HIDE DEF rest, left
<1>6. run \in Runs /\ \A t \in Side : run[t] = IF t = s THEN left ELSE rest[t]
  BY <1>4 DEF Runs
<1> HIDE DEF run
<1>7. /\ p \in Records /\ p.run = run /\ p.pump = q.pump /\ p.fresh = q.fresh /\ p.op = q.op
      /\ p.sides = q.sides /\ p.stage = q.stage /\ p.client = q.client /\ p.answer = q.answer
      /\ p.stopping = q.stopping /\ p.after = q.after
  BY <1>2, <1>6, <1>a, WithRun
<1> HIDE <1>a
<1>8. Speaks(q) \subseteq q.sides /\ q.sides \subseteq Side
      /\ (q.op \in Piped => s = "destination") /\ (q.op = "read" => s = "source")
  BY <1>2, SpeaksAre
<1>9. Shifted(p, q)
  <2>1. \A t \in Side \ q.sides : t # s /\ q.run[t] = "off"
    BY <1>2, <1>8 DEF Good, Shaped
  <2>2. QED
    BY <1>5, <1>6, <1>7, <2>1 DEF Shifted
<1>10. Held(p, kind)
  <2>1. Bounded(q) => q.op \notin Merged
    BY DEF Bounded, Merged
  <2>2. q.op \in Piped => q.op \notin Merged
    BY DEF Piped, Merged
  <2>3. QED
    BY <1>2, <1>4, <1>5, <1>6, <1>7, <2>1, <2>2 DEF Good, Held, Bounded
<1>11. Released(p, kind)
  BY <1>2, <1>4, <1>6, <1>7, <1>8 DEF Released, Piped
<1>12. Ending(p)
  BY <1>2, <1>4, <1>6, <1>7, <1>8, <1>9, <1>10, <1>11, ShiftedIsEnding
<1>13. QED
  BY <1>1, <1>3, <1>7, <1>12, ThrowsMoves

LEMMA PendingIs ==
    ASSUME Inv, NEW q \in Records, NEW S \in SUBSET Side
    PROVE  /\ Pending(q, S) \in Runs
           /\ \A s \in Side : IF s \in S /\ q.run[s] = "running"
                              THEN \/ kind[s] = "subprocess" /\ Pending(q, S)[s] = "killed"
                                   \/ kind[s] = "inprocess" /\ Pending(q, S)[s] = "closing"
                              ELSE Pending(q, S)[s] = q.run[s]
<1>1. q.run \in [Side -> Ways] /\ "closing" \in Ways /\ "killed" \in Ways
  BY FieldsAre DEF Runs, Ways
<1>2. QED
  BY <1>1, KindIs DEF Pending, Runs

LEMMA HardLimitMoves ==
    ASSUME Inv, NEW r \in Request, HardLimit(r)
    PROVE  Moved(r)
<1>1. PICK q : q = req[r]
  OBVIOUS
<1> DEFINE run == Pending(q, Speaks(q))
<1>a. PICK p : p = [q EXCEPT !.run = run]
  OBVIOUS
<1>2. q \in Records /\ Good(q, kind) /\ q.stage = "running" /\ Bounded(q) /\ Become(r, Ends(p, "eof_more"))
  BY <1>1, <1>a, RequestIs DEF HardLimit, Alive
<1>3. Speaks(q) \subseteq q.sides /\ q.sides \subseteq Side
      /\ (q.op \in Piped => Speaks(q) = {"destination"}) /\ (q.op = "read" => Speaks(q) = {"source"})
  BY <1>2, SpeaksAre
<1>4. run \in Runs /\ \A s \in Side : IF s \in Speaks(q) /\ q.run[s] = "running"
                                      THEN \/ kind[s] = "subprocess" /\ run[s] = "killed"
                                           \/ kind[s] = "inprocess" /\ run[s] = "closing"
                                      ELSE run[s] = q.run[s]
  BY <1>2, <1>3, PendingIs
<1>5. /\ p \in Records /\ p.run = run /\ p.pump = q.pump /\ p.fresh = q.fresh /\ p.op = q.op
      /\ p.sides = q.sides /\ p.stage = q.stage /\ p.client = q.client /\ p.answer = q.answer
      /\ p.stopping = q.stopping /\ p.after = q.after
  BY <1>2, <1>4, <1>a, WithRun
<1> HIDE DEF run
<1> HIDE <1>a
<1>6. Shifted(p, q)
  BY <1>2, <1>3, <1>4, <1>5 DEF Good, Shaped, Shifted
<1>7. \A s \in Speaks(q) : q.run[s] = "running" \/ q.run[s] = "done"
  BY <1>2 DEF Good, Sound, Quit, Bounded
<1>8. \E s \in Speaks(q) : q.run[s] = "running"
  BY <1>2 DEF Good, Sound
<1>9. Side = {"source", "destination"}
  BY DEF Side
<1>10. q.op \in Piped => p.run["destination"] # "running"
  BY <1>3, <1>4, <1>5, <1>9
<1>11. Held(p, kind)
  BY <1>2, <1>4, <1>5, <1>9 DEF Good, Held
<1>12. Released(p, kind)
  BY <1>3, <1>4, <1>5, <1>8, <1>9 DEF Released, Piped
<1>13. Ending(p)
  BY <1>2, <1>6, <1>10, <1>11, <1>12, ShiftedIsEnding
<1>14. Bounded(p) /\ "eof_more" # "eof" /\ "eof_more" \in Eof
  BY <1>2, <1>5 DEF Bounded, Eof
<1>15. QED
  BY <1>1, <1>2, <1>5, <1>13, <1>14, EndsMoves

LEMMA SoftLimitMoves ==
    ASSUME Inv, NEW r \in Request, SoftLimit(r)
    PROVE  Moved(r)
<1>1. PICK q : q = req[r]
  OBVIOUS
<1> DEFINE run  == Pending(q, {"source"})
           pump == IF q.pump = "open" THEN "closed" ELSE q.pump
<1>a. PICK p : p = [q EXCEPT !.soft = TRUE, !.run = run, !.pump = pump]
  OBVIOUS
<1>2. q \in Records /\ Good(q, kind) /\ q.stage = "running" /\ q.op = "sync"
      /\ q.run["source"] = "running" /\ Become(r, p)
  BY <1>1, <1>a, RequestIs DEF SoftLimit, Alive
<1>3. Side = {"source", "destination"} /\ pump \in Pumps
  BY <1>2, FieldsAre DEF Side, Pumps
<1>4. run \in Runs /\ \A s \in Side : IF s \in {"source"} /\ q.run[s] = "running"
                                      THEN \/ kind[s] = "subprocess" /\ run[s] = "killed"
                                           \/ kind[s] = "inprocess" /\ run[s] = "closing"
                                      ELSE run[s] = q.run[s]
  BY <1>2, <1>3, PendingIs
<1> HIDE DEF run, pump
<1>5. /\ p \in Records /\ p.run = run /\ p.pump = pump /\ p.fresh = q.fresh /\ p.op = q.op
      /\ p.sides = q.sides /\ p.stage = q.stage /\ p.client = q.client /\ p.answer = q.answer
      /\ p.stopping = q.stopping /\ p.after = q.after
  BY <1>2, <1>3, <1>4, <1>a DEF Records
<1> HIDE <1>a
<1>6. q.sides = Side /\ q.op \in Piped
  BY <1>2 DEF Good, Shaped, Piped
<1>7. Shifted(p, q)
  BY <1>5, <1>6 DEF Shifted
<1>8. p.run["destination"] = q.run["destination"] /\ p.run["source"] # "running"
      /\ (kind["source"] = "subprocess" => p.run["source"] = "killed")
  BY <1>2, <1>3, <1>4, <1>5
<1>9. Held(p, kind)
  BY <1>2, <1>3, <1>5, <1>8 DEF Good, Held, Bounded
<1>10. Sound(p)
  BY <1>2, <1>5, <1>6, <1>8 DEF Good, Sound, Speaks, Quit
<1>11. q.client # "done"
  BY <1>2 DEF Good
<1>12. Good(p, kind)
  BY <1>2, <1>7, <1>9, <1>10, <1>11, ShiftedIsGood
<1>13. QED
  BY <1>1, <1>2, <1>5, <1>12, StaysMoves

LEMMA SetupLimitMoves ==
    ASSUME Inv, NEW r \in Request, NEW s \in Side, SetupLimit(r, s)
    PROVE  Moved(r)
<1>1. PICK q : q = req[r]
  OBVIOUS
<1> DEFINE run == [q.run EXCEPT ![s] = "closing"]
<1>a. PICK p : p = [q EXCEPT !.run = run]
  OBVIOUS
<1>2. q \in Records /\ Good(q, kind) /\ q.stage = "running" /\ q.op = "setup" /\ q.run[s] = "running"
  BY <1>1, RequestIs DEF SetupLimit, Alive
<1>3. /\ (\E t \in q.sides : p.run[t] = "running") => Become(r, p)
      /\ (\A t \in q.sides : p.run[t] # "running") => Become(r, Ends(p, "eof"))
  BY <1>1, <1>a DEF SetupLimit
<1>4. q.run \in [Side -> Ways] /\ "closing" \in Ways
  BY <1>2, FieldsAre DEF Runs, Ways
<1>5. run \in Runs /\ \A t \in Side : run[t] = IF t = s THEN "closing" ELSE q.run[t]
  BY <1>4 DEF Runs
<1> HIDE DEF run
<1>6. /\ p \in Records /\ p.run = run /\ p.pump = q.pump /\ p.fresh = q.fresh /\ p.op = q.op
      /\ p.sides = q.sides /\ p.stage = q.stage /\ p.client = q.client /\ p.answer = q.answer
      /\ p.stopping = q.stopping /\ p.after = q.after
  BY <1>2, <1>5, <1>a, WithRun
<1> HIDE <1>a
<1>7. ~ Bounded(q) /\ ~ Bounded(p) /\ q.op \notin Piped /\ q.op # "sync" /\ q.op # "read"
  BY <1>2, <1>6 DEF Bounded, Piped
<1>8. q.sides \subseteq Side /\ Speaks(q) = q.sides /\ Speaks(p) = q.sides
  BY <1>2, <1>6, <1>7, SpeaksAre DEF Speaks
<1>9. s \in q.sides
  BY <1>2 DEF Good, Shaped
<1>10. Shifted(p, q)
  BY <1>2, <1>5, <1>6, <1>9 DEF Good, Shaped, Shifted
<1>11. Held(p, kind) /\ Released(p, kind)
  BY <1>6, <1>7 DEF Held, Released
<1>12. CASE \E t \in q.sides : p.run[t] = "running"
  <2>1. Sound(p)
    BY <1>2, <1>5, <1>6, <1>8, <1>12 DEF Good, Sound, Quit
  <2>2. q.client # "done"
    BY <1>2 DEF Good
  <2>3. Good(p, kind)
    BY <1>2, <1>7, <1>10, <1>11, <2>1, <2>2, ShiftedIsGood
  <2>4. QED
    BY <1>1, <1>3, <1>6, <1>12, <2>3, StaysMoves
<1>13. CASE \A t \in q.sides : p.run[t] # "running"
  <2>1. Ending(p)
    BY <1>2, <1>7, <1>10, <1>11, ShiftedIsEnding
  <2>2. \A t \in Speaks(p) :
           p.run[t] \in IF p.op = "setup" THEN {"done", "closing", "killed"} ELSE {"done"}
    BY <1>2, <1>5, <1>6, <1>8, <1>13 DEF Good, Sound, Quit
  <2>3. "eof" \in Eof
    BY DEF Eof
  <2>4. QED
    BY <1>1, <1>3, <1>6, <1>13, <2>1, <2>2, <2>3, EndsMoves
<1>14. QED
  BY <1>12, <1>13

LEMMA LeaveMoves ==
    ASSUME Inv, NEW r \in Request, Leave(r)
    PROVE  Moved(r)
<1>1. PICK q : q = req[r]
  OBVIOUS
<1>2. q \in Records /\ Good(q, kind) /\ q.client = "reading"
  BY <1>1, RequestIs DEF Leave
<1>3. PICK noticed \in BOOLEAN : Become(r, [q EXCEPT !.client = "left", !.stopping = noticed])
  BY <1>1 DEF Leave
<1>4. PICK p : p = [q EXCEPT !.client = "left", !.stopping = noticed]
  OBVIOUS
<1>5. "left" \in Clients
  BY DEF Clients
<1>6. /\ p \in Records /\ p.run = q.run /\ p.pump = q.pump /\ p.fresh = q.fresh /\ p.op = q.op
      /\ p.sides = q.sides /\ p.stage = q.stage /\ p.client = "left" /\ p.answer = q.answer
      /\ p.stopping = noticed /\ p.after = q.after
  BY <1>2, <1>4, <1>5 DEF Records
<1>7. q.stage # "idle" /\ q.stage # "over"
  BY <1>2, IdleIs DEF Good, Shaped
<1>8. Shaped(p)
  BY <1>2, <1>6, <1>7 DEF Good, Shaped, Unfinished
<1>9. Stopped(p) /\ Sound(p) /\ NoEof(p)
  BY <1>2, <1>6 DEF Good, Stopped, Sound, Speaks, Quit, NoEof
<1>10. Held(p, kind)
  BY <1>2, <1>6 DEF Good, Held, Bounded
<1>11. Good(p, kind)
  BY <1>6, <1>7, <1>8, <1>9, <1>10 DEF Good
<1>12. QED
  BY <1>1, <1>3, <1>4, <1>6, <1>11, StaysMoves

LEMMA ClosingEndsMoves ==
    ASSUME Inv, NEW r \in Request, NEW s \in Side, ClosingEnds(r, s)
    PROVE  Moved(r)
<1>1. PICK q : q = req[r]
  OBVIOUS
<1> DEFINE ends == [q.run EXCEPT ![s] = "killed"]
           run  == IF q.op \in Piped /\ s = "destination" /\ ends["source"] \in {"running", "closing"}
                   THEN [ends EXCEPT !["source"] = "killed"] ELSE ends
<1>a. PICK p : p = [q EXCEPT !.run = run]
  OBVIOUS
<1>2. q \in Records /\ Good(q, kind) /\ q.run[s] = "closing"
  BY <1>1, RequestIs DEF ClosingEnds
<1>3. q.run \in [Side -> Ways] /\ "killed" \in Ways /\ Side = {"source", "destination"}
  BY <1>2, FieldsAre DEF Runs, Ways, Side
<1>4. Become(r, p)
  <2>1. [[q EXCEPT !.run[s] = "killed"] EXCEPT
            !.run["source"] = IF @ \in {"running", "closing"} THEN "killed" ELSE @]
          = [q EXCEPT !.run = IF ends["source"] \in {"running", "closing"}
                              THEN [ends EXCEPT !["source"] = "killed"] ELSE ends]
    BY <1>2, <1>3 DEF Records
  <2>2. CASE q.op \in Piped /\ s = "destination"
    BY <1>1, <1>a, <2>1, <2>2 DEF ClosingEnds
  <2>3. CASE ~ (q.op \in Piped /\ s = "destination")
    BY <1>1, <1>a, <2>3 DEF ClosingEnds
  <2>4. QED
    BY <2>2, <2>3
<1>5. /\ run \in Runs /\ run[s] = "killed"
      /\ \A t \in Side : \/ run[t] = q.run[t]
                         \/ /\ run[t] = "killed"
                            /\ \/ q.run[t] = "closing"
                               \/ t = "source" /\ s = "destination" /\ q.op \in Piped
      /\ q.op \in Piped /\ s = "destination" => run["source"] # "running"
  BY <1>2, <1>3 DEF Runs
<1> HIDE DEF run
<1>6. /\ p \in Records /\ p.run = run /\ p.pump = q.pump /\ p.fresh = q.fresh /\ p.op = q.op
      /\ p.sides = q.sides /\ p.stage = q.stage /\ p.client = q.client /\ p.answer = q.answer
      /\ p.stopping = q.stopping /\ p.after = q.after
  BY <1>2, <1>5, <1>a, WithRun
<1> HIDE <1>a
<1>7. q.stage \in {"running", "over"}
  BY <1>2, BegunIs
<1>8. Speaks(q) \subseteq Side /\ Speaks(p) = Speaks(q)
      /\ (q.op \in Piped => Speaks(q) = {"destination"})
  BY <1>2, <1>6, <1>7, SpeaksAre DEF Speaks
<1>9. Shifted(p, q)
  <2>1. (\A t \in Side \ q.sides : q.run[t] = "off") /\ (q.op \in Piped => q.sides = Side)
    BY <1>2 DEF Good, Shaped
  <2>2. QED
    BY <1>2, <1>5, <1>6, <2>1 DEF Shifted
<1>10. Held(p, kind)
  BY <1>2, <1>3, <1>5, <1>6 DEF Good, Held, Bounded
<1>11. \A t \in Speaks(q) : p.run[t] = q.run[t] \/ (q.run[t] = "closing" /\ p.run[t] = "killed")
  BY <1>5, <1>6, <1>8
<1>12. Sound(p)
  BY <1>2, <1>6, <1>8, <1>11 DEF Good, Sound, Quit
<1>13. q.op \in Piped /\ q.stage = "over" => p.run["destination"] # "running"
  BY <1>2, <1>3, <1>5, <1>6 DEF Good, Stopped
<1>14. q.stage = "over" => Released(p, kind)
  BY <1>2, <1>3, <1>5, <1>6 DEF Good, Released, Piped
<1>15. q.client = "done" => CleanEnd(p)
  <2>1. q.client = "done" => CleanEnd(q)
    BY <1>2 DEF Good
  <2>2. (\A t \in Speaks(q) :
            q.run[t] \in IF q.op = "setup" THEN {"done", "closing", "killed"} ELSE {"done"})
        => \A t \in Speaks(q) :
            p.run[t] \in IF q.op = "setup" THEN {"done", "closing", "killed"} ELSE {"done"}
    BY <1>11
  <2>3. QED
    BY <1>6, <1>8, <2>1, <2>2 DEF CleanEnd, Bounded, Told
<1>16. Good(p, kind)
  BY <1>2, <1>7, <1>9, <1>10, <1>12, <1>13, <1>14, <1>15, ShiftedIsGood
<1>17. QED
  BY <1>1, <1>4, <1>6, <1>16, StaysMoves

-----------------------------------------------------------------------------
(* The invariant holds.                                                     *)

LEMMA IdleIsGood ==
    Good(Idle, kind)
<1>1. Shaped(Idle)
  BY IdleIs DEF Shaped, Unfinished, Piped
<1>2. Stopped(Idle) /\ Sound(Idle) /\ NoEof(Idle)
  BY IdleIs DEF Stopped, Sound, NoEof
<1>3. Held(Idle, kind)
  BY IdleIs DEF Held, Side, Bounded
<1>4. QED
  BY <1>1, <1>2, <1>3, IdleIs DEF Good

LEMMA InitIsGood ==
    ASSUME Init
    PROVE  Inv
<1>1. Resolver
  BY DEF Init, Resolver
<1>2. Requests
  <2>1. req = [r \in Request |-> Idle]
    BY DEF Init
  <2>2. \A r \in Request : req[r] = Idle
    BY <2>1
  <2>3. Idle.fresh \subseteq cache
    BY IdleIs
  <2>4. QED
    BY <2>1, <2>2, <2>3, IdleIs, IdleIsGood DEF Requests
<1>3. QED
  BY <1>1, <1>2 DEF Inv

LEMMA RequestsKept ==
    ASSUME Inv, NEW r \in Request, kind' = kind, cache \subseteq cache',
           req' = [req EXCEPT ![r] = req'[r]], req'[r] \in Records, Good(req'[r], kind),
           req'[r].fresh \subseteq cache'
    PROVE  Requests'
<1>1. req' \in [Request -> Records]
  BY DEF Inv, Requests
<1>2. ASSUME NEW x \in Request PROVE Good(req'[x], kind') /\ req'[x].fresh \subseteq cache'
  <2>1. CASE x = r
    BY <2>1
  <2>2. CASE x # r
    <3>1. req'[x] = req[x]
      BY <2>2 DEF Inv, Requests
    <3>2. QED
      BY <3>1 DEF Inv, Requests
  <2>3. QED
    BY <2>1, <2>2
<1>3. QED
  BY <1>1, <1>2 DEF Requests

LEMMA MovedIsKept ==
    ASSUME Inv, NEW r \in Request, Moved(r), UNCHANGED <<kind, cache>>
    PROVE  Requests'
<1>1. req'[r].fresh \subseteq cache'
  BY RequestIs DEF Moved
<1>2. QED
  BY <1>1, RequestsKept DEF Moved

LEMMA ResolverStays ==
    ASSUME Inv, UNCHANGED <<up, kind, found, cache, schemas, made>>
    PROVE  Resolver'
  BY DEF Inv, Resolver

LEMMA ResolverResolves ==
    ASSUME Inv, NEW r \in Request, Resolve(r)
    PROVE  Resolver'
<1> DEFINE N == New(req[r])
<1>1. N \subseteq found /\ N \cap cache = {} /\ N \subseteq Side
  BY DEF Inv, Resolver, New
<1>2. /\ cache' = cache \cup N /\ made' = [s \in Side |-> made[s] + IF s \in N THEN 1 ELSE 0]
      /\ UNCHANGED <<up, kind, found, schemas>>
  BY DEF Resolve
<1> HIDE DEF N
<1>3. made \in [Side -> Nat] /\ \A s \in Side : made[s] <= IF s \in cache THEN 1 ELSE 0
  BY DEF Inv, Resolver
<1>4. made' \in [Side -> Nat] /\ \A s \in Side : made'[s] <= IF s \in cache' THEN 1 ELSE 0
  BY <1>1, <1>2, <1>3
<1>5. QED
  BY <1>1, <1>2, <1>4 DEF Inv, Resolver

LEMMA StepKeepsInv ==
    ASSUME Inv, [Next]_vars
    PROVE  Inv'
<1>1. CASE UNCHANGED vars
  BY <1>1 DEF Inv, Resolver, Requests, vars
<1>2. ASSUME NEW r \in Request, Resolve(r) PROVE Inv'
  <2>1. kind' = kind /\ cache \subseteq cache'
    BY <1>2 DEF Resolve
  <2>2. Requests'
    BY <1>2, <2>1, ResolveMoves, RequestsKept
  <2>3. QED
    BY <1>2, <2>2, ResolverResolves DEF Inv
<1>3. ASSUME NEW r \in Request, NEW s \in Side, SpecOf(r, s) PROVE Inv'
  <2>1. UNCHANGED <<up, kind, found, cache, made>> /\ (schemas' = schemas \/ schemas' = schemas \cup {s})
        /\ s \in req[r].fresh
    BY <1>3 DEF SpecOf
  <2>2. s \in cache
    BY <2>1, RequestIs
  <2>3. Resolver'
    BY <2>1, <2>2 DEF Inv, Resolver
  <2>4. Requests'
    BY <1>3, <2>1, SpecOfMoves, MovedIsKept
  <2>5. QED
    BY <2>3, <2>4 DEF Inv
<1>4. ASSUME NEW r \in Request, PumpToTheDead(r) PROVE Inv'
  <2>1. UNCHANGED <<kind, found, cache, schemas, made>> /\ up' \in BOOLEAN
    BY <1>4 DEF PumpToTheDead, Inv, Resolver
  <2>2. Resolver'
    BY <2>1 DEF Inv, Resolver
  <2>3. CASE Moved(r)
    BY <2>1, <2>2, <2>3, MovedIsKept DEF Inv
  <2>4. CASE req' = [x \in Request |-> [req[x] EXCEPT !.client = IF @ = "reading" THEN "cut" ELSE @]]
    <3>1. ASSUME NEW x \in Request
          PROVE  req'[x] \in Records /\ Good(req'[x], kind') /\ req'[x].fresh \subseteq cache'
      <4>1. req[x] \in Records /\ Good(req[x], kind) /\ req[x].fresh \subseteq cache
        BY RequestIs
      <4>2. PICK p : p = [req[x] EXCEPT !.client = IF @ = "reading" THEN "cut" ELSE @]
        OBVIOUS
      <4>3. p \in Records /\ Good(p, kind) /\ p.fresh = req[x].fresh
        BY <4>1, <4>2, CutIsGood
      <4>4. req'[x] = p
        BY <2>4, <4>2
      <4>5. QED
        BY <2>1, <4>1, <4>3, <4>4
    <3>2. req' \in [Request -> Records]
      <4>1. req' = [x \in Request |-> req'[x]]
        BY <2>4
      <4>2. QED
        BY <3>1, <4>1
    <3>3. Requests'
      BY <3>1, <3>2 DEF Requests
    <3>4. QED
      BY <2>2, <3>3 DEF Inv
  <2>5. QED
    BY <1>4, <2>3, <2>4, PumpToTheDeadMoves
<1>5. ASSUME NEW r \in Request, Moved(r), UNCHANGED <<up, kind, found, cache, schemas, made>>
      PROVE  Inv'
  BY <1>5, MovedIsKept, ResolverStays DEF Inv
<1>6. ASSUME NEW r \in Request, Ask(r) PROVE Inv'
  <2>1. UNCHANGED <<up, kind, found, cache, schemas, made>>
    BY <1>6 DEF Ask
  <2>2. QED
    BY <1>5, <1>6, <2>1, AskMoves
<1>7. ASSUME NEW r \in Request, Refuse(r) PROVE Inv'
  <2>1. UNCHANGED <<up, kind, found, cache, schemas, made>>
    BY <1>7 DEF Refuse
  <2>2. QED
    BY <1>5, <1>7, <2>1, RefuseMoves
<1>8. ASSUME NEW r \in Request, Start(r) PROVE Inv'
  <2>1. UNCHANGED <<up, kind, found, cache, schemas, made>>
    BY <1>8 DEF Start
  <2>2. QED
    BY <1>5, <1>8, <2>1, StartMoves
<1>9. ASSUME NEW r \in Request, SourceGives(r) PROVE Inv'
  <2>1. UNCHANGED <<up, kind, found, cache, schemas, made>>
    BY <1>9 DEF SourceGives
  <2>2. QED
    BY <1>5, <1>9, <2>1, SourceGivesMoves
<1>10. ASSUME NEW r \in Request, NEW how \in {"done", "crashed"}, SourceStops(r, how) PROVE Inv'
  <2>1. UNCHANGED <<up, kind, found, cache, schemas, made>>
    BY <1>10 DEF SourceStops
  <2>2. QED
    BY <1>5, <1>10, <2>1, SourceStopsMoves
<1>11. ASSUME NEW r \in Request, HardLimit(r) PROVE Inv'
  <2>1. UNCHANGED <<up, kind, found, cache, schemas, made>>
    BY <1>11 DEF HardLimit
  <2>2. QED
    BY <1>5, <1>11, <2>1, HardLimitMoves
<1>12. ASSUME NEW r \in Request, SoftLimit(r) PROVE Inv'
  <2>1. UNCHANGED <<up, kind, found, cache, schemas, made>>
    BY <1>12 DEF SoftLimit
  <2>2. QED
    BY <1>5, <1>12, <2>1, SoftLimitMoves
<1>13. ASSUME NEW r \in Request, Leave(r) PROVE Inv'
  <2>1. UNCHANGED <<up, kind, found, cache, schemas, made>>
    BY <1>13 DEF Leave
  <2>2. QED
    BY <1>5, <1>13, <2>1, LeaveMoves
<1>14. ASSUME NEW r \in Request, NEW s \in Side, ConnectorSays(r, s) PROVE Inv'
  <2>1. UNCHANGED <<up, kind, found, cache, schemas, made>>
    BY <1>14 DEF ConnectorSays
  <2>2. QED
    BY <1>5, <1>14, <2>1, ConnectorSaysMoves
<1>15. ASSUME NEW r \in Request, NEW s \in Side, StreamEnds(r, s) PROVE Inv'
  <2>1. UNCHANGED <<up, kind, found, cache, schemas, made>>
    BY <1>15 DEF StreamEnds
  <2>2. QED
    BY <1>5, <1>15, <2>1, StreamEndsMoves
<1>16. ASSUME NEW r \in Request, NEW s \in Side, StreamFails(r, s) PROVE Inv'
  <2>1. UNCHANGED <<up, kind, found, cache, schemas, made>>
    BY <1>16 DEF StreamFails
  <2>2. QED
    BY <1>5, <1>16, <2>1, StreamFailsMoves
<1>17. ASSUME NEW r \in Request, NEW s \in Side, Garbage(r, s) PROVE Inv'
  <2>1. UNCHANGED <<up, kind, found, cache, schemas, made>>
    BY <1>17 DEF Garbage
  <2>2. QED
    BY <1>5, <1>17, <2>1, GarbageMoves
<1>18. ASSUME NEW r \in Request, NEW s \in Side, SetupLimit(r, s) PROVE Inv'
  <2>1. UNCHANGED <<up, kind, found, cache, schemas, made>>
    BY <1>18 DEF SetupLimit
  <2>2. QED
    BY <1>5, <1>18, <2>1, SetupLimitMoves
<1>19. ASSUME NEW r \in Request, NEW s \in Side, ClosingEnds(r, s) PROVE Inv'
  <2>1. UNCHANGED <<up, kind, found, cache, schemas, made>>
    BY <1>19 DEF ClosingEnds
  <2>2. QED
    BY <1>5, <1>19, <2>1, ClosingEndsMoves
<1>20. QED
  BY <1>1, <1>2, <1>3, <1>4, <1>6, <1>7, <1>8, <1>9, <1>10, <1>11, <1>12, <1>13, <1>14, <1>15,
     <1>16, <1>17, <1>18, <1>19 DEF Next

(* The invariant of the server and of every request: the resolver's cache,  *)
(* its connectors and its schemas agree, and each request is in a state its *)
(* route can leave it in.                                                   *)
THEOREM InvHolds == Spec => []Inv
<1>1. Init => Inv
  BY InitIsGood
<1>2. Inv /\ [Next]_vars => Inv'
  BY StepKeepsInv
<1>3. QED
  BY <1>1, <1>2, PTL DEF Spec

-----------------------------------------------------------------------------
(* What it gives.                                                           *)

(* Every variable keeps its type, and of the counters those of messages     *)
(* stay within their bound.                                                 *)
THEOREM WellTyped == Spec => []TypeOK
<1>1. Inv => TypeOK
  <2>1. ASSUME NEW q \in Records
        PROVE  /\ q.op \in Op \cup {"none"} /\ q.sides \subseteq Side /\ q.fresh \subseteq Side
               /\ q.stage \in {"idle", "asked", "resolving", "running", "over"}
               /\ q.run \in [Side -> {"off", "running", "closing", "done", "crashed", "garbled", "killed"}]
               /\ q.pump \in {"none", "open", "closed", "stuck"}
               /\ q.pulled \in 0 .. MaxItems /\ q.said \in [Side -> 0 .. MaxItems]
               /\ q.soft \in BOOLEAN /\ q.stopping \in BOOLEAN /\ q.after \in Nat
               /\ q.answer \in Seq(Message)
               /\ q.client \in {"none", "reading", "done", "refused", "left", "cut"}
    BY FieldsAre DEF Ops, Sides, Stages, Runs, Ways, Pumps, Counts, Tallies, Answers, Clients
  <2>2. ASSUME Requests, NEW r \in Request PROVE req[r] \in Records
    BY <2>2 DEF Requests
  <2>3. QED
    BY <2>1, <2>2 DEF Inv, Resolver, TypeOK
<1>2. QED
  BY <1>1, InvHolds, PTL

(* However many requests overlap, the resolver makes at most one connector  *)
(* of a role: it is in the cache before its spec is awaited.                *)
THEOREM ConnectorsAreMadeOnce == Spec => []OneConnector
<1>1. Inv => OneConnector
  BY DEF Inv, Resolver, OneConnector
<1>2. QED
  BY <1>1, InvHolds, PTL

(* Once the server has noticed that a client left, at most one message more *)
(* is made for it.                                                          *)
THEOREM DisconnectStopsTheEngine == Spec => []StopsAfterOne
<1>1. Inv => StopsAfterOne
  BY DEF Inv, Requests, Good, Stopped, StopsAfterOne
<1>2. QED
  BY <1>1, InvHolds, PTL

(* An answer that ended without an error says how its run ended: one eof,   *)
(* the last message but for the notice of a failure, and no failed stream   *)
(* that the answer hides.                                                   *)
THEOREM CleanAnswersAreTrue == Spec => []AnswersAreTrue
<1>1. Inv => AnswersAreTrue
  BY DEF Inv, Requests, Good, AnswersAreTrue
<1>2. QED
  BY <1>1, InvHolds, PTL

(* A sync or read that is over leaves no process behind that was not told   *)
(* to end, but a source a pump or a closing destination holds back.         *)
THEOREM NothingIsLeftRunning == Spec => []NoProcessLeft
<1>1. ASSUME Inv, NEW r \in Request, NEW s \in Side, Bounded(req[r]), req[r].stage = "over",
             kind[s] = "subprocess", req[r].run[s] \in {"running", "closing", "garbled"}
      PROVE  HeldBack(req[r], s)
  <2>1. PICK q : q = req[r]
    OBVIOUS
  <2>2. q \in Records /\ Good(q, kind) /\ Released(q, kind) /\ Held(q, kind) /\ Stopped(q) /\ Shaped(q)
    BY <1>1, <2>1, RequestIs DEF Good
  <2>3. q.run[s] = "running"
    BY <1>1, <2>1, <2>2 DEF Held
  <2>4. q.op # "read"
    <3>1. ASSUME q.op = "read" PROVE FALSE
      <4>1. q.run["source"] # "running" /\ q.run["destination"] = "off"
        BY <2>2, <3>1 DEF Released, Shaped, Side
      <4>2. QED
        BY <2>3, <4>1 DEF Side
    <3>2. QED
      BY <3>1
  <2>5. q.op = "sync" /\ q.op \in Piped
    BY <1>1, <2>1, <2>4 DEF Bounded, Piped
  <2>6. s = "source"
    BY <1>1, <2>1, <2>2, <2>3, <2>5 DEF Stopped, Side
  <2>7. kind["destination"] \in {"inprocess", "subprocess"}
    BY <1>1, KindIs DEF Side
  <2>8. QED
    BY <2>1, <2>2, <2>3, <2>5, <2>6, <2>7 DEF Held, Released, HeldBack
<1>2. Inv => NoProcessLeft
  BY <1>1 DEF NoProcessLeft
<1>3. QED
  BY <1>2, InvHolds, PTL

-----------------------------------------------------------------------------
(* Catalog: naturals, recursion and induction over ranks. The schemas of a  *)
(* document have one that is lower for what they refer to or consist of.    *)

(* A set of naturals has a least element.                                   *)
LEMMA Least ==
    ASSUME NEW T \in SUBSET Nat, T # {}
    PROVE  \E x \in T : \A y \in T : x <= y
<1> DEFINE R == OpToRel(<, Nat)
<1>1. IsWellFoundedOn(R, Nat)
  BY NatLessThanWellFounded
<1>2. \A x, y \in Nat : y < x => <<y, x>> \in R
  BY DEF OpToRel
<1> HIDE DEF R
<1>3. PICK x \in T : \A y \in T : <<y, x>> \notin R
  BY <1>1, WFMin
<1>4. \A y \in T : ~ (y < x)
  BY <1>2, <1>3
<1>5. x \in Nat /\ \A y \in T : y \in Nat
  OBVIOUS
<1>6. \A y \in T : x <= y
  BY <1>4, <1>5
<1>7. QED
  BY <1>6

LEMMA Before ==
    \A n \in Nat : n # 0 => n - 1 \in Nat /\ ~ (n <= n - 1) /\ (n - 1) + 1 = n
  OBVIOUS

Local(D, Val, rank, step) ==
    \A d \in D : \A f, g \in [D -> Val] :
        (\A e \in D : rank[e] < rank[d] => f[e] = g[e]) => step[<<d, f>>] = step[<<d, g>>]
IsSolution(D, step, h) == \A d \in D : h[d] = step[<<d, h>>]

(* A recursive definition whose steps look at lower ranks only has a        *)
(* function.                                                                *)
LEMMA Recursion ==
    ASSUME NEW D, NEW Val, NEW bound \in Nat, NEW rank \in [D -> 0 .. bound],
           NEW step \in [D \X [D -> Val] -> Val], [D -> Val] # {},
           Local(D, Val, rank, step)
    PROVE  \E h \in [D -> Val] : IsSolution(D, step, h)
<1> DEFINE Upto(n) == \E h \in [D -> Val] : \A d \in D : rank[d] < n => h[d] = step[<<d, h>>]
           Bad     == {n \in Nat : ~ Upto(n)}
<1>1. \A d \in D : rank[d] \in Nat /\ rank[d] < bound + 1
  OBVIOUS
<1>2. Upto(0)
  <2>1. PICK h \in [D -> Val] : TRUE
    OBVIOUS
  <2>2. \A d \in D : ~ (rank[d] < 0)
    BY <1>1
  <2>3. QED
    BY <2>1, <2>2
<1>3. ASSUME NEW n \in Nat, Upto(n)
      PROVE  Upto(n + 1)
  <2>1. PICK h \in [D -> Val] : \A d \in D : rank[d] < n => h[d] = step[<<d, h>>]
    BY <1>3
  <2> DEFINE k == [d \in D |-> step[<<d, h>>]]
  <2>2. k \in [D -> Val]
    OBVIOUS
  <2>3. ASSUME NEW d \in D, rank[d] < n + 1
        PROVE  k[d] = step[<<d, k>>]
    <3>1. ASSUME NEW e \in D, rank[e] < rank[d]
          PROVE  h[e] = k[e]
      <4>1. rank[e] < n
        BY <2>3, <3>1, <1>1
      <4>2. QED
        BY <2>1, <4>1
    <3>2. step[<<d, h>>] = step[<<d, k>>]
      BY <2>2, <3>1 DEF Local
    <3>3. QED
      BY <3>2
  <2>4. QED
    BY <2>2, <2>3
<1>4. \A n \in Nat : Upto(n)
  <2>1. SUFFICES ASSUME Bad # {} PROVE FALSE
    OBVIOUS
  <2> HIDE DEF Upto
  <2>2. PICK least \in Bad : \A y \in Bad : least <= y
    BY <2>1, Least
  <2>3. least \in Nat /\ ~ Upto(least) /\ least # 0
    BY <1>2
  <2>4. least - 1 \in Nat /\ ~ (least <= least - 1) /\ (least - 1) + 1 = least
    BY <2>3, Before, Zenon
  <2>5. least - 1 \notin Bad
    <3> HIDE DEF Bad
    <3>1. QED
      BY <2>2, <2>4
  <2>6. Upto((least - 1) + 1)
    BY <2>4, <2>5, <1>3
  <2>7. QED
    BY <2>3, <2>4, <2>6
<1>5. Upto(bound + 1)
  <2> HIDE DEF Upto
  <2>1. QED
    BY <1>4
<1>6. PICK h \in [D -> Val] : \A d \in D : rank[d] < bound + 1 => h[d] = step[<<d, h>>]
  BY <1>5
<1>7. QED
  BY <1>1, <1>6 DEF IsSolution

(* What holds of a thing when it holds of all of lower rank holds of all.   *)
LEMMA RankInduction ==
    ASSUME NEW D, NEW rank \in [D -> Nat], NEW S,
           \A d \in D : (\A e \in D : rank[e] < rank[d] => e \in S) => d \in S
    PROVE  D \subseteq S
<1> DEFINE Bad   == D \ S
           Ranks == {rank[d] : d \in Bad}
<1>1. SUFFICES ASSUME Bad # {} PROVE FALSE
  OBVIOUS
<1>2. Ranks \in SUBSET Nat /\ Ranks # {}
  BY <1>1
<1>3. PICK least \in Ranks : \A r \in Ranks : least <= r
  BY <1>2, Least
<1>4. PICK d \in Bad : rank[d] = least
  OBVIOUS
<1>5. ASSUME NEW e \in D, rank[e] < rank[d], e \notin S
      PROVE  FALSE
  <2>1. rank[e] \in Ranks /\ rank[e] \in Nat /\ least \in Nat
    BY <1>5, <1>2
  <2>2. least <= rank[e]
    BY <2>1, <1>3
  <2>3. QED
    BY <2>1, <2>2, <1>4, <1>5
<1>6. QED
  BY <1>4, <1>5

-----------------------------------------------------------------------------
(* Nodes and references.                                                    *)

Kinds == {"boolean", "integer", "number", "date", "string", "array", "object", "unknown"}

LEMMA KindsAre == DOMAIN OfKind = Kinds /\ DOMAIN ValuesOfKind = Kinds
  BY DEF OfKind, ValuesOfKind, Kinds

LEMMA ValuesOfKindAre ==
    /\ ValuesOfKind["boolean"] = {"true"} /\ ValuesOfKind["integer"] = {"1"}
    /\ ValuesOfKind["number"] = {"1", "1.5"} /\ ValuesOfKind["date"] = {"abc"}
    /\ ValuesOfKind["string"] = {"abc"} /\ ValuesOfKind["array"] = {"{}"}
    /\ ValuesOfKind["object"] = {"{}"} /\ ValuesOfKind["unknown"] = {"abc"}
  BY DEF ValuesOfKind

LEMMA OfKindAre ==
    /\ OfKind["boolean"] = "boolean" /\ OfKind["integer"] = "bigint"
    /\ OfKind["number"] = "numeric" /\ OfKind["date"] = "timestamptz"
    /\ OfKind["string"] = "text" /\ OfKind["array"] = "json"
    /\ OfKind["object"] = "json" /\ OfKind["unknown"] = "text"
  BY DEF OfKind

LEMMA NodesAre ==
    ASSUME NEW spec, NEW depth, WellFormed(spec, depth)
    PROVE  /\ IsFiniteSet(DOMAIN spec.nodes) /\ Cardinality(DOMAIN spec.nodes) \in Nat
           /\ spec.named \subseteq DOMAIN spec.nodes /\ spec.crud \subseteq DOMAIN spec.nodes
           /\ depth \in [DOMAIN spec.nodes -> 0 .. Cardinality(DOMAIN spec.nodes)]
           /\ \A n \in DOMAIN spec.nodes : depth[n] \in Nat
<1>1. IsFiniteSet(DOMAIN spec.nodes)
  BY DEF WellFormed
<1>2. Cardinality(DOMAIN spec.nodes) \in Nat
  BY <1>1, FS_CardinalityType
<1>3. depth \in [DOMAIN spec.nodes -> 0 .. Cardinality(DOMAIN spec.nodes)]
  BY DEF WellFormed
<1>4. spec.named \subseteq DOMAIN spec.nodes /\ spec.crud \subseteq DOMAIN spec.nodes
  BY DEF WellFormed
<1>5. \A n \in DOMAIN spec.nodes : depth[n] \in 0 .. Cardinality(DOMAIN spec.nodes)
  BY <1>3
<1>6. \A n \in DOMAIN spec.nodes : depth[n] \in Nat
  BY <1>2, <1>5
<1>7. QED
  BY <1>1, <1>2, <1>3, <1>4, <1>6

LEMMA NodeIs ==
    ASSUME NEW spec, NEW depth, WellFormed(spec, depth), NEW n \in DOMAIN spec.nodes
    PROVE  /\ spec.nodes[n].nullable \in BOOLEAN
           /\ spec.nodes[n].resource \in DOMAIN TableOf \cup {""}
           /\ spec.nodes[n].parts \subseteq DOMAIN spec.nodes
           /\ \A name \in DOMAIN spec.nodes[n].properties :
                  spec.nodes[n].properties[name] \in DOMAIN spec.nodes
           /\ spec.nodes[n].kind = "ref" =>
                  spec.nodes[n].ref \in DOMAIN spec.nodes /\ depth[spec.nodes[n].ref] < depth[n]
           /\ spec.nodes[n].kind = "composed" =>
                  \A p \in spec.nodes[n].parts : depth[p] < depth[n]
           /\ spec.nodes[n].kind \notin {"ref", "composed"} => spec.nodes[n].kind \in Kinds
<1>1. Range(spec.nodes[n].properties) \subseteq DOMAIN spec.nodes
  BY DEF WellFormed
<1>2. \A name \in DOMAIN spec.nodes[n].properties :
          spec.nodes[n].properties[name] \in DOMAIN spec.nodes
  BY <1>1 DEF Range
<1>3. /\ spec.nodes[n].nullable \in BOOLEAN
      /\ spec.nodes[n].resource \in DOMAIN TableOf \cup {""}
      /\ spec.nodes[n].parts \subseteq DOMAIN spec.nodes
  BY DEF WellFormed
<1>4. \/ /\ spec.nodes[n].kind = "ref" /\ spec.nodes[n].ref \in DOMAIN spec.nodes
         /\ depth[spec.nodes[n].ref] < depth[n]
      \/ /\ spec.nodes[n].kind = "composed"
         /\ \A p \in spec.nodes[n].parts : depth[p] < depth[n]
      \/ spec.nodes[n].kind \in Kinds
  BY KindsAre DEF WellFormed
<1>5. "ref" \notin Kinds /\ "composed" \notin Kinds
  BY DEF Kinds
<1>6. QED
  BY <1>2, <1>3, <1>4, <1>5

EndOf(spec) ==
    CHOOSE end : end = [m \in DOMAIN spec.nodes |->
                           IF spec.nodes[m].kind = "ref" THEN end[spec.nodes[m].ref] ELSE m]

LEMMA EndsAre ==
    ASSUME NEW spec, NEW depth, WellFormed(spec, depth)
    PROVE  EndOf(spec) = [m \in DOMAIN spec.nodes |->
               IF spec.nodes[m].kind = "ref" THEN EndOf(spec)[spec.nodes[m].ref] ELSE m]
<1> DEFINE D       == DOMAIN spec.nodes
           bound   == Cardinality(D)
           Of(m,f) == IF spec.nodes[m].kind = "ref" THEN f[spec.nodes[m].ref] ELSE m
           step    == [x \in D \X [D -> D] |-> Of(x[1], x[2])]
<1>1. bound \in Nat /\ depth \in [D -> 0 .. bound]
  BY NodesAre
<1>2. \A d \in D : spec.nodes[d].kind = "ref" => spec.nodes[d].ref \in D /\ depth[spec.nodes[d].ref] < depth[d]
  BY NodeIs
<1>3. ASSUME NEW d \in D, NEW f \in [D -> D]
      PROVE  Of(d, f) \in D /\ step[<<d, f>>] = Of(d, f)
  BY <1>2
<1>4. step \in [D \X [D -> D] -> D]
  BY <1>2
<1>5. [D -> D] # {}
  <2>1. [d \in D |-> d] \in [D -> D]
    OBVIOUS
  <2>2. QED
    BY <2>1
<1>6. ASSUME NEW d \in D, NEW f \in [D -> D], NEW g \in [D -> D],
             \A e \in D : depth[e] < depth[d] => f[e] = g[e]
      PROVE  step[<<d, f>>] = step[<<d, g>>]
  <2> HIDE DEF step
  <2>1. Of(d, f) = Of(d, g)
    BY <1>2, <1>6
  <2> HIDE DEF Of
  <2>2. QED
    BY <2>1, <1>3
<1>7. \E h \in [D -> D] : IsSolution(D, step, h)
  <2> HIDE DEF D, step, bound
  <2>1. Local(D, D, depth, step)
    BY <1>6 DEF Local
  <2>2. QED
    BY <1>1, <1>4, <1>5, <2>1, Recursion
<1>8. PICK h \in [D -> D] : \A d \in D : h[d] = Of(d, h)
  <2> HIDE DEF Of, step
  <2>1. QED
    BY <1>3, <1>7 DEF IsSolution
<1>9. h = [m \in D |-> Of(m, h)]
  BY <1>8
<1>10. QED
  BY <1>9 DEF EndOf

LEMMA ResolvedIs ==
    ASSUME NEW spec, NEW depth, WellFormed(spec, depth), NEW n \in DOMAIN spec.nodes
    PROVE  /\ Resolved(spec, n) \in DOMAIN spec.nodes
           /\ spec.nodes[Resolved(spec, n)].kind # "ref"
           /\ depth[Resolved(spec, n)] <= depth[n]
           /\ spec.nodes[n].kind # "ref" => Resolved(spec, n) = n
<1> DEFINE D    == DOMAIN spec.nodes
           Ended == {m \in D : /\ EndOf(spec)[m] \in D /\ spec.nodes[EndOf(spec)[m]].kind # "ref"
                              /\ depth[EndOf(spec)[m]] <= depth[m]}
<1>1. \A m \in D : Resolved(spec, m) = EndOf(spec)[m]
  BY DEF Resolved, EndOf
<1>2. \A m \in D : EndOf(spec)[m] =
          IF spec.nodes[m].kind = "ref" THEN EndOf(spec)[spec.nodes[m].ref] ELSE m
  <2>1. EndOf(spec) = [m \in D |->
            IF spec.nodes[m].kind = "ref" THEN EndOf(spec)[spec.nodes[m].ref] ELSE m]
    BY EndsAre
  <2>2. QED
    BY <2>1
<1>3. \A m \in D : depth[m] \in Nat
  BY NodesAre
<1>4. depth \in [D -> Nat]
  <2>1. depth \in [D -> 0 .. Cardinality(D)]
    BY NodesAre
  <2>2. QED
    BY <2>1, <1>3
<1>5. ASSUME NEW m \in D, \A e \in D : depth[e] < depth[m] => e \in Ended
      PROVE  m \in Ended
  <2>1. CASE spec.nodes[m].kind # "ref"
    BY <2>1, <1>2, <1>3
  <2>2. CASE spec.nodes[m].kind = "ref"
    <3> DEFINE next == spec.nodes[m].ref
    <3>1. next \in D /\ depth[next] < depth[m]
      BY <2>2, NodeIs
    <3>2. EndOf(spec)[m] = EndOf(spec)[next]
      BY <2>2, <1>2
    <3>3. next \in Ended
      BY <3>1, <1>5
    <3>4. EndOf(spec)[m] \in D
      BY <3>2, <3>3
    <3>5. spec.nodes[EndOf(spec)[m]].kind # "ref"
      BY <3>2, <3>3
    <3>6. depth[EndOf(spec)[m]] <= depth[next]
      BY <3>2, <3>3
    <3>7. depth[EndOf(spec)[m]] <= depth[m]
      <4>1. depth[EndOf(spec)[m]] \in Nat /\ depth[next] \in Nat /\ depth[m] \in Nat
        BY <3>1, <3>4, <1>3
      <4> HIDE DEF next
      <4>2. QED
        BY <4>1, <3>6, <3>1
    <3>8. QED
      BY <3>4, <3>5, <3>7
  <2>3. QED
    BY <2>1, <2>2
<1>6. D \subseteq Ended
  <2> HIDE DEF Ended, D
  <2>1. QED
    BY <1>4, <1>5, RankInduction
<1>7. QED
  BY <1>1, <1>2, <1>6

-----------------------------------------------------------------------------
(* Fields.                                                                  *)

Walk(spec, n) ==
    CHOOSE seen : seen = [k \in 0 .. Cardinality(DOMAIN spec.nodes) |->
        IF k = 0 THEN {Resolved(spec, n)}
        ELSE LET before == seen[k - 1]
             IN  before \cup {Resolved(spec, p) : p \in UNION {spec.nodes[m].parts : m \in before}}]

LEMMA VisitedAre ==
    ASSUME NEW spec, NEW depth, WellFormed(spec, depth), NEW n \in DOMAIN spec.nodes
    PROVE  Visited(spec, n) \subseteq DOMAIN spec.nodes
<1> DEFINE N       == DOMAIN spec.nodes
           bound   == Cardinality(N)
           D       == 0 .. bound
           Val       == SUBSET N
           Widened(S) == S \cup {Resolved(spec, p) : p \in UNION {spec.nodes[m].parts : m \in S}}
           Of(k,f) == IF k = 0 THEN {Resolved(spec, n)} ELSE Widened(f[k - 1])
           step    == [x \in D \X [D -> Val] |-> Of(x[1], x[2])]
           rank    == [k \in D |-> k]
<1>1. bound \in Nat
  BY NodesAre
<1>2. Resolved(spec, n) \in N
  BY ResolvedIs
<1>3. \A S \in Val : Widened(S) \in Val
  <2> SUFFICES ASSUME NEW S \in Val, NEW p \in UNION {spec.nodes[m].parts : m \in S}
      PROVE  Resolved(spec, p) \in N
    OBVIOUS
  <2>1. p \in N
    BY NodeIs
  <2>2. QED
    BY <2>1, ResolvedIs
<1> HIDE DEF Widened
<1>4. \A k \in D : k # 0 => k - 1 \in D /\ k - 1 < k
  BY <1>1
<1>5. ASSUME NEW k \in D, NEW f \in [D -> Val]
      PROVE  Of(k, f) \in Val /\ step[<<k, f>>] = Of(k, f)
  <2>1. k # 0 => f[k - 1] \in Val
    BY <1>4
  <2>2. Of(k, f) \in Val
    BY <2>1, <1>2, <1>3
  <2> HIDE DEF Of, Val, D
  <2>3. step[<<k, f>>] = Of(k, f)
    OBVIOUS
  <2>4. QED
    BY <2>2, <2>3
<1>6. step \in [D \X [D -> Val] -> Val]
  <2> HIDE DEF Of, Val, D
  <2>1. QED
    BY <1>5
<1>7. [D -> Val] # {}
  <2>1. [d \in D |-> {}] \in [D -> Val]
    OBVIOUS
  <2>2. QED
    BY <2>1
<1>8. rank \in [D -> 0 .. bound]
  OBVIOUS
<1>9. ASSUME NEW k \in D, NEW f \in [D -> Val], NEW g \in [D -> Val],
             \A e \in D : rank[e] < rank[k] => f[e] = g[e]
      PROVE  step[<<k, f>>] = step[<<k, g>>]
  <2>1. k # 0 => f[k - 1] = g[k - 1]
    BY <1>4, <1>9
  <2>2. Of(k, f) = Of(k, g)
    BY <2>1
  <2> HIDE DEF Of, step
  <2>3. QED
    BY <2>2, <1>5
<1>10. \E h \in [D -> Val] : IsSolution(D, step, h)
  <2> HIDE DEF D, Val, step, bound, rank
  <2>1. Local(D, Val, rank, step)
    BY <1>9 DEF Local
  <2>2. rank \in [D -> 0 .. bound]
    BY <1>8
  <2>3. QED
    BY <1>1, <1>6, <1>7, <2>1, <2>2, Recursion
<1>11. PICK h \in [D -> Val] : \A d \in D : h[d] = Of(d, h)
  <2> HIDE DEF Of, step
  <2>1. QED
    BY <1>5, <1>10 DEF IsSolution
<1>12. h = [k \in D |-> Of(k, h)]
  <2> HIDE DEF Of
  <2>1. QED
    BY <1>11
<1>13. Walk(spec, n) = [k \in D |-> Of(k, Walk(spec, n))]
  BY <1>12 DEF Walk, Widened
<1>14. Visited(spec, n) = Walk(spec, n)[bound]
  BY DEF Visited, Walk
<1> DEFINE Typed == {k \in D : Walk(spec, n)[k] \in Val}
<1>15. ASSUME NEW k \in D, \A e \in D : rank[e] < rank[k] => e \in Typed
       PROVE  k \in Typed
  <2>1. Walk(spec, n)[k] = Of(k, Walk(spec, n))
    <3> HIDE DEF Of, D
    <3>1. QED
      BY <1>13
  <2>2. k # 0 => k - 1 \in Typed
    BY <1>4, <1>15
  <2>3. Of(k, Walk(spec, n)) \in Val
    BY <2>2, <1>2, <1>3
  <2>4. QED
    BY <2>1, <2>3
<1>16. D \subseteq Typed
  <2>1. rank \in [D -> Nat]
    OBVIOUS
  <2> HIDE DEF D, Typed, rank
  <2>2. QED
    BY <1>15, <2>1, RankInduction
<1>17. bound \in D
  BY <1>1
<1>18. QED
  BY <1>14, <1>16, <1>17

LEMMA CandidatesAre ==
    ASSUME NEW spec, NEW depth, WellFormed(spec, depth), NEW n \in DOMAIN spec.nodes, NEW name
    PROVE  Candidates(spec, n, name) \subseteq DOMAIN spec.nodes
<1>1. Visited(spec, n) \subseteq DOMAIN spec.nodes
  BY VisitedAre
<1>2. QED
  BY <1>1, NodeIs DEF Candidates

-----------------------------------------------------------------------------
(* Types.                                                                   *)

Types == {"text", "boolean", "bigint", "numeric", "json", "timestamptz", "none"}
Solid == {"true", "1", "1.5", "{}", "abc"}

(* What a column of a type is made for.                                     *)
Base == [text |-> Solid, boolean |-> {"true"}, bigint |-> {"1"}, numeric |-> {"1", "1.5"},
         json |-> Solid, timestamptz |-> Solid, none |-> {}]

LEMMA BasesAre ==
    /\ Base["text"] = Solid /\ Base["boolean"] = {"true"} /\ Base["bigint"] = {"1"}
    /\ Base["numeric"] = {"1", "1.5"} /\ Base["json"] = Solid /\ Base["timestamptz"] = Solid
    /\ Base["none"] = {}
    /\ \A t \in Types : Base[t] \subseteq Solid
  BY DEF Base, Types, Solid

LEMMA MergedIs ==
    ASSUME NEW left \in Types, NEW right \in Types
    PROVE  /\ MergeTypes(left, right) \in Types
           /\ Base[left] \cup Base[right] \subseteq Base[MergeTypes(left, right)]
<1>1. MergeTypes(left, right) \in Types
  BY DEF MergeTypes, Types
<1>2. CASE left = right
  BY <1>2 DEF MergeTypes
<1>3. CASE left # right /\ "json" \in {left, right}
  BY <1>3, BasesAre DEF MergeTypes
<1>4. CASE left # right /\ "json" \notin {left, right} /\ {left, right} = {"numeric", "bigint"}
  <2>1. MergeTypes(left, right) = "numeric"
    BY <1>4 DEF MergeTypes
  <2>2. left \in {"numeric", "bigint"} /\ right \in {"numeric", "bigint"}
    BY <1>4
  <2>3. Base[left] \subseteq {"1", "1.5"} /\ Base[right] \subseteq {"1", "1.5"}
    BY <2>2, BasesAre, Zenon
  <2>4. Base[MergeTypes(left, right)] = {"1", "1.5"}
    BY <2>1, BasesAre, Zenon
  <2>5. QED
    BY <2>3, <2>4, <1>1
<1>5. CASE left # right /\ "json" \notin {left, right} /\ {left, right} # {"numeric", "bigint"}
  <2>1. MergeTypes(left, right) = "text"
    BY <1>5 DEF MergeTypes
  <2>2. Base[MergeTypes(left, right)] = Solid
    BY <2>1, BasesAre, Zenon
  <2>3. Base[left] \subseteq Solid /\ Base[right] \subseteq Solid
    BY BasesAre, Zenon
  <2>4. QED
    BY <2>2, <2>3, <1>1
<1>6. QED
  BY <1>1, <1>2, <1>3, <1>4, <1>5

Merging(types) ==
    CHOOSE merged : merged = [S \in SUBSET types |->
        IF S = {} THEN "none"
        ELSE LET t    == CHOOSE t \in S : TRUE
                 rest == merged[S \ {t}]
             IN  IF rest = "none" THEN t ELSE MergeTypes(rest, t)]

LEMMA TypesAreFinite ==
    ASSUME NEW S \in SUBSET Types
    PROVE  IsFiniteSet(S)
<1>1. IsFiniteSet({}) /\ Cardinality({}) = 0
  BY FS_EmptySet
<1>2. \A T, x : IsFiniteSet(T) => IsFiniteSet(T \cup {x})
  BY FS_AddElement
<1> DEFINE T1 == {} \cup {"text"}
           T2 == T1 \cup {"boolean"}
           T3 == T2 \cup {"bigint"}
           T4 == T3 \cup {"numeric"}
           T5 == T4 \cup {"json"}
           T6 == T5 \cup {"timestamptz"}
           T7 == T6 \cup {"none"}
<1>3. IsFiniteSet(T1)
  BY <1>1, <1>2
<1>4. IsFiniteSet(T7)
  <2> HIDE DEF T1
  <2>1. IsFiniteSet(T2) /\ IsFiniteSet(T3)
    BY <1>2, <1>3
  <2> HIDE DEF T3
  <2>2. IsFiniteSet(T4) /\ IsFiniteSet(T5)
    BY <1>2, <2>1
  <2> HIDE DEF T5
  <2>3. QED
    BY <1>2, <2>2
<1>5. T7 = Types
  BY DEF Types
<1>6. QED
  <2> HIDE DEF T7
  <2>1. QED
    BY <1>4, <1>5, FS_Subset

LEMMA MergingIs ==
    ASSUME NEW types \in SUBSET Types, NEW S \in SUBSET types
    PROVE  Merging(types)[S] =
               IF S = {} THEN "none"
               ELSE IF Merging(types)[S \ {CHOOSE t \in S : TRUE}] = "none"
               THEN CHOOSE t \in S : TRUE
               ELSE MergeTypes(Merging(types)[S \ {CHOOSE t \in S : TRUE}], CHOOSE t \in S : TRUE)
<1> DEFINE D       == SUBSET types
           bound   == Cardinality(types)
           One(T)  == CHOOSE t \in T : TRUE
           Of(T,f) == IF T = {} THEN "none"
                      ELSE IF f[T \ {One(T)}] = "none" THEN One(T)
                      ELSE MergeTypes(f[T \ {One(T)}], One(T))
           step    == [x \in D \X [D -> Types] |-> Of(x[1], x[2])]
           rank    == [T \in D |-> Cardinality(T)]
<1>1. \A T \in D : IsFiniteSet(T) /\ Cardinality(T) \in Nat /\ Cardinality(T) \in 0 .. bound
  <2>1. IsFiniteSet(types) /\ bound \in Nat
    BY TypesAreFinite, FS_CardinalityType
  <2>2. \A T \in D : IsFiniteSet(T) /\ Cardinality(T) <= bound /\ Cardinality(T) \in Nat
    BY <2>1, FS_Subset, FS_CardinalityType
  <2>3. QED
    BY <2>1, <2>2
<1>2. bound \in Nat /\ rank \in [D -> 0 .. bound]
  BY <1>1
<1>3. ASSUME NEW T \in D, T # {}
      PROVE  /\ One(T) \in T /\ One(T) \in Types
             /\ T \ {One(T)} \in D /\ Cardinality(T \ {One(T)}) < Cardinality(T)
  <2>1. One(T) \in T
    BY <1>3
  <2> HIDE DEF One
  <2>2. Cardinality(T \ {One(T)}) = Cardinality(T) - 1
    BY <1>1, <2>1, FS_RemoveElement
  <2>3. Cardinality(T \ {One(T)}) < Cardinality(T)
    BY <1>1, <2>2
  <2>4. QED
    BY <2>1, <2>3
<1> HIDE DEF One
<1>4. ASSUME NEW T \in D, NEW f \in [D -> Types]
      PROVE  Of(T, f) \in Types /\ step[<<T, f>>] = Of(T, f)
  <2>1. CASE T = {}
    BY <2>1 DEF Types
  <2>2. CASE T # {}
    <3>1. f[T \ {One(T)}] \in Types
      BY <2>2, <1>3
    <3>2. QED
      BY <2>2, <3>1, <1>3, MergedIs
  <2>3. Of(T, f) \in Types
    BY <2>1, <2>2
  <2> HIDE DEF Of, D
  <2>4. QED
    BY <2>3
<1>5. step \in [D \X [D -> Types] -> Types]
  <2> HIDE DEF Of, D
  <2>1. QED
    BY <1>4
<1>6. [D -> Types] # {}
  <2>1. [d \in D |-> "none"] \in [D -> Types]
    BY DEF Types
  <2>2. QED
    BY <2>1
<1>7. ASSUME NEW T \in D, NEW f \in [D -> Types], NEW g \in [D -> Types],
             \A e \in D : rank[e] < rank[T] => f[e] = g[e]
      PROVE  step[<<T, f>>] = step[<<T, g>>]
  <2>1. T # {} => f[T \ {One(T)}] = g[T \ {One(T)}]
    BY <1>3, <1>7
  <2>2. Of(T, f) = Of(T, g)
    BY <2>1
  <2> HIDE DEF Of, step
  <2>3. QED
    BY <2>2, <1>4
<1>8. \E h \in [D -> Types] : IsSolution(D, step, h)
  <2> HIDE DEF D, step, bound, rank
  <2>1. Local(D, Types, rank, step)
    BY <1>7 DEF Local
  <2>2. QED
    BY <1>2, <1>5, <1>6, <2>1, Recursion
<1>9. PICK h \in [D -> Types] : \A d \in D : h[d] = Of(d, h)
  <2> HIDE DEF Of, step
  <2>1. QED
    BY <1>4, <1>8 DEF IsSolution
<1>10. h = [T \in D |-> Of(T, h)]
  <2> HIDE DEF Of
  <2>1. QED
    BY <1>9
<1>11. Merging(types) = [T \in D |-> Of(T, Merging(types))]
  BY <1>10 DEF Merging, One
<1>12. Merging(types)[S] = Of(S, Merging(types))
  <2> HIDE DEF Of
  <2>1. QED
    BY <1>11
<1>13. QED
  BY <1>12 DEF One

LEMMA MergeAllIs ==
    ASSUME NEW types \in SUBSET Types
    PROVE  /\ MergeAll(types) \in Types
           /\ \A t \in types : Base[t] \subseteq Base[MergeAll(types)]
<1> DEFINE One(S)    == CHOOSE t \in S : TRUE
           D         == SUBSET types
           rank      == [S \in D |-> Cardinality(S)]
           MergedOf(S) == Merging(types)[S]
           Covered   == {S \in D : MergedOf(S) \in Types /\ \A t \in S : Base[t] \subseteq Base[MergedOf(S)]}
<1>1. MergeAll(types) = MergedOf(types)
  BY DEF MergeAll, Merging
<1>2. \A S \in D : IsFiniteSet(S) /\ Cardinality(S) \in Nat
  BY TypesAreFinite, FS_CardinalityType
<1>3. rank \in [D -> Nat]
  BY <1>2
<1>4. ASSUME NEW S \in D, \A e \in D : rank[e] < rank[S] => e \in Covered
      PROVE  S \in Covered
  <2>1. CASE S = {}
    <3>1. MergedOf(S) = "none"
      BY <2>1, MergingIs
    <3>2. QED
      BY <2>1, <3>1 DEF Types
  <2>2. CASE S # {}
    <3> DEFINE t    == One(S)
               rest == S \ {t}
    <3>1. t \in S /\ t \in Types
      BY <2>2
    <3> HIDE DEF t
    <3>2. rest \in D /\ Cardinality(rest) < Cardinality(S)
      <4>1. Cardinality(rest) = Cardinality(S) - 1
        BY <1>2, <3>1, FS_RemoveElement
      <4>2. QED
        BY <4>1, <1>2
    <3>3. rest \in Covered
      BY <3>2, <1>4
    <3>4. MergedOf(S) = IF MergedOf(rest) = "none" THEN t ELSE MergeTypes(MergedOf(rest), t)
      BY <2>2, MergingIs DEF t
    <3> HIDE DEF MergedOf, rest
    <3>5. MergedOf(rest) \in Types /\ \A s \in rest : Base[s] \subseteq Base[MergedOf(rest)]
      BY <3>3
    <3>6. MergedOf(S) \in Types /\ Base[t] \cup Base[MergedOf(rest)] \subseteq Base[MergedOf(S)]
      <4>1. CASE MergedOf(rest) = "none"
        <5>1. Base[MergedOf(rest)] = {}
          BY <4>1, BasesAre
        <5>2. QED
          BY <4>1, <5>1, <3>4, <3>1
      <4>2. CASE MergedOf(rest) # "none"
        BY <4>2, <3>1, <3>4, <3>5, MergedIs
      <4>3. QED
        BY <4>1, <4>2
    <3>7. \A s \in S : s = t \/ s \in rest
      BY DEF rest
    <3>8. \A s \in S : Base[s] \subseteq Base[MergedOf(S)]
      BY <3>5, <3>6, <3>7
    <3>9. QED
      BY <3>6, <3>8
  <2>3. QED
    BY <2>1, <2>2
<1>5. D \subseteq Covered
  <2> HIDE DEF D, Covered, rank
  <2>1. QED
    BY <1>3, <1>4, RankInduction
<1>6. QED
  BY <1>1, <1>5

-----------------------------------------------------------------------------
(* Types and values of schemas.                                             *)

Inference == [type : Types, nullable : BOOLEAN]

Inferring(spec) ==
    CHOOSE of : of = [m \in DOMAIN spec.nodes |->
        LET node  == spec.nodes[Resolved(spec, m)]
            parts == {of[p] : p \in node.parts}
        IN  IF node.kind = "composed"
            THEN [type     |-> MergeAll({p.type : p \in parts}),
                  nullable |-> node.nullable \/ \E p \in parts : p.nullable]
            ELSE [type     |-> OfKind[node.kind],
                  nullable |-> node.nullable \/ node.kind = "unknown"]]

\* the parts of what a node stands for
LEMMA PartsAre ==
    ASSUME NEW spec, NEW depth, WellFormed(spec, depth), NEW m \in DOMAIN spec.nodes
    PROVE  /\ spec.nodes[Resolved(spec, m)].nullable \in BOOLEAN
           /\ \/ /\ spec.nodes[Resolved(spec, m)].kind = "composed"
                 /\ spec.nodes[Resolved(spec, m)].parts \subseteq DOMAIN spec.nodes
                 /\ \A p \in spec.nodes[Resolved(spec, m)].parts : depth[p] < depth[m]
              \/ /\ spec.nodes[Resolved(spec, m)].kind # "composed"
                 /\ spec.nodes[Resolved(spec, m)].kind \in Kinds
<1> DEFINE n == Resolved(spec, m)
<1>1. n \in DOMAIN spec.nodes /\ spec.nodes[n].kind # "ref" /\ depth[n] <= depth[m]
  BY ResolvedIs
<1> HIDE DEF n
<1>2. /\ spec.nodes[n].nullable \in BOOLEAN /\ spec.nodes[n].parts \subseteq DOMAIN spec.nodes
      /\ spec.nodes[n].kind = "composed" => \A p \in spec.nodes[n].parts : depth[p] < depth[n]
      /\ spec.nodes[n].kind \notin {"ref", "composed"} => spec.nodes[n].kind \in Kinds
  BY <1>1, NodeIs
<1>3. \A p \in DOMAIN spec.nodes : depth[p] \in Nat
  BY NodesAre
<1>4. spec.nodes[n].kind = "composed" => \A p \in spec.nodes[n].parts : depth[p] < depth[m]
  <2> SUFFICES ASSUME spec.nodes[n].kind = "composed", NEW p \in spec.nodes[n].parts
               PROVE  depth[p] < depth[m]
    OBVIOUS
  <2>1. depth[p] \in Nat /\ depth[n] \in Nat /\ depth[m] \in Nat
    BY <1>1, <1>2, <1>3
  <2>2. depth[p] < depth[n]
    BY <1>2
  <2>3. QED
    BY <1>1, <2>1, <2>2
<1>5. QED
  BY <1>1, <1>2, <1>4 DEF n

LEMMA InferringIs ==
    ASSUME NEW spec, NEW depth, WellFormed(spec, depth), NEW n \in DOMAIN spec.nodes
    PROVE  Inferring(spec)[n] =
             LET node  == spec.nodes[Resolved(spec, n)]
                 parts == {Inferring(spec)[p] : p \in node.parts}
             IN  IF node.kind = "composed"
                 THEN [type     |-> MergeAll({p.type : p \in parts}),
                       nullable |-> node.nullable \/ \E p \in parts : p.nullable]
                 ELSE [type     |-> OfKind[node.kind],
                       nullable |-> node.nullable \/ node.kind = "unknown"]
<1> DEFINE D         == DOMAIN spec.nodes
           Val         == Inference
           bound     == Cardinality(D)
           node(m)   == spec.nodes[Resolved(spec, m)]
           parts(m, f) == {f[p] : p \in node(m).parts}
           Whole(m, S) == IF node(m).kind = "composed"
                        THEN [type     |-> MergeAll({p.type : p \in S}),
                              nullable |-> node(m).nullable \/ \E p \in S : p.nullable]
                        ELSE [type     |-> OfKind[node(m).kind],
                              nullable |-> node(m).nullable \/ node(m).kind = "unknown"]
           Of(m, f)  == Whole(m, parts(m, f))
           step      == [x \in D \X [D -> Val] |-> Of(x[1], x[2])]
<1>1. bound \in Nat /\ depth \in [D -> 0 .. bound]
  BY NodesAre
<1>2. \A m \in D : /\ node(m).nullable \in BOOLEAN
                   /\ \/ /\ node(m).kind = "composed" /\ node(m).parts \subseteq D
                         /\ \A p \in node(m).parts : depth[p] < depth[m]
                      \/ node(m).kind # "composed" /\ node(m).kind \in Kinds
  BY PartsAre
<1> HIDE DEF node
<1>3. \A k \in Kinds : OfKind[k] \in Types
  BY DEF OfKind, Kinds, Types
<1>4. ASSUME NEW m \in D, NEW f \in [D -> Val]
      PROVE  Of(m, f) \in Val
  <2>1. CASE node(m).kind = "composed"
    <3>1. parts(m, f) \subseteq Val
      BY <2>1, <1>2
    <3> DEFINE types == {p.type : p \in parts(m, f)}
    <3>2. types \subseteq Types
      BY <3>1 DEF Inference
    <3> HIDE DEF types, parts
    <3>3. MergeAll(types) \in Types
      BY <3>2, MergeAllIs
    <3> DEFINE null == node(m).nullable \/ \E p \in parts(m, f) : p.nullable
    <3>4. null \in BOOLEAN
      OBVIOUS
    <3> HIDE DEF null
    <3>5. [type |-> MergeAll(types), nullable |-> null] \in Val
      BY <3>3, <3>4 DEF Inference
    <3>6. Of(m, f) = [type |-> MergeAll(types), nullable |-> null]
      BY <2>1 DEF types, null
    <3>7. QED
      BY <3>5, <3>6
  <2>2. CASE node(m).kind # "composed"
    <3>1. OfKind[node(m).kind] \in Types
      BY <2>2, <1>2, <1>3
    <3>2. Of(m, f) = [type |-> OfKind[node(m).kind], nullable |-> node(m).nullable \/ node(m).kind = "unknown"]
      BY <2>2
    <3>3. QED
      BY <3>1, <3>2 DEF Inference
  <2>3. QED
    BY <2>1, <2>2
<1>5. ASSUME NEW m \in D, NEW f \in [D -> Val]
      PROVE  step[<<m, f>>] = Of(m, f)
  <2> HIDE DEF Of, D, Val
  <2>1. QED
    OBVIOUS
<1>6. step \in [D \X [D -> Val] -> Val]
  <2> HIDE DEF Of, D, Val
  <2>1. QED
    BY <1>4
<1>7. [D -> Val] # {}
  <2>1. [d \in D |-> [type |-> "none", nullable |-> FALSE]] \in [D -> Val]
    BY DEF Inference, Types
  <2>2. QED
    BY <2>1
<1>8. ASSUME NEW m \in D, NEW f \in [D -> Val], NEW g \in [D -> Val],
             \A e \in D : depth[e] < depth[m] => f[e] = g[e]
      PROVE  step[<<m, f>>] = step[<<m, g>>]
  <2>1. node(m).kind = "composed" => parts(m, f) = parts(m, g)
    BY <1>2, <1>8
  <2>2. Of(m, f) = Of(m, g)
    <3> HIDE DEF parts
    <3>1. QED
      BY <2>1
  <2> HIDE DEF Of, step
  <2>3. QED
    BY <2>2, <1>5
<1>9. \E h \in [D -> Val] : IsSolution(D, step, h)
  <2> HIDE DEF D, Val, step, bound
  <2>1. Local(D, Val, depth, step)
    BY <1>8 DEF Local
  <2>2. QED
    BY <1>1, <1>6, <1>7, <2>1, Recursion
<1>10. PICK h \in [D -> Val] : \A d \in D : h[d] = Of(d, h)
  <2> HIDE DEF Of, step
  <2>1. QED
    BY <1>5, <1>9 DEF IsSolution
<1>11. h = [m \in D |-> Of(m, h)]
  <2> HIDE DEF Of
  <2>1. QED
    BY <1>10
<1>12. Inferring(spec) = [m \in D |-> Of(m, Inferring(spec))]
  BY <1>11 DEF Inferring, node
<1>13. Inferring(spec)[n] = Of(n, Inferring(spec))
  <2> HIDE DEF Of
  <2>1. QED
    BY <1>12
<1>14. QED
  BY <1>13 DEF node

LEMMA InferredIs ==
    ASSUME NEW spec, NEW depth, WellFormed(spec, depth), NEW n \in DOMAIN spec.nodes
    PROVE  Inferred(spec, n) \in Inference /\ Inferred(spec, n) = Inferring(spec)[n]
<1> DEFINE D     == DOMAIN spec.nodes
           Typed == {m \in D : Inferring(spec)[m] \in Inference}
<1>1. \A m \in D : Inferred(spec, m) = Inferring(spec)[m]
  BY DEF Inferred, Inferring
<1>2. depth \in [D -> Nat]
  BY NodesAre
<1>3. ASSUME NEW m \in D, \A e \in D : depth[e] < depth[m] => e \in Typed
      PROVE  m \in Typed
  <2> DEFINE node  == spec.nodes[Resolved(spec, m)]
             parts == {Inferring(spec)[p] : p \in node.parts}
             null  == node.nullable \/ \E p \in parts : p.nullable
             types == {p.type : p \in parts}
             one   == node.nullable \/ node.kind = "unknown"
  <2>1. Inferring(spec)[m] =
            IF node.kind = "composed" THEN [type |-> MergeAll(types), nullable |-> null]
            ELSE [type |-> OfKind[node.kind], nullable |-> one]
    BY InferringIs
  <2>2. CASE node.kind = "composed"
    <3>1. node.parts \subseteq D /\ \A p \in node.parts : depth[p] < depth[m]
      BY <2>2, PartsAre DEF Kinds
    <3>2. parts \subseteq Inference
      BY <3>1, <1>3
    <3>3. types \subseteq Types
      BY <3>2 DEF Inference
    <3> HIDE DEF types, node, parts
    <3>4. MergeAll(types) \in Types
      BY <3>3, MergeAllIs
    <3>5. null \in BOOLEAN
      OBVIOUS
    <3> HIDE DEF null
    <3>6. QED
      BY <2>1, <2>2, <3>4, <3>5 DEF Inference
  <2>3. CASE node.kind # "composed"
    <3>1. node.kind \in Kinds
      BY <2>3, PartsAre
    <3>2. OfKind[node.kind] \in Types
      BY <3>1 DEF OfKind, Kinds, Types
    <3> HIDE DEF node
    <3>3. one \in BOOLEAN
      OBVIOUS
    <3> HIDE DEF one
    <3>4. QED
      BY <2>1, <2>3, <3>2, <3>3 DEF Inference
  <2>4. QED
    BY <2>2, <2>3
<1>4. D \subseteq Typed
  <2> HIDE DEF D, Typed
  <2>1. QED
    BY <1>2, <1>3, RankInduction
<1>5. QED
  BY <1>1, <1>4

Valuing(spec) ==
    CHOOSE of : of = [m \in DOMAIN spec.nodes |->
        LET node == spec.nodes[Resolved(spec, m)]
        IN  (IF node.nullable THEN {"null"} ELSE {}) \cup
            (IF node.kind = "composed" THEN UNION {of[p] : p \in node.parts}
             ELSE ValuesOfKind[node.kind])]

LEMMA ValuingIs ==
    ASSUME NEW spec, NEW depth, WellFormed(spec, depth), NEW n \in DOMAIN spec.nodes
    PROVE  Valuing(spec)[n] =
             LET node == spec.nodes[Resolved(spec, n)]
             IN  (IF node.nullable THEN {"null"} ELSE {}) \cup
                 (IF node.kind = "composed" THEN UNION {Valuing(spec)[p] : p \in node.parts}
                  ELSE ValuesOfKind[node.kind])
<1> DEFINE D        == DOMAIN spec.nodes
           All      == Solid \cup {"null"}
           Val        == SUBSET All
           bound    == Cardinality(D)
           node(m)  == spec.nodes[Resolved(spec, m)]
           Of(m, f) == (IF node(m).nullable THEN {"null"} ELSE {}) \cup
                       (IF node(m).kind = "composed" THEN UNION {f[p] : p \in node(m).parts}
                        ELSE ValuesOfKind[node(m).kind])
           step     == [x \in D \X [D -> Val] |-> Of(x[1], x[2])]
<1>1. bound \in Nat /\ depth \in [D -> 0 .. bound]
  BY NodesAre
<1>2. \A m \in D : \/ /\ node(m).kind = "composed" /\ node(m).parts \subseteq D
                      /\ \A p \in node(m).parts : depth[p] < depth[m]
                   \/ node(m).kind # "composed" /\ node(m).kind \in Kinds
  BY PartsAre
<1> HIDE DEF node
<1>3. \A k \in Kinds : ValuesOfKind[k] \subseteq All
  BY ValuesOfKindAre DEF Kinds, Solid
<1>4. ASSUME NEW m \in D, NEW f \in [D -> Val]
      PROVE  Of(m, f) \in Val
  <2>1. CASE node(m).kind = "composed"
    <3>1. \A p \in node(m).parts : f[p] \subseteq All
      BY <2>1, <1>2
    <3> HIDE DEF All
    <3>2. UNION {f[p] : p \in node(m).parts} \subseteq All /\ {"null"} \subseteq All
      BY <3>1 DEF All
    <3>3. QED
      BY <2>1, <3>2
  <2>2. CASE node(m).kind # "composed"
    BY <2>2, <1>2, <1>3
  <2>3. QED
    BY <2>1, <2>2
<1>5. ASSUME NEW m \in D, NEW f \in [D -> Val]
      PROVE  step[<<m, f>>] = Of(m, f)
  <2> HIDE DEF Of, D, Val
  <2>1. QED
    OBVIOUS
<1>6. step \in [D \X [D -> Val] -> Val]
  <2> HIDE DEF Of, D, Val
  <2>1. QED
    BY <1>4
<1>7. [D -> Val] # {}
  <2>1. [d \in D |-> {}] \in [D -> Val]
    OBVIOUS
  <2>2. QED
    BY <2>1
<1>8. ASSUME NEW m \in D, NEW f \in [D -> Val], NEW g \in [D -> Val],
             \A e \in D : depth[e] < depth[m] => f[e] = g[e]
      PROVE  step[<<m, f>>] = step[<<m, g>>]
  <2>1. node(m).kind = "composed" =>
            {f[p] : p \in node(m).parts} = {g[p] : p \in node(m).parts}
    BY <1>2, <1>8
  <2>2. Of(m, f) = Of(m, g)
    BY <2>1
  <2> HIDE DEF Of, step
  <2>3. QED
    BY <2>2, <1>5
<1>9. \E h \in [D -> Val] : IsSolution(D, step, h)
  <2> HIDE DEF D, Val, step, bound
  <2>1. Local(D, Val, depth, step)
    BY <1>8 DEF Local
  <2>2. QED
    BY <1>1, <1>6, <1>7, <2>1, Recursion
<1>10. PICK h \in [D -> Val] : \A d \in D : h[d] = Of(d, h)
  <2> HIDE DEF Of, step
  <2>1. QED
    BY <1>5, <1>9 DEF IsSolution
<1>11. h = [m \in D |-> Of(m, h)]
  <2> HIDE DEF Of
  <2>1. QED
    BY <1>10
<1>12. Valuing(spec) = [m \in D |-> Of(m, Valuing(spec))]
  BY <1>11 DEF Valuing, node
<1>13. Valuing(spec)[n] = Of(n, Valuing(spec))
  <2> HIDE DEF Of
  <2>1. QED
    BY <1>12
<1>14. QED
  BY <1>13 DEF node

(* What a column takes that was inferred so.                                *)
Fit(i) == Base[i.type] \cup (IF i.nullable THEN {"null"} ELSE {})

LEMMA FitIs ==
    ASSUME NEW i, NEW x
    PROVE  x \in Fit(i) <=> x \in Base[i.type] \/ (x = "null" /\ i.nullable)
<1>1. i.nullable => Fit(i) = Base[i.type] \cup {"null"}
  BY DEF Fit
<1>2. ~ i.nullable => Fit(i) = Base[i.type] \cup {}
  BY Zenon DEF Fit
<1>3. QED
  BY <1>1, <1>2

LEMMA KindsFit ==
    ASSUME NEW k \in Kinds
    PROVE  ValuesOfKind[k] \subseteq Base[OfKind[k]]
<1>1. k \in {"boolean", "integer", "number", "date", "string", "array", "object", "unknown"}
  BY DEF Kinds
<1>2. CASE k = "boolean"
  BY <1>2, ValuesOfKindAre, OfKindAre, BasesAre DEF Solid
<1>3. CASE k = "integer"
  BY <1>3, ValuesOfKindAre, OfKindAre, BasesAre DEF Solid
<1>4. CASE k = "number"
  BY <1>4, ValuesOfKindAre, OfKindAre, BasesAre DEF Solid
<1>5. CASE k = "date"
  BY <1>5, ValuesOfKindAre, OfKindAre, BasesAre DEF Solid
<1>6. CASE k = "string"
  BY <1>6, ValuesOfKindAre, OfKindAre, BasesAre DEF Solid
<1>7. CASE k = "array"
  BY <1>7, ValuesOfKindAre, OfKindAre, BasesAre DEF Solid
<1>8. CASE k = "object"
  BY <1>8, ValuesOfKindAre, OfKindAre, BasesAre DEF Solid
<1>9. CASE k = "unknown"
  BY <1>9, ValuesOfKindAre, OfKindAre, BasesAre DEF Solid
<1>10. QED
  BY <1>1, <1>2, <1>3, <1>4, <1>5, <1>6, <1>7, <1>8, <1>9

(* A schema's values fit the type that inferType makes of it.               *)
THEOREM ValuesFit ==
    ASSUME NEW spec, NEW depth, WellFormed(spec, depth), NEW n \in DOMAIN spec.nodes
    PROVE  ValuesOf(spec, n) \subseteq Fit(Inferred(spec, n))
<1> DEFINE D      == DOMAIN spec.nodes
           Fitted == {m \in D : Valuing(spec)[m] \subseteq Fit(Inferring(spec)[m])}
<1>1. \A m \in D : ValuesOf(spec, m) = Valuing(spec)[m]
  BY DEF ValuesOf, Valuing
<1>2. depth \in [D -> Nat]
  BY NodesAre
<1>3. \A m \in D : Inferring(spec)[m] \in Inference
  BY InferredIs
<1>4. ASSUME NEW m \in D, \A e \in D : depth[e] < depth[m] => e \in Fitted
      PROVE  m \in Fitted
  <2> DEFINE node  == spec.nodes[Resolved(spec, m)]
             parts == {Inferring(spec)[p] : p \in node.parts}
             null  == node.nullable \/ \E p \in parts : p.nullable
             types == {p.type : p \in parts}
             one   == node.nullable \/ node.kind = "unknown"
  <2>1. Inferring(spec)[m] =
            IF node.kind = "composed" THEN [type |-> MergeAll(types), nullable |-> null]
            ELSE [type |-> OfKind[node.kind], nullable |-> one]
    BY InferringIs
  <2>2. Valuing(spec)[m] =
            (IF node.nullable THEN {"null"} ELSE {}) \cup
            (IF node.kind = "composed" THEN UNION {Valuing(spec)[p] : p \in node.parts}
             ELSE ValuesOfKind[node.kind])
    BY ValuingIs
  <2>3. CASE node.kind = "composed"
    <3>1. node.parts \subseteq D /\ \A p \in node.parts : depth[p] < depth[m]
      BY <2>3, PartsAre DEF Kinds
    <3>2. parts \subseteq Inference
      BY <3>1, <1>3
    <3>3. types \subseteq Types
      BY <3>2 DEF Inference
    <3>4. \A p \in node.parts :
              /\ Valuing(spec)[p] \subseteq Fit(Inferring(spec)[p])
              /\ Inferring(spec)[p] \in parts /\ Inferring(spec)[p].type \in types
      BY <3>1, <1>4
    <3> HIDE DEF types, parts
    <3>5. \A t \in types : Base[t] \subseteq Base[MergeAll(types)]
      BY <3>3, MergeAllIs
    <3>6. Inferring(spec)[m] = [type |-> MergeAll(types), nullable |-> null]
      BY <2>1, <2>3
    <3>7. Fit(Inferring(spec)[m]) = Base[MergeAll(types)] \cup (IF null THEN {"null"} ELSE {})
      <4> HIDE DEF null
      <4>1. QED
        BY <3>6 DEF Fit
    <3> HIDE DEF node
    <3>8. ASSUME NEW p \in node.parts, NEW x \in Valuing(spec)[p]
          PROVE  x \in Fit(Inferring(spec)[m])
      <4>0. x \in Fit(Inferring(spec)[p])
        BY <3>4
      <4>1. x \in Base[Inferring(spec)[p].type] \/ (x = "null" /\ Inferring(spec)[p].nullable)
        BY <4>0, FitIs
      <4>2. QED
        BY <4>1, <3>4, <3>5, <3>7
    <3>9. node.nullable => "null" \in Fit(Inferring(spec)[m])
      BY <3>7
    <3>10. QED
      BY <2>2, <2>3, <3>8, <3>9
  <2>4. CASE node.kind # "composed"
    <3>1. node.kind \in Kinds
      BY <2>4, PartsAre
    <3>2. \A k \in Kinds : ValuesOfKind[k] \subseteq Base[OfKind[k]]
      BY KindsFit
    <3>3. ValuesOfKind[node.kind] \subseteq Base[OfKind[node.kind]]
      BY <3>1, <3>2
    <3> HIDE DEF node
    <3>4. Fit(Inferring(spec)[m]) = Base[OfKind[node.kind]] \cup (IF one THEN {"null"} ELSE {})
      <4> HIDE DEF one
      <4>1. QED
        BY <2>1, <2>4 DEF Fit
    <3>5. QED
      BY <2>2, <2>4, <3>3, <3>4
  <2>5. QED
    BY <2>3, <2>4
<1>5. D \subseteq Fitted
  <2> HIDE DEF D, Fitted
  <2>1. QED
    BY <1>2, <1>4, RankInduction
<1>6. QED
  BY <1>1, <1>5, InferredIs

-----------------------------------------------------------------------------
(* Columns.                                                                 *)

\* the schemas of a field of a table
Origins(spec, t, name) == UNION {Candidates(spec, n, name) : n \in Sources(spec, t)}
Values(spec, t, name)  == UNION {ValuesOf(spec, c) : c \in Origins(spec, t, name)}

\* A column takes what the schemas of its field may hold.
LEMMA ColumnFits ==
    ASSUME NEW spec, NEW depth, WellFormed(spec, depth), NEW t, NEW name
    PROVE  /\ Column(spec, t, name) \in Inference
           /\ Values(spec, t, name) \subseteq Fit(Column(spec, t, name))
<1> DEFINE D     == DOMAIN spec.nodes
           all   == {Inferred(spec, c) : c \in Origins(spec, t, name)}
           types == {i.type : i \in all}
           null  == \E i \in all : i.nullable
<1>1. Sources(spec, t) \subseteq D
  BY NodesAre DEF Sources
<1>2. \A n \in Sources(spec, t) : Candidates(spec, n, name) \subseteq D
  BY <1>1, CandidatesAre
<1>3. Origins(spec, t, name) \subseteq D
  BY <1>2 DEF Origins
<1>4. all \subseteq Inference
  BY <1>3, InferredIs
<1>5. types \subseteq Types
  BY <1>4 DEF Inference
<1>6. MergeAll(types) \in Types /\ \A s \in types : Base[s] \subseteq Base[MergeAll(types)]
  <2> HIDE DEF types
  <2>1. QED
    BY <1>5, MergeAllIs
<1>7. Column(spec, t, name) = [type |-> MergeAll(types), nullable |-> null]
  BY DEF Column, Origins
<1>8. \A c \in Origins(spec, t, name) :
          Inferred(spec, c) \in all /\ Inferred(spec, c).type \in types
  OBVIOUS
<1> HIDE DEF types
<1>9. null \in BOOLEAN /\ (\A i \in all : i.nullable => null)
  OBVIOUS
<1> HIDE DEF all, null
<1>10. Column(spec, t, name) \in Inference
  BY <1>6, <1>7, <1>9 DEF Inference
<1>11. ASSUME NEW c \in Origins(spec, t, name), NEW x \in ValuesOf(spec, c)
       PROVE  x \in Fit(Column(spec, t, name))
  <2>1. x \in Fit(Inferred(spec, c))
    BY <1>3, ValuesFit
  <2>2. x \in Base[Inferred(spec, c).type] \/ (x = "null" /\ Inferred(spec, c).nullable)
    BY <2>1, FitIs
  <2>3. Column(spec, t, name).type = MergeAll(types) /\ Column(spec, t, name).nullable = null
    BY <1>7
  <2>4. x \in Base[Column(spec, t, name).type] \/ (x = "null" /\ Column(spec, t, name).nullable)
    BY <2>2, <2>3, <1>6, <1>8, <1>9
  <2>5. QED
    BY <2>4, FitIs
<1>12. QED
  BY <1>10, <1>11 DEF Values

LEMMA AcceptsAre ==
    /\ Accepts["boolean"] = {"true", "null"} /\ Accepts["bigint"] = {"1", "null"}
    /\ Accepts["numeric"] = {"1", "1.5", "null"}
    /\ Accepts["text"] = Solid \cup {"null"} /\ Accepts["jsonb"] = Solid \cup {"null"}
  BY DEF Accepts, Solid

\* The generated column of a type takes what fits the type, null too.
LEMMA TypeAccepts ==
    ASSUME NEW i \in Inference
    PROVE  Base[i.type] \cup {"null"} \subseteq Accepts[PgType(i)]
<1>1. i.type \in Types /\ i.nullable \in BOOLEAN
  BY DEF Inference
<1>2. Base[i.type] \subseteq Solid
  BY <1>1, BasesAre
<1>3. CASE PgType(i) \in {"text", "jsonb"}
  BY <1>2, <1>3, AcceptsAre
<1>4. CASE PgType(i) \notin {"text", "jsonb"}
  <2>1. PgType(i) = i.type /\ i.type \in {"boolean", "bigint", "numeric"}
    BY <1>4 DEF PgType
  <2>2. CASE i.type = "boolean"
    BY <2>1, <2>2, BasesAre, AcceptsAre
  <2>3. CASE i.type = "bigint"
    BY <2>1, <2>3, BasesAre, AcceptsAre
  <2>4. CASE i.type = "numeric"
    BY <2>1, <2>4, BasesAre, AcceptsAre
  <2>5. QED
    BY <2>1, <2>2, <2>3, <2>4
<1>5. QED
  BY <1>3, <1>4

LEMMA PgColumnsAre ==
    ASSUME NEW spec, NEW t
    PROVE  /\ DOMAIN PgColumns(spec, t) = Columns(spec, t) \cup DOMAIN Compatibility[t]
           /\ \A name \in Columns(spec, t) :
                  PgColumns(spec, t)[name] = PgType(Column(spec, t, name))
           /\ \A name \in DOMAIN Compatibility[t] \ Columns(spec, t) :
                  PgColumns(spec, t)[name] = "text"
<1> DEFINE own  == [name \in Columns(spec, t) |-> Column(spec, t, name)]
           more == [name \in DOMAIN Compatibility[t] |->
                       [type |-> Compatibility[t][name], nullable |-> TRUE]]
<1>1. Parsed(spec, t) = Completed(own, more)
  BY DEF Parsed
<1>2. Parsed(spec, t) = [x \in Columns(spec, t) \cup DOMAIN Compatibility[t] |->
                            IF x \in Columns(spec, t) THEN own[x] ELSE more[x]]
  BY <1>1 DEF Completed
<1>3. PgColumns(spec, t) = [x \in Columns(spec, t) \cup DOMAIN Compatibility[t] |->
                            PgType(IF x \in Columns(spec, t) THEN own[x] ELSE more[x])]
  BY <1>2 DEF PgColumns
<1>4. \A x \in DOMAIN Compatibility[t] : PgType(more[x]) = "text"
  BY DEF PgType
<1> HIDE DEF more
<1>5. QED
  BY <1>3, <1>4

\* Whatever document the column is of, it takes the values of any that has the field.
LEMMA ColumnsAgree ==
    ASSUME NEW c \in Doc, NEW d \in Doc,
           NEW t \in SyncableTables(Specs[c]) \cap SyncableTables(Specs[d]),
           NEW name \in DOMAIN PgColumns(Specs[c], t), name \in Columns(Specs[d], t)
    PROVE  Values(Specs[d], t, name) \subseteq Accepts[PgColumns(Specs[c], t)[name]]
<1>1. WellFormed(Specs[c], Depths[c]) /\ WellFormed(Specs[d], Depths[d])
  BY CatalogAssumption DEF CatalogAssumption
<1> DEFINE i == Column(Specs[c], t, name)
           j == Column(Specs[d], t, name)
<1>2. /\ i \in Inference /\ j \in Inference
      /\ Values(Specs[d], t, name) \subseteq Fit(j)
  BY <1>1, ColumnFits
<1>3. CASE name \in Columns(Specs[c], t)
  <2>1. i.type = j.type
    BY <1>3, StableTypes DEF StableTypes
  <2>2. PgColumns(Specs[c], t)[name] = PgType(i)
    BY <1>3, PgColumnsAre
  <2> HIDE DEF i, j
  <2>3. Base[i.type] \cup {"null"} \subseteq Accepts[PgType(i)]
    BY <1>2, TypeAccepts
  <2>4. Fit(j) \subseteq Base[j.type] \cup {"null"}
    BY DEF Fit
  <2>5. QED
    BY <1>2, <2>1, <2>2, <2>3, <2>4
<1>4. CASE name \notin Columns(Specs[c], t)
  <2>1. PgColumns(Specs[c], t)[name] = "text"
    BY <1>4, PgColumnsAre
  <2> HIDE DEF i, j
  <2>2. Base[j.type] \subseteq Solid
    BY <1>2, BasesAre DEF Inference
  <2>3. Fit(j) \subseteq Base[j.type] \cup {"null"}
    BY DEF Fit
  <2>4. QED
    BY <1>2, <2>1, <2>2, <2>3, AcceptsAre
<1>5. QED
  BY <1>3, <1>4

\* Every stream has what a sync needs.
LEMMA StreamsAre ==
    ASSUME NEW spec, NEW depth, WellFormed(spec, depth)
    PROVE  /\ IsComplete(spec) /\ Streams(spec) \subseteq SyncableTables(spec)
           /\ Streams(spec) \subseteq Range(TableOf)
<1>1. Streams(spec) \subseteq SyncableTables(spec) /\ Streams(spec) \subseteq Endpoints(spec)
  BY DEF Streams, Registry
<1>2. Ghosts(spec) = {}
  BY DEF Ghosts, Registry, ParsedTables
<1>3. ASSUME NEW t \in SyncableTables(spec)
      PROVE  /\ t \in Range(TableOf) /\ Sources(spec, t) # {}
             /\ \E r \in WebhookUpdatableIds(spec) : TableOf[r] = t
  <2>1. PICK r \in ListableIds(spec) \cap WebhookUpdatableIds(spec) : TableOf[r] = t
    BY DEF SyncableTables
  <2>2. PICK path \in ListPaths(spec) : r = Resource(spec, path)
    BY <2>1 DEF ListableIds
  <2> DEFINE n == path.items
  <2>3. n \in spec.named /\ spec.nodes[n].kind # "ref" /\ spec.nodes[n].resource # ""
    BY <2>2 DEF ListPaths, Listed
  <2>4. n \in DOMAIN spec.nodes
    BY <2>3, NodesAre
  <2>5. r \in DOMAIN TableOf
    BY <2>2, <2>3, <2>4, NodeIs DEF Resource
  <2>6. Resolved(spec, n) = n
    BY <2>3, <2>4, ResolvedIs
  <2>7. n \in Sources(spec, t)
    BY <2>1, <2>2, <2>3, <2>5, <2>6 DEF Sources, Resource
  <2>8. t \in Range(TableOf)
    BY <2>1, <2>5 DEF Range
  <2>9. QED
    BY <2>1, <2>7, <2>8
<1>4. \A t \in Streams(spec) : EndpointsOf(spec, t) # {}
  BY <1>1 DEF Endpoints
<1>5. QED
  BY <1>1, <1>2, <1>3, <1>4 DEF IsComplete, Complete

-----------------------------------------------------------------------------
(* The invariant.                                                           *)

Accounts == {k.account : k \in Task}
Steps    == {"idle", "cache", "cdn", "github", "write", "fill", "parse", "schema", "tables"}
Catalogs == {<<>>} \cup {CatalogOf(d) : d \in Doc}

Works == [at : Steps, task : Task, spec : Doc \cup {None}, catalog : Catalogs,
          left : SUBSET Range(TableOf), lost : BOOLEAN]

Has(tables, spec, t) == t \in DOMAIN tables /\ Columns(spec, t) \subseteq DOMAIN tables[t].columns

\* What a setup knows of its document and has done of it.
WorkSound(w, tables) ==
    /\ w.at \in {"parse", "schema", "tables", "write", "fill"} => w.spec \in Doc
    /\ w.at \in {"schema", "tables"} => w.catalog = CatalogOf(w.spec)
    /\ w.at # "tables" => w.left = {}
    /\ w.at = "tables" =>
        /\ w.left \subseteq Streams(Specs[w.spec])
        /\ ~ w.lost => \A t \in Streams(Specs[w.spec]) \ w.left : Has(tables, Specs[w.spec], t)

\* Every column of a table is as some document has it, and its rows are of its account.
IsTable(tables, t) ==
    /\ tables[t] = [columns |-> tables[t].columns, account |-> tables[t].account,
                    rows    |-> tables[t].rows]
    /\ tables[t].account \in Accounts /\ tables[t].rows \subseteq {tables[t].account}
    /\ \A name \in DOMAIN tables[t].columns : \E c \in Doc :
        /\ t \in Streams(Specs[c]) /\ name \in DOMAIN PgColumns(Specs[c], t)
        /\ tables[t].columns[name] = PgColumns(Specs[c], t)[name]

\* What is ready are records of some document, and its tables are there.
IsReady(tables, values) ==
    \E d \in Doc : /\ values = Conforming(Specs[d])
                   /\ \A t \in Streams(Specs[d]) : Has(tables, Specs[d], t)

Files ==
    /\ file \in [Version -> Doc \cup {None, Torn}] /\ head \in Doc
    /\ memory \in [Process -> [Version -> Doc \cup {None}]]
    /\ schema \in BOOLEAN /\ (~ schema => table = <<>>)
Setups == work \in [Process -> Works] /\ \A p \in Process : WorkSound(work[p], table)
TablesAre == \A t \in DOMAIN table : IsTable(table, t)
ReadyAre  == \A values \in ready : IsReady(table, values)

CatalogInv == Files /\ Setups /\ TablesAre /\ ReadyAre

LEMMA ConstantsAre ==
    /\ Task # {} /\ Len(Specs) \in Nat \ {0} /\ 1 \in Doc /\ None \notin Doc
    /\ Torn \notin Doc /\ Torn # None
    /\ \A t \in Task : t.version \in Version /\ t.account \in Accounts
    /\ \A t \in Task : Cdn[t.version] \in Doc \cup {None} /\ Dated[t.version] \in Doc \cup {None}
    /\ \A d \in Doc : WellFormed(Specs[d], Depths[d])
<1>1. /\ Task # {} /\ Len(Specs) \in Nat \ {0}
      /\ \A t \in Task : {Cdn[t.version], Dated[t.version]} \subseteq Doc \cup {0}
      /\ \A d \in Doc : WellFormed(Specs[d], Depths[d])
  BY CatalogAssumption DEF CatalogAssumption
<1>2. 1 \in Doc /\ None \notin Doc /\ Torn \notin Doc /\ Torn # None
  BY <1>1 DEF Doc, None, Torn
<1>3. \A t \in Task : t.version \in Version /\ t.account \in Accounts
  BY DEF Version, Accounts
<1>4. \A t \in Task : Cdn[t.version] \in Doc \cup {None} /\ Dated[t.version] \in Doc \cup {None}
  BY <1>1 DEF None
<1>5. QED
  BY <1>1, <1>2, <1>3, <1>4

\* The parts of a setup that the steps change.
LEMMA NoWorkIs ==
    /\ NoWork \in Works
    /\ \A tables : WorkSound(NoWork, tables)
<1>1. (CHOOSE t \in Task : TRUE) \in Task
  BY ConstantsAre
<1>2. NoWork \in Works
  BY <1>1 DEF NoWork, Works, Steps, Catalogs
<1>3. QED
  BY <1>2 DEF NoWork, WorkSound

LEMMA WorkIs ==
    ASSUME NEW w \in Works
    PROVE  /\ w.at \in Steps /\ w.task \in Task /\ w.spec \in Doc \cup {None}
           /\ w.catalog \in Catalogs /\ w.left \subseteq Range(TableOf) /\ w.lost \in BOOLEAN
           /\ w.task.version \in Version /\ w.task.account \in Accounts
  BY ConstantsAre DEF Works

LEMMA StreamsOf ==
    ASSUME NEW d \in Doc
    PROVE  /\ DOMAIN CatalogOf(d) = Streams(Specs[d]) /\ Streams(Specs[d]) \subseteq Range(TableOf)
           /\ Streams(Specs[d]) \subseteq SyncableTables(Specs[d]) /\ IsComplete(Specs[d])
           /\ CatalogOf(d) \in Catalogs
           /\ \A t \in Streams(Specs[d]) : CatalogOf(d)[t] = PgColumns(Specs[d], t)
           /\ Ghosts(Specs[d]) = {}
           /\ DOMAIN Conforming(Specs[d]) = Streams(Specs[d])
  BY ConstantsAre, StreamsAre DEF CatalogOf, Catalogs, IsComplete, Conforming

\* A process does a step of its setup that leaves the tables alone.
LEMMA SetupChanges ==
    ASSUME Setups, NEW p \in Process, NEW w \in Works, WorkSound(w, table),
           work' = [work EXCEPT ![p] = w], table' = table
    PROVE  Setups'
<1>1. work' \in [Process -> Works]
  BY DEF Setups
<1>2. \A q \in Process : work'[q] = IF q = p THEN w ELSE work[q]
  BY DEF Setups
<1>3. \A q \in Process : WorkSound(work'[q], table')
  <2>1. \A q \in Process : WorkSound(work[q], table)
    BY DEF Setups
  <2>2. QED
    BY <1>2, <2>1
<1>4. QED
  BY <1>1, <1>3 DEF Setups

LEMMA GoesIs ==
    ASSUME Setups, NEW p \in Process, NEW at \in Steps,
           at \in {"idle", "cache", "cdn", "github"} \/ (at \in {"write", "fill", "parse"} /\ work[p].spec \in Doc),
           work[p].at \notin {"tables"}, Goes(p, at), table' = table
    PROVE  Setups'
<1> DEFINE w == [work[p] EXCEPT !.at = at]
<1>1. work[p] \in Works /\ WorkSound(work[p], table)
  BY DEF Setups
<1>2. w \in Works
  BY <1>1 DEF Works
<1>3. w.at = at /\ w.spec = work[p].spec /\ w.left = work[p].left
  BY <1>1 DEF Works
<1>4. WorkSound(w, table)
  BY <1>1, <1>3 DEF WorkSound
<1>5. work' = [work EXCEPT ![p] = w]
  BY DEF Goes
<1> HIDE DEF w
<1>6. QED
  BY <1>2, <1>4, <1>5, SetupChanges

LEMMA FoundIs ==
    ASSUME Setups, NEW p \in Process, NEW at \in {"write", "parse"}, NEW d \in Doc,
           work[p].at \notin {"tables"}, Found(p, d, at), table' = table
    PROVE  Setups'
<1> DEFINE w == [work[p] EXCEPT !.spec = d, !.at = at]
<1>1. work[p] \in Works /\ WorkSound(work[p], table)
  BY DEF Setups
<1>2. w \in Works
  BY <1>1 DEF Works, Steps
<1>3. w.at = at /\ w.spec = d /\ w.left = work[p].left
  BY <1>1 DEF Works
<1>4. WorkSound(w, table)
  BY <1>1, <1>3 DEF WorkSound
<1>5. work' = [work EXCEPT ![p] = w]
  BY <1>1 DEF Found, Works, Setups
<1> HIDE DEF w
<1>6. QED
  BY <1>2, <1>4, <1>5, SetupChanges

LEMMA FailsIs ==
    ASSUME Setups, NEW p \in Process, Fails(p), table' = table
    PROVE  Setups'
  BY NoWorkIs, SetupChanges DEF Fails

-----------------------------------------------------------------------------
(* discover.                                                                *)

\* What the steps of discover leave alone.
LEMMA TablesUntouched ==
    ASSUME TablesAre, ReadyAre, table' = table, ready' = ready
    PROVE  TablesAre' /\ ReadyAre'
  BY DEF TablesAre, ReadyAre

LEMMA BeginKeeps ==
    ASSUME CatalogInv, NEW p \in Process, NEW task \in Task, Begin(p, task)
    PROVE  CatalogInv'
<1> DEFINE known == memory[p][task.version]
           todo  == [NoWork EXCEPT !.task = task]
           w == IF known # None THEN [todo EXCEPT !.at = "schema", !.spec = known, !.catalog = CatalogOf(known)]
                ELSE IF task.version = Bundled THEN [todo EXCEPT !.at = "parse", !.spec = 1]
                ELSE [todo EXCEPT !.at = "cache"]
<1>1. UNCHANGED <<file, head, memory, schema, table, ready>> /\ work' = [work EXCEPT ![p] = w]
  BY DEF Begin
<1>2. known \in Doc \cup {None}
  BY ConstantsAre DEF CatalogInv, Files
<1>3. todo \in Works /\ todo.left = {} /\ todo.at = "idle"
  BY NoWorkIs DEF Works, NoWork
<1> HIDE DEF todo, known
<1>4. w \in Works /\ WorkSound(w, table)
  <2>1. CASE known # None
    <3>1. known \in Doc /\ CatalogOf(known) \in Catalogs
      BY <2>1, <1>2, StreamsOf
    <3>2. /\ w \in Works /\ w.at = "schema" /\ w.spec = known /\ w.catalog = CatalogOf(known)
          /\ w.left = {}
      BY <2>1, <3>1, <1>3 DEF Works, Steps
    <3>3. QED
      BY <3>1, <3>2 DEF WorkSound
  <2>2. CASE known = None /\ task.version = Bundled
    <3>1. w \in Works /\ w.at = "parse" /\ w.spec = 1 /\ w.left = {}
      BY <2>2, <1>3, ConstantsAre DEF Works, Steps
    <3>2. QED
      BY <3>1, ConstantsAre DEF WorkSound
  <2>3. CASE known = None /\ task.version # Bundled
    <3>1. w \in Works /\ w.at = "cache" /\ w.left = {}
      BY <2>3, <1>3 DEF Works, Steps
    <3>2. QED
      BY <3>1 DEF WorkSound
  <2>4. QED
    BY <2>1, <2>2, <2>3
<1> HIDE DEF w
<1>5. Setups'
  BY <1>1, <1>4, SetupChanges DEF CatalogInv
<1>6. Files'
  BY <1>1 DEF CatalogInv, Files
<1>7. QED
  BY <1>1, <1>5, <1>6, TablesUntouched DEF CatalogInv

LEMMA DiscoverKeeps ==
    ASSUME CatalogInv, NEW p \in Process,
           ReadCache(p) \/ FetchFromCdn(p) \/ FetchFromGithub(p) \/ OpenCache(p) \/ FillCache(p)
    PROVE  CatalogInv'
<1>1. UNCHANGED <<head, memory, schema, table, ready>>
  BY DEF ReadCache, FetchFromCdn, FetchFromGithub, OpenCache, FillCache
<1>2. work[p] \in Works /\ WorkSound(work[p], table) /\ Setups /\ V(p) \in Version
  BY WorkIs DEF CatalogInv, Setups, V
<1>3. file[V(p)] \in Doc \cup {None, Torn} /\ head \in Doc
  BY <1>2 DEF CatalogInv, Files
<1>4. Cdn[V(p)] \in Doc \cup {None} /\ Dated[V(p)] \in Doc \cup {None}
  BY <1>2, ConstantsAre, WorkIs DEF V
<1>5. {"cdn", "github", "write", "fill", "parse"} \subseteq Steps
  BY DEF Steps
<1>6. CASE ReadCache(p)
  <2>1. ASSUME Usable(file[V(p)])
        PROVE  Setups'
    BY <2>1, <1>1, <1>2, <1>3, <1>6, FoundIs DEF ReadCache, Usable
  <2>2. ASSUME ~ Usable(file[V(p)])
        PROVE  Setups'
    BY <2>2, <1>1, <1>2, <1>5, <1>6, GoesIs DEF ReadCache
  <2>3. Setups' /\ file' = file
    BY <2>1, <2>2, <1>6 DEF ReadCache
  <2>4. QED
    BY <2>3, <1>1, TablesUntouched DEF CatalogInv, Files
<1>7. CASE FetchFromCdn(p)
  <2>1. ASSUME Cdn[V(p)] # None /\ Found(p, Cdn[V(p)], "write")
        PROVE  Setups'
    BY <2>1, <1>1, <1>2, <1>4, <1>7, FoundIs DEF FetchFromCdn
  <2>2. ASSUME Goes(p, "github")
        PROVE  Setups'
    BY <2>2, <1>1, <1>2, <1>5, <1>7, GoesIs DEF FetchFromCdn
  <2>3. Setups' /\ file' = file
    BY <2>1, <2>2, <1>7 DEF FetchFromCdn
  <2>4. QED
    BY <2>3, <1>1, TablesUntouched DEF CatalogInv, Files
<1>8. CASE FetchFromGithub(p)
  <2> DEFINE d == IF Dated[V(p)] # None THEN Dated[V(p)] ELSE head
  <2>0. d \in Doc
    BY <1>3, <1>4
  <2>1. ASSUME Found(p, d, "write")
        PROVE  Setups'
    BY <2>0, <2>1, <1>1, <1>2, <1>8, FoundIs DEF FetchFromGithub
  <2>2. ASSUME Fails(p)
        PROVE  Setups'
    BY <2>2, <1>1, <1>2, FailsIs
  <2>3. Setups' /\ file' = file
    BY <2>1, <2>2, <1>8 DEF FetchFromGithub
  <2>4. QED
    BY <2>3, <1>1, TablesUntouched DEF CatalogInv, Files
<1>9. CASE OpenCache(p)
  <2>0. work[p].at = "write" /\ work[p].spec \in Doc
    BY <1>2, <1>9 DEF OpenCache, WorkSound
  <2>1. ASSUME Goes(p, "fill")
        PROVE  Setups'
    BY <2>0, <2>1, <1>1, <1>2, <1>5, GoesIs
  <2>2. ASSUME Goes(p, "parse")
        PROVE  Setups'
    BY <2>0, <2>2, <1>1, <1>2, <1>5, GoesIs
  <2>3. Setups' /\ (file' = file \/ file' = [file EXCEPT ![V(p)] = Torn])
    BY <2>1, <2>2, <1>9 DEF OpenCache
  <2>4. file' \in [Version -> Doc \cup {None, Torn}]
    BY <2>3 DEF CatalogInv, Files
  <2>5. QED
    BY <2>3, <2>4, <1>1, TablesUntouched DEF CatalogInv, Files
<1>10. CASE FillCache(p)
  <2>0. work[p].at = "fill" /\ work[p].spec \in Doc
    BY <1>2, <1>10 DEF FillCache, WorkSound
  <2>1. Goes(p, "parse") /\ (file' = file \/ file' = [file EXCEPT ![V(p)] = work[p].spec])
    BY <1>10 DEF FillCache
  <2>2. Setups'
    BY <2>0, <2>1, <1>1, <1>2, <1>5, GoesIs
  <2>3. file' \in [Version -> Doc \cup {None, Torn}]
    BY <2>0, <2>1 DEF CatalogInv, Files
  <2>4. QED
    BY <2>2, <2>3, <1>1, TablesUntouched DEF CatalogInv, Files
<1>11. QED
  BY <1>6, <1>7, <1>8, <1>9, <1>10

LEMMA ParseKeeps ==
    ASSUME CatalogInv, NEW p \in Process, Parse(p)
    PROVE  CatalogInv'
<1>1. UNCHANGED <<file, head, schema, table, ready>> /\ work[p].at = "parse"
  BY DEF Parse
<1>2. work[p] \in Works /\ WorkSound(work[p], table) /\ Setups /\ V(p) \in Version
  BY WorkIs DEF CatalogInv, Setups, V
<1>3. work[p].spec \in Doc /\ work[p].left = {}
  BY <1>1, <1>2 DEF WorkSound
<1> DEFINE d == work[p].spec
           w == [work[p] EXCEPT !.at = "schema", !.catalog = CatalogOf(d)]
<1>4. Ghosts(Specs[d]) = {} /\ CatalogOf(d) \in Catalogs
  BY <1>3, StreamsOf
<1>5. memory' = [memory EXCEPT ![p][V(p)] = d] /\ work' = [work EXCEPT ![p] = w]
  BY <1>2, <1>4 DEF Parse, Setups
<1>6. w \in Works
  BY <1>2, <1>4 DEF Works, Steps
<1>7. w.at = "schema" /\ w.spec = d /\ w.catalog = CatalogOf(d) /\ w.left = {}
  BY <1>2, <1>3 DEF Works
<1>8. WorkSound(w, table)
  BY <1>3, <1>7 DEF WorkSound
<1>9. Setups'
  <2> HIDE DEF w
  <2>1. QED
    BY <1>1, <1>2, <1>5, <1>6, <1>8, SetupChanges
<1>10. memory' \in [Process -> [Version -> Doc \cup {None}]]
  BY <1>2, <1>3, <1>5 DEF CatalogInv, Files
<1>11. QED
  BY <1>1, <1>9, <1>10, TablesUntouched DEF CatalogInv, Files

LEMMA DieKeeps ==
    ASSUME CatalogInv, NEW p \in Process, Die(p)
    PROVE  CatalogInv'
<1>1. /\ UNCHANGED <<file, head, schema, table, ready>> /\ Fails(p)
      /\ memory' = [memory EXCEPT ![p] = [v \in Version |-> None]]
  BY DEF Die
<1>2. Setups'
  BY <1>1, FailsIs DEF CatalogInv
<1>3. memory' \in [Process -> [Version -> Doc \cup {None}]]
  BY <1>1 DEF CatalogInv, Files
<1>4. QED
  BY <1>1, <1>2, <1>3, TablesUntouched DEF CatalogInv, Files

LEMMA PublishKeeps ==
    ASSUME CatalogInv, Publish
    PROVE  CatalogInv'
<1>1. UNCHANGED <<file, memory, work, schema, table, ready>> /\ head < Len(Specs) /\ head' = head + 1
  BY DEF Publish
<1>2. head' \in Doc
  BY <1>1, ConstantsAre DEF CatalogInv, Files, Doc
<1>3. Setups'
  BY <1>1 DEF CatalogInv, Setups
<1>4. QED
  BY <1>1, <1>2, <1>3, TablesUntouched DEF CatalogInv, Files

-----------------------------------------------------------------------------
(* setup.                                                                   *)

\* the tables there are stay, with all their columns
Grown == \A t \in DOMAIN table : /\ t \in DOMAIN table'
                                 /\ DOMAIN table[t].columns \subseteq DOMAIN table'[t].columns

LEMMA GrownKeeps ==
    ASSUME Grown
    PROVE  /\ \A spec, t : Has(table, spec, t) => Has(table', spec, t)
           /\ \A w : WorkSound(w, table) => WorkSound(w, table')
           /\ ready' = ready /\ ReadyAre => ReadyAre'
<1>1. \A spec, t : Has(table, spec, t) => Has(table', spec, t)
  BY DEF Grown, Has
<1>2. \A w : WorkSound(w, table) => WorkSound(w, table')
  BY <1>1 DEF WorkSound
<1>3. \A values : IsReady(table, values) => IsReady(table', values)
  BY <1>1 DEF IsReady
<1>4. QED
  BY <1>1, <1>2, <1>3 DEF ReadyAre

LEMMA CheckEnumsKeeps ==
    ASSUME CatalogInv, NEW p \in Process, CheckEnums(p)
    PROVE  CatalogInv'
<1>1. /\ UNCHANGED <<file, head, memory, table, ready>> /\ work[p].at = "schema"
      /\ schema' = TRUE
  BY DEF CheckEnums
<1>2. work[p] \in Works /\ WorkSound(work[p], table) /\ Setups
  BY DEF CatalogInv, Setups
<1>3. work[p].spec \in Doc /\ work[p].catalog = CatalogOf(work[p].spec)
  BY <1>1, <1>2 DEF WorkSound
<1> DEFINE d == work[p].spec
           w == [work[p] EXCEPT !.at = "tables", !.left = DOMAIN Wanted(p)]
<1>4. DOMAIN Wanted(p) = Streams(Specs[d]) /\ Streams(Specs[d]) \subseteq Range(TableOf)
  BY <1>3, StreamsOf DEF Wanted
<1>5. w \in Works /\ w.at = "tables" /\ w.spec = d /\ w.catalog = CatalogOf(d)
      /\ w.left = Streams(Specs[d])
  BY <1>2, <1>3, <1>4 DEF Works, Steps
<1> HIDE DEF d
<1>6. WorkSound(w, table)
  BY <1>3, <1>5 DEF WorkSound, d
<1>7. work' = [work EXCEPT ![p] = w] \/ Fails(p)
  BY <1>2 DEF CheckEnums, Setups
<1> HIDE DEF w
<1>8. Setups'
  BY <1>1, <1>2, <1>5, <1>6, <1>7, SetupChanges, FailsIs
<1>9. QED
  BY <1>1, <1>8, TablesUntouched DEF CatalogInv, Files

LEMMA CollideKeeps ==
    ASSUME CatalogInv, NEW p \in Process, Collide(p)
    PROVE  CatalogInv'
<1>1. UNCHANGED <<file, head, memory, schema, table, ready>> /\ Fails(p)
  BY DEF Collide
<1>2. Setups'
  BY <1>1, FailsIs DEF CatalogInv
<1>3. QED
  BY <1>1, <1>2, TablesUntouched DEF CatalogInv, Files

LEMMA EndSetupKeeps ==
    ASSUME CatalogInv, NEW p \in Process, EndSetup(p)
    PROVE  CatalogInv'
<1>1. UNCHANGED <<file, head, memory, schema, table>> /\ Fails(p)
      /\ work[p].at = "tables" /\ work[p].left = {}
  BY DEF EndSetup
<1>2. Setups'
  BY <1>1, FailsIs DEF CatalogInv
<1>3. work[p] \in Works /\ WorkSound(work[p], table)
  BY DEF CatalogInv, Setups
<1> DEFINE d == work[p].spec
<1>4. d \in Doc /\ (~ work[p].lost => \A t \in Streams(Specs[d]) : Has(table, Specs[d], t))
  BY <1>1, <1>3 DEF WorkSound
<1>5. ~ work[p].lost => IsReady(table, Conforming(Specs[d]))
  BY <1>4 DEF IsReady
<1>6. \A values \in ready' : values \in ready \/ (~ work[p].lost /\ values = Conforming(Specs[d]))
  BY DEF EndSetup
<1>7. \A values \in ready' : IsReady(table', values)
  BY <1>1, <1>5, <1>6 DEF CatalogInv, ReadyAre
<1>8. TablesAre'
  BY <1>1 DEF CatalogInv, TablesAre
<1>9. QED
  BY <1>1, <1>2, <1>7, <1>8 DEF CatalogInv, Files, ReadyAre

LEMMA TeardownKeeps ==
    ASSUME CatalogInv, Teardown
    PROVE  CatalogInv'
<1>1. /\ UNCHANGED <<file, head, memory>> /\ schema' = FALSE /\ table' = <<>> /\ ready' = {}
      /\ work' = [p \in Process |-> [work[p] EXCEPT !.lost = @ \/ work[p].at = "tables"]]
  BY DEF Teardown
<1>2. DOMAIN table' = {}
  BY <1>1
<1>3. ASSUME NEW p \in Process
      PROVE  work'[p] \in Works /\ WorkSound(work'[p], table')
  <2>1. work[p] \in Works /\ WorkSound(work[p], table)
    BY DEF CatalogInv, Setups
  <2> DEFINE gone == work[p].lost \/ work[p].at = "tables"
             w    == [work[p] EXCEPT !.lost = gone]
  <2>2. work'[p] = w /\ gone \in BOOLEAN
    BY <1>1
  <2>3. w \in Works
    BY <2>1, <2>2 DEF Works
  <2>4. /\ w.at = work[p].at /\ w.spec = work[p].spec /\ w.catalog = work[p].catalog
        /\ w.left = work[p].left /\ w.lost = gone
    BY <2>1 DEF Works
  <2> HIDE DEF w
  <2>5. WorkSound(w, table')
    BY <2>1, <2>4 DEF WorkSound
  <2>6. QED
    BY <2>2, <2>3, <2>5
<1>4. Setups'
  BY <1>1, <1>3 DEF Setups
<1>5. QED
  BY <1>1, <1>2, <1>4 DEF CatalogInv, Files, TablesAre, ReadyAre

\* A table after a setup of document d has come by.
LEMMA MigratedIs ==
    ASSUME CatalogInv, NEW p \in Process, NEW t \in work[p].left, work[p].at = "tables",
           table' = [s \in DOMAIN table \cup {t} |-> IF s = t THEN Migrated(p, t) ELSE table[s]]
    PROVE  /\ Has(table', Specs[work[p].spec], t) /\ Grown /\ TablesAre'
           /\ \A s \in DOMAIN table :
                  /\ table[s].rows \subseteq table'[s].rows
                  /\ \A name \in DOMAIN table[s].columns :
                         table'[s].columns[name] = table[s].columns[name]
<1> DEFINE d == work[p].spec
           wanted == PgColumns(Specs[d], t)
<1>1. work[p] \in Works /\ WorkSound(work[p], table)
  BY DEF CatalogInv, Setups
<1>2. d \in Doc /\ work[p].catalog = CatalogOf(d) /\ t \in Streams(Specs[d])
  BY <1>1 DEF WorkSound
<1>3. Wanted(p)[t] = wanted
  BY <1>2, StreamsOf DEF Wanted
<1>4. Columns(Specs[d], t) \subseteq DOMAIN wanted
  BY PgColumnsAre
<1>5. \A s \in DOMAIN table : IsTable(table, s)
  BY DEF CatalogInv, TablesAre
<1> HIDE DEF d, wanted
<1> DEFINE new == Migrated(p, t)
<1>6. CASE t \in DOMAIN table
  <2> DEFINE was == table[t]
  <2>1. /\ was = [columns |-> was.columns, account |-> was.account, rows |-> was.rows]
        /\ was.account \in Accounts /\ was.rows \subseteq {was.account}
    BY <1>5, <1>6 DEF IsTable
  <2>2. new = [was EXCEPT !.columns = Completed(was.columns, wanted)]
    BY <1>3, <1>6 DEF Migrated
  <2>3. new = [columns |-> Completed(was.columns, wanted), account |-> was.account, rows |-> was.rows]
    <3> DEFINE c == was.columns
               a == was.account
               r == was.rows
    <3>1. was = [columns |-> c, account |-> a, rows |-> r]
      BY <2>1
    <3>2. new = [was EXCEPT !.columns = Completed(c, wanted)]
      BY <2>2
    <3> HIDE DEF c, a, r, was, new
    <3>3. new = [columns |-> Completed(c, wanted), account |-> a, rows |-> r]
      BY <3>1, <3>2
    <3>4. QED
      BY <3>3 DEF c, a, r
  <2> DEFINE cols == Completed(was.columns, wanted)
  <2>4. /\ DOMAIN cols = DOMAIN was.columns \cup DOMAIN wanted
        /\ \A name \in DOMAIN cols :
              cols[name] = IF name \in DOMAIN was.columns THEN was.columns[name] ELSE wanted[name]
    BY DEF Completed
  <2>5. \A name \in DOMAIN was.columns : \E c \in Doc :
            /\ t \in Streams(Specs[c]) /\ name \in DOMAIN PgColumns(Specs[c], t)
            /\ was.columns[name] = PgColumns(Specs[c], t)[name]
    BY <1>5, <1>6 DEF IsTable
  <2> HIDE DEF cols, new, was
  <2>6. table' = [s \in DOMAIN table |-> IF s = t THEN new ELSE table[s]]
    BY <1>6 DEF new
  <2>7. new.columns = cols /\ new.account = was.account /\ new.rows = was.rows
    BY <2>3 DEF cols
  <2>8. table'[t] = new /\ \A s \in DOMAIN table : s # t => table'[s] = table[s]
    BY <2>6, <1>6
  <2>9. new = [columns |-> new.columns, account |-> new.account, rows |-> new.rows]
    BY <2>3, <2>7 DEF cols
  <2>10. IsTable(table', t)
    <3>1. ASSUME NEW name \in DOMAIN new.columns
          PROVE  \E c \in Doc : /\ t \in Streams(Specs[c]) /\ name \in DOMAIN PgColumns(Specs[c], t)
                                /\ new.columns[name] = PgColumns(Specs[c], t)[name]
      <4>1. CASE name \in DOMAIN was.columns
        BY <4>1, <2>4, <2>5, <2>7
      <4>2. CASE name \notin DOMAIN was.columns
        <5>1. name \in DOMAIN wanted /\ new.columns[name] = wanted[name]
          BY <4>2, <2>4, <2>7
        <5>2. QED
          BY <5>1, <1>2 DEF wanted
      <4>3. QED
        BY <4>1, <4>2
    <3>2. new.account \in Accounts /\ new.rows \subseteq {new.account}
      BY <2>1, <2>7
    <3>3. QED
      BY <3>1, <3>2, <2>8, <2>9 DEF IsTable
  <2>11. \A s \in DOMAIN table' : IsTable(table', s)
    <3>1. \A s \in DOMAIN table : s # t => IsTable(table', s)
      BY <1>5, <2>8 DEF IsTable
    <3>2. QED
      BY <2>6, <2>10, <3>1
  <2>12. t \in DOMAIN table' /\ Has(table', Specs[d], t)
    BY <1>4, <1>6, <2>4, <2>6, <2>7, <2>8 DEF Has
  <2>13. Grown
    BY <2>4, <2>6, <2>7, <2>8 DEF Grown, was
  <2>14. \A s \in DOMAIN table :
            /\ table[s].rows \subseteq table'[s].rows
            /\ \A name \in DOMAIN table[s].columns : table'[s].columns[name] = table[s].columns[name]
    BY <2>4, <2>7, <2>8 DEF was
  <2>15. QED
    BY <2>11, <2>12, <2>13, <2>14 DEF TablesAre, d
<1>7. CASE t \notin DOMAIN table
  <2>1. new = [columns |-> wanted, account |-> work[p].task.account, rows |-> {}]
    BY <1>3, <1>7 DEF Migrated, Created
  <2>2. work[p].task.account \in Accounts
    BY <1>1, WorkIs
  <2> HIDE DEF new
  <2>3. table' = [s \in DOMAIN table \cup {t} |-> IF s = t THEN new ELSE table[s]]
    BY DEF new
  <2>4. /\ table'[t] = new /\ \A s \in DOMAIN table : table'[s] = table[s]
        /\ DOMAIN table' = DOMAIN table \cup {t}
    BY <2>3, <1>7
  <2>5. new.columns = wanted /\ new.account \in Accounts /\ new.rows = {}
    BY <2>1, <2>2
  <2>6. new = [columns |-> new.columns, account |-> new.account, rows |-> new.rows]
    BY <2>1
  <2>7. IsTable(table', t)
    BY <1>2, <2>4, <2>5, <2>6 DEF IsTable, wanted
  <2>8. \A s \in DOMAIN table : IsTable(table', s)
    BY <1>5, <2>4 DEF IsTable
  <2>9. TablesAre'
    BY <2>4, <2>7, <2>8 DEF TablesAre
  <2>10. Has(table', Specs[d], t) /\ Grown
    BY <1>4, <2>4, <2>5 DEF Has, Grown
  <2>11. QED
    BY <2>4, <2>9, <2>10 DEF d
<1>8. QED
  BY <1>6, <1>7

LEMMA MigrateKeeps ==
    ASSUME CatalogInv, NEW p \in Process, NEW t, Migrate(p, t)
    PROVE  CatalogInv'
<1>1. /\ UNCHANGED <<file, head, memory, schema, ready>>
      /\ work[p].at = "tables" /\ t \in work[p].left
  BY DEF Migrate
<1>2. work[p] \in Works /\ WorkSound(work[p], table) /\ Setups
  BY DEF CatalogInv, Setups
<1>3. CASE schema
  <2> DEFINE w == [work[p] EXCEPT !.left = @ \ {t}]
             d == work[p].spec
  <2>1. table' = [s \in DOMAIN table \cup {t} |-> IF s = t THEN Migrated(p, t) ELSE table[s]]
    BY <1>3 DEF Migrate
  <2>2. Has(table', Specs[d], t) /\ Grown /\ TablesAre'
    BY <1>1, <2>1, MigratedIs
  <2>3. work' = [work EXCEPT ![p] = w]
    BY <1>2, <1>3 DEF Migrate, Setups
  <2>4. w \in Works
    BY <1>2 DEF Works
  <2>5. /\ w.at = "tables" /\ w.spec = d /\ w.catalog = work[p].catalog
        /\ w.left = work[p].left \ {t} /\ w.lost = work[p].lost
    BY <1>1, <1>2 DEF Works
  <2>6. WorkSound(work[p], table')
    BY <1>2, <2>2, GrownKeeps
  <2> HIDE DEF w, d
  <2>7. WorkSound(w, table')
    <3>1. /\ d \in Doc /\ work[p].catalog = CatalogOf(d) /\ work[p].left \subseteq Streams(Specs[d])
          /\ ~ work[p].lost =>
                 \A s \in Streams(Specs[d]) \ work[p].left : Has(table', Specs[d], s)
      BY <2>6, <1>1 DEF WorkSound, d
    <3>2. ~ w.lost => \A s \in Streams(Specs[d]) \ w.left : Has(table', Specs[d], s)
      BY <3>1, <2>2, <2>5
    <3>3. QED
      BY <3>1, <3>2, <2>5 DEF WorkSound
  <2>8. \A q \in Process : work'[q] = IF q = p THEN w ELSE work[q]
    BY <1>2, <2>3 DEF Setups
  <2>9. \A q \in Process : WorkSound(work[q], table')
    BY <1>2, <2>2, GrownKeeps DEF Setups
  <2>10. Setups'
    <3>1. work' \in [Process -> Works]
      BY <1>2, <2>3, <2>4 DEF Setups
    <3>2. QED
      BY <3>1, <2>7, <2>8, <2>9 DEF Setups
  <2>11. ReadyAre'
    BY <1>1, <2>2, GrownKeeps DEF CatalogInv
  <2>12. QED
    BY <1>1, <1>3, <2>2, <2>10, <2>11 DEF CatalogInv, Files
<1>4. CASE ~ schema
  <2>1. Fails(p) /\ table' = table
    BY <1>4 DEF Migrate
  <2>2. Setups'
    BY <1>2, <2>1, FailsIs
  <2>3. QED
    BY <1>1, <2>1, <2>2, TablesUntouched DEF CatalogInv, Files
<1>5. QED
  BY <1>3, <1>4

LEMMA WriteKeeps ==
    ASSUME CatalogInv, NEW task \in Task, NEW t \in DOMAIN table, Write(task, t)
    PROVE  /\ CatalogInv'
           /\ \A s \in DOMAIN table :
                  /\ s \in DOMAIN table' /\ table[s].rows \subseteq table'[s].rows
                  /\ table'[s].columns = table[s].columns
<1>1. /\ UNCHANGED <<file, head, memory, work, schema, ready>>
      /\ table[t].account = task.account
      /\ table' = [table EXCEPT ![t].rows = @ \cup {task.account}]
  BY DEF Write, AllowList
<1>2. \A s \in DOMAIN table : IsTable(table, s)
  BY DEF CatalogInv, TablesAre
<1> DEFINE c   == table[t].columns
           a   == table[t].account
           r   == table[t].rows
           new == [columns |-> c, account |-> a, rows |-> r \cup {a}]
<1>3. table[t] = [columns |-> c, account |-> a, rows |-> r]
  BY <1>2 DEF IsTable
<1>4. [table[t] EXCEPT !.rows = r \cup {a}] = new
  <2> DEFINE was == table[t]
  <2>1. was = [columns |-> c, account |-> a, rows |-> r]
    BY <1>3
  <2> HIDE DEF c, a, r, was
  <2>2. [was EXCEPT !.rows = r \cup {a}] = [columns |-> c, account |-> a, rows |-> r \cup {a}]
    BY <2>1
  <2>3. QED
    BY <2>2 DEF was
<1>5. table' = [table EXCEPT ![t] = new]
  BY <1>1, <1>4
<1>6. new.columns = c /\ new.account = a /\ new.rows = r \cup {a}
  OBVIOUS
<1>7. new = [columns |-> new.columns, account |-> new.account, rows |-> new.rows]
  OBVIOUS
<1> HIDE DEF new
<1>8. /\ DOMAIN table' = DOMAIN table /\ table'[t] = new
      /\ \A s \in DOMAIN table : s # t => table'[s] = table[s]
  BY <1>5
<1>9. IsTable(table', t)
  BY <1>2, <1>6, <1>7, <1>8 DEF IsTable
<1>10. \A s \in DOMAIN table : s # t => IsTable(table', s)
  BY <1>2, <1>8 DEF IsTable
<1>11. TablesAre'
  BY <1>8, <1>9, <1>10 DEF TablesAre
<1>12. \A s \in DOMAIN table :
          /\ s \in DOMAIN table' /\ table[s].rows \subseteq table'[s].rows
          /\ table'[s].columns = table[s].columns
  BY <1>6, <1>8
<1>13. Grown
  BY <1>12 DEF Grown
<1>14. Setups'
  BY <1>1, <1>13, GrownKeeps DEF CatalogInv, Setups
<1>15. ReadyAre'
  BY <1>1, <1>13, GrownKeeps DEF CatalogInv
<1>16. Files'
  <2>1. ~ schema => FALSE
    BY DEF CatalogInv, Files
  <2>2. QED
    BY <1>1, <2>1 DEF CatalogInv, Files
<1>17. QED
  BY <1>11, <1>12, <1>14, <1>15, <1>16 DEF CatalogInv

-----------------------------------------------------------------------------
(* The theorems.                                                            *)

LEMMA CatalogStarts == CatalogInit => CatalogInv
<1> SUFFICES ASSUME CatalogInit PROVE CatalogInv
  OBVIOUS
<1>1. Files
  BY ConstantsAre DEF CatalogInit, Files
<1>2. Setups
  BY NoWorkIs DEF CatalogInit, Setups
<1>3. DOMAIN table = {} /\ ready = {}
  BY DEF CatalogInit
<1>4. QED
  BY <1>1, <1>2, <1>3 DEF CatalogInv, TablesAre, ReadyAre

LEMMA CatalogSteps == CatalogInv /\ [CatalogNext]_catalogVars => CatalogInv'
<1> SUFFICES ASSUME CatalogInv, [CatalogNext]_catalogVars PROVE CatalogInv'
  OBVIOUS
<1>1. CASE UNCHANGED catalogVars
  BY <1>1 DEF catalogVars, CatalogInv, Files, Setups, TablesAre, ReadyAre
<1>2. CASE CatalogNext
  BY <1>2, PublishKeeps, TeardownKeeps, WriteKeeps, BeginKeeps, DiscoverKeeps, ParseKeeps,
     CheckEnumsKeeps, MigrateKeeps, CollideKeeps, EndSetupKeeps, DieKeeps DEF CatalogNext
<1>3. QED
  BY <1>1, <1>2

\* The invariant behind the two that follow, of every step of discover, setup,
\* write and teardown.
THEOREM CatalogInvariant == CatalogSpec => []CatalogInv
  BY CatalogStarts, CatalogSteps, PTL DEF CatalogSpec

LEMMA SpecsFollow == CatalogInv => SpecsAreSound
<1> SUFFICES ASSUME CatalogInv PROVE SpecsAreSound
  OBVIOUS
<1>1. \A p \in Process : work[p] \in Works /\ WorkSound(work[p], table)
  BY DEF CatalogInv, Setups
<1>2. ASSUME NEW p \in Process, work[p].left # {}
      PROVE  work[p].at = "tables" /\ work[p].left \subseteq DOMAIN Wanted(p)
  <2>1. work[p].at = "tables"
    BY <1>1, <1>2 DEF WorkSound
  <2>2. /\ work[p].spec \in Doc /\ work[p].catalog = CatalogOf(work[p].spec)
        /\ work[p].left \subseteq Streams(Specs[work[p].spec])
    BY <1>1, <2>1 DEF WorkSound
  <2>3. QED
    BY <2>1, <2>2, StreamsOf DEF Wanted
<1>3. \A values \in ready : DOMAIN values \subseteq Range(TableOf)
  BY StreamsOf DEF CatalogInv, ReadyAre, IsReady
<1>4. \A p \in Process : /\ work[p].task \in Task
                         /\ work[p].at \in {"parse", "schema", "tables", "write", "fill"} => work[p].spec \in Doc
  BY <1>1, WorkIs DEF WorkSound
<1>5. \A t \in DOMAIN table : table[t].account \in Accounts /\ table[t].rows \subseteq Accounts
  BY DEF CatalogInv, TablesAre, IsTable
<1>6. CatalogTyped
  BY <1>2, <1>3, <1>4, <1>5 DEF CatalogTyped, CatalogInv, Files, Accounts
<1>7. OnlyWholeSpecs
  <2> SUFFICES ASSUME NEW p \in Process PROVE Torn \notin {work[p].spec} \cup Range(memory[p])
    BY DEF OnlyWholeSpecs
  <2>1. work[p].spec \in Doc \cup {None}
    BY <1>1, WorkIs
  <2>2. Range(memory[p]) \subseteq Doc \cup {None}
    BY DEF Range, CatalogInv, Files
  <2>3. QED
    BY <2>1, <2>2, ConstantsAre
<1>8. StreamsAreComplete
  BY <1>4, StreamsOf DEF StreamsAreComplete
<1>9. QED
  BY <1>6, <1>7, <1>8 DEF SpecsAreSound

\* Whatever the documents say, whoever dies or overwrites the cache file: a setup
\* works from a whole spec, and each of its streams has a schema, an endpoint, a
\* key and events.
THEOREM SpecsStaySound == CatalogSpec => []SpecsAreSound
  BY CatalogInvariant, SpecsFollow, PTL

LEMMA TablesFollow == CatalogInv => TablesAreSound
<1> SUFFICES ASSUME CatalogInv PROVE TablesAreSound
  OBVIOUS
<1>1. \A t \in DOMAIN table : IsTable(table, t)
  BY DEF CatalogInv, TablesAre
<1>2. ReadyTablesFit
  <2> SUFFICES ASSUME NEW values \in ready, NEW t \in DOMAIN values
               PROVE  /\ t \in DOMAIN table
                      /\ \A name \in DOMAIN values[t] :
                          /\ name \in DOMAIN table[t].columns
                          /\ values[t][name] \subseteq Accepts[table[t].columns[name]]
    BY DEF ReadyTablesFit
  <2>1. PICK d \in Doc : /\ values = Conforming(Specs[d])
                         /\ \A s \in Streams(Specs[d]) : Has(table, Specs[d], s)
    BY DEF CatalogInv, ReadyAre, IsReady
  <2>2. t \in Streams(Specs[d])
    BY <2>1, StreamsOf
  <2>3. values[t] = [name \in Columns(Specs[d], t) |-> Values(Specs[d], t, name)]
    BY <2>1, <2>2 DEF Conforming, Values, Origins
  <2>4. t \in DOMAIN table /\ Columns(Specs[d], t) \subseteq DOMAIN table[t].columns
    BY <2>1, <2>2 DEF Has
  <2>5. ASSUME NEW name \in Columns(Specs[d], t)
        PROVE  Values(Specs[d], t, name) \subseteq Accepts[table[t].columns[name]]
    <3>1. PICK c \in Doc : /\ t \in Streams(Specs[c]) /\ name \in DOMAIN PgColumns(Specs[c], t)
                           /\ table[t].columns[name] = PgColumns(Specs[c], t)[name]
      BY <1>1, <2>4 DEF IsTable
    <3>2. t \in SyncableTables(Specs[c]) \cap SyncableTables(Specs[d])
      BY <2>2, <3>1, StreamsOf
    <3>3. QED
      BY <3>1, <3>2, ColumnsAgree
  <2>6. QED
    BY <2>3, <2>4, <2>5
<1>3. TenantsApart
  <2> SUFFICES ASSUME NEW t \in DOMAIN table PROVE Cardinality(table[t].rows) <= 1
    BY DEF TenantsApart
  <2> DEFINE a == table[t].account
  <2>1. table[t].rows \subseteq {a}
    BY <1>1 DEF IsTable
  <2>2. table[t].rows = {} \/ table[t].rows = {a}
    BY <2>1
  <2>3. Cardinality({}) = 0 /\ Cardinality({a}) = 1
    BY FS_EmptySet, FS_Singleton
  <2>4. QED
    BY <2>2, <2>3
<1>4. QED
  BY <1>2, <1>3 DEF TablesAreSound

\* Whatever setups, deaths, teardowns and new documents came before: the tables
\* of a setup that went through take every record that conforms to its document,
\* and no table holds rows of two accounts.
THEOREM TablesStaySound == CatalogSpec => []TablesAreSound
  BY CatalogInvariant, TablesFollow, PTL

\* Until a teardown tables keep their columns, with their types, and their rows,
\* however many setups with whatever specs come by.
THEOREM TablesStay == CatalogSpec => TablesOnlyGrow
<1> DEFINE Kept == schema' => \A t \in DOMAIN table :
                       /\ t \in DOMAIN table' /\ table[t].rows \subseteq table'[t].rows
                       /\ \A name \in DOMAIN table[t].columns :
                             name \in DOMAIN table'[t].columns
                             /\ table'[t].columns[name] = table[t].columns[name]
<1>1. ASSUME CatalogInv, [CatalogNext]_catalogVars PROVE [Kept]_catalogVars
  <2> SUFFICES ASSUME CatalogNext PROVE Kept
    BY <1>1
  <2>1. CASE table' = table
    BY <2>1
  <2>2. CASE Teardown
    BY <2>2 DEF Teardown
  <2>3. CASE \E task \in Task, t \in DOMAIN table : Write(task, t)
    BY <2>3, <1>1, WriteKeeps
  <2>4. CASE \E p \in Process : \E t \in work[p].left : Migrate(p, t)
    <3>0. PICK p \in Process : \E t \in work[p].left : Migrate(p, t)
      BY <2>4
    <3>1. PICK t \in work[p].left : Migrate(p, t)
      BY <3>0
    <3>2. SUFFICES ASSUME table' # table PROVE Kept
      BY <2>1
    <3>3. work[p].at = "tables"
          /\ table' = [s \in DOMAIN table \cup {t} |-> IF s = t THEN Migrated(p, t) ELSE table[s]]
      BY <3>1, <3>2 DEF Migrate
    <3>4. QED
      BY <1>1, <3>3, MigratedIs DEF Grown
  <2>5. QED
    BY <2>1, <2>2, <2>3, <2>4 DEF CatalogNext, Publish, Begin, ReadCache, FetchFromCdn,
       FetchFromGithub, OpenCache, FillCache, Parse, CheckEnums, Collide, EndSetup, Die
<1> HIDE DEF Kept
<1>2. CatalogSpec => [][Kept]_catalogVars
  BY <1>1, CatalogInvariant, PTL DEF CatalogSpec
<1>3. QED
  BY <1>2 DEF Kept, TablesOnlyGrow
=============================================================================
