----------------------- MODULE PipelineProofs -----------------------
(***************************************************************************)
(* Proofs about the two halves of the pipeline service: its resources,     *)
(* then the workflow of one pipeline.                                      *)
(*                                                                         *)
(* The resources, for every set of pipelines and whatever goes wrong for   *)
(* them.  The invariant is a conjunction over the pipelines: a step of one *)
(* leaves to the others their own state, and of what they have outside     *)
(* takes at most an endpoint, by disabling it.                             *)
(***************************************************************************)
EXTENDS PipelineResources, PipelineWorkflow, SequenceTheorems, WellFoundedInduction, TLAPS

Endpoint    == [url : Url, owner : Pipeline \cup {"user"},
                status : {"enabled", "disabled", "deleted"}]
Spreadsheet == [owner : Pipeline, ready : BOOLEAN, gone : BOOLEAN]

Owned(p)       == {e \in DOMAIN endpoints : endpoints[e].owner = p}
SheetsOwned(p) == {i \in DOMAIN spreadsheets : spreadsheets[i].owner = p}

\* Nothing has gone wrong for p but, perhaps, a deletion before the setup had
\* ended, or an endpoint that Stripe disabled.
Smooth(p) == Unspoilt(p, {"timeout", "failed", "patched"})

WellTyped ==
    /\ ResourcesTyped
    /\ endpoints \in Seq(Endpoint) /\ Len(endpoints) <= MaxCreated + 1
    /\ spreadsheets \in Seq(Spreadsheet) /\ Len(spreadsheets) <= MaxCreated

\* Where the workflow is and what the record holds by then.
Staged(p) ==
    /\ workflow[p] \in {"setup", "running", "teardown"} => Exists(p)
    /\ workflow[p] \in {"none", "setup"} => store[p].secret = None /\ store[p].sheet = None
    /\ workflow[p] \in {"none", "setup", "teardown"} => attempts[p] < MaxAttempts
    /\ store[p].url \in used[p] \cup {None} /\ None \notin used[p]
    /\ store[p].sheet # None =>
          store[p].sheet \in SheetsOwned(p) /\ spreadsheets[store[p].sheet].ready

\* A setup attempt works from a record that has neither secret nor spreadsheet;
\* without one there are no awaited hooks.
Attempted(p) ==
    /\ setup[p].kept =>
          /\ workflow[p] \notin {"none", "running"}
          /\ setup[p].secret = None /\ setup[p].sheet = None
          /\ Smooth(p) /\ Exists(p) => setup[p].url = store[p].url
          /\ <<p, "timeout">> \notin trouble =>
                source[p]["awaited"].at # "off" /\ dest[p]["awaited"].at # "off"
          /\ Unspoilt(p, Faults) => workflow[p] = "setup"
    /\ ~setup[p].kept => source[p]["awaited"] = NoHook /\ dest[p]["awaited"] = NoHook
    /\ setup[p].url \in used[p] \cup {None}

\* A hook has made nothing before it creates, and a late hook is one that was
\* given up.
Hooked(p) ==
    /\ \A s \in Slot :
          /\ source[p][s].url \in used[p] \cup {None}
          /\ source[p][s].at \in {"list", "create"} => source[p][s].made = None
          /\ source[p][s].at = "create" => source[p][s].url # None
          /\ source[p][s].made \in DOMAIN endpoints \cup {None}
          /\ dest[p][s].at = "create" => Sheets(p) /\ dest[p][s].made = None
          /\ dest[p][s].at \in {"prepare", "end"} /\ Sheets(p) => dest[p][s].made # None
          /\ dest[p][s].made # None => dest[p][s].made \in SheetsOwned(p)
          /\ dest[p][s].at = "end" /\ Sheets(p) => spreadsheets[dest[p][s].made].ready
    /\ dest[p]["awaited"].at = "end" /\ ~Sheets(p) /\ workflow[p] = "setup" => p \in schemas
    /\ Smooth(p) =>
          /\ source[p]["late"].at = "off" /\ dest[p]["late"].at = "off"
          /\ setup[p].kept /\ Exists(p) => source[p]["awaited"].url = store[p].url

\* What a teardown works from.
Teared(p) ==
    /\ teardown[p].source \/ teardown[p].dest => teardown[p].config.kept
    /\ teardown[p].config.kept =>
          /\ workflow[p] = "teardown"
          /\ teardown[p].config.url \in used[p] \cup {None}
          /\ ~teardown[p].source => teardown[p].config.url # None
          /\ teardown[p].config.sheet # None => teardown[p].config.sheet \in SheetsOwned(p)
          /\ Unspoilt(p, Faults) => /\ teardown[p].config.url = store[p].url
                                    /\ teardown[p].config.sheet = store[p].sheet

\* The endpoints of p: of its own URLs, and one at most if all went well.
EndpointsKept(p) ==
    /\ \A e \in Owned(p) : endpoints[e].url \in used[p]
    /\ Smooth(p) =>
          \A e \in Owned(p) :
              /\ workflow[p] # "none"
              /\ Exists(p) => endpoints[e].url = store[p].url
              /\ setup[p].kept => e = source[p]["awaited"].made
              /\ workflow[p] = "setup" => setup[p].kept
              /\ workflow[p] = "running" => store[p].secret = e
              /\ \A f \in Owned(p) : f = e
    /\ Unspoilt(p, Faults) /\ Alone(p) /\ (workflow[p] = "done" \/ teardown[p].source) =>
          \A e \in Owned(p) : ~Enabled(e)

\* Its spreadsheets, likewise.
SheetsKept(p) ==
    /\ \A i \in SheetsOwned(p) :
          /\ Sheets(p)
          /\ spreadsheets[i].gone => workflow[p] \in {"teardown", "done", "failed"}
    /\ Smooth(p) =>
          \A i \in SheetsOwned(p) :
              /\ workflow[p] # "none"
              /\ setup[p].kept => i = dest[p]["awaited"].made
              /\ workflow[p] = "setup" => setup[p].kept
              /\ ~setup[p].kept /\ workflow[p] \in {"running", "teardown"} => i = store[p].sheet
    /\ Unspoilt(p, Faults) /\ (workflow[p] = "done" \/ teardown[p].dest) =>
          \A i \in SheetsOwned(p) : spreadsheets[i].gone

SchemaKept(p) ==
    /\ p \in schemas => ~Sheets(p)
    /\ Unspoilt(p, Faults) /\ (workflow[p] = "done" \/ teardown[p].dest) => p \notin schemas

\* Past its setup the destination is there.
Ready(p) ==
    workflow[p] = "running" /\ <<p, "timeout">> \notin trouble =>
        IF Sheets(p) THEN store[p].sheet # None ELSE p \in schemas

Good(p) ==
    /\ Staged(p) /\ Attempted(p) /\ Hooked(p) /\ Teared(p)
    /\ EndpointsKept(p) /\ SheetsKept(p) /\ SchemaKept(p) /\ Ready(p)

Inv == WellTyped /\ \A p \in Pipeline : Good(p)

-----------------------------------------------------------------------------
(* What one step leaves to a pipeline.                                     *)

\* The state p has to itself is as it was.
Rests(p) ==
    /\ store'[p] = store[p] /\ workflow'[p] = workflow[p] /\ attempts'[p] = attempts[p]
    /\ setup'[p] = setup[p] /\ source'[p] = source[p] /\ dest'[p] = dest[p]
    /\ teardown'[p] = teardown[p] /\ used'[p] = used[p]

\* What p has outside is as it was, except that an endpoint may be disabled or
\* deleted, and nothing that had gone wrong is forgotten.
EndpointsRest(p) ==
    /\ DOMAIN endpoints \subseteq DOMAIN endpoints'
    /\ \A e \in Owned(p)' : /\ e \in Owned(p) /\ endpoints'[e].url = endpoints[e].url
                            /\ Enabled(e)' => Enabled(e)
SheetsRest(p) ==
    /\ SheetsOwned(p)' = SheetsOwned(p)
    /\ \A i \in SheetsOwned(p) : spreadsheets'[i] = spreadsheets[i]
SchemaRests(p) == p \in schemas' <=> p \in schemas
Remembers(p) ==
    /\ trouble \subseteq trouble'
    /\ Alone(p)' => Alone(p)

Outside(p) == EndpointsRest(p) /\ SheetsRest(p) /\ SchemaRests(p)

LEMMA TroubleIs ==
    ASSUME NEW p \in Pipeline
    PROVE  /\ Unspoilt(p, Faults) => Smooth(p)
           /\ Smooth(p) => /\ <<p, "timeout">> \notin trouble /\ <<p, "failed">> \notin trouble
                           /\ <<p, "patched">> \notin trouble
           /\ \A f \in Faults : <<p, f>> \in trouble => ~Unspoilt(p, Faults)
  BY DEF Unspoilt, Faults, Smooth

LEMMA TroubleStays ==
    ASSUME NEW p \in Pipeline, trouble \subseteq trouble'
    PROVE  /\ Unspoilt(p, Faults)' => Unspoilt(p, Faults)
           /\ Smooth(p)' => Smooth(p)
           /\ <<p, "timeout">> \notin trouble' => <<p, "timeout">> \notin trouble
  BY DEF Unspoilt, Faults, Smooth

LEMMA GoodRests ==
    ASSUME NEW p \in Pipeline, Good(p), Rests(p), Outside(p), Remembers(p)
    PROVE  Good(p)'
<1> USE DEF Rests, Outside, EndpointsRest, SheetsRest, SchemaRests, Remembers, Good
<1>0. /\ Unspoilt(p, Faults)' => Unspoilt(p, Faults)
      /\ Smooth(p)' => Smooth(p)
      /\ <<p, "timeout">> \notin trouble' => <<p, "timeout">> \notin trouble
  BY TroubleStays
<1>1. Staged(p)'
  BY DEF Staged, Exists
<1>2. Attempted(p)'
  BY <1>0 DEF Attempted, Exists
<1>3. Hooked(p)'
  BY <1>0 DEF Hooked, Exists, Sheets
<1>4. Teared(p)'
  BY <1>0 DEF Teared
<1>5. EndpointsKept(p)'
  BY <1>0 DEF EndpointsKept, Exists
<1>6. SheetsKept(p)'
  BY <1>0 DEF SheetsKept, Sheets
<1>7. SchemaKept(p)'
  BY <1>0 DEF SchemaKept, Sheets
<1>8. Ready(p)'
  BY <1>0 DEF Ready, Sheets
<1>9. QED
  BY <1>1, <1>2, <1>3, <1>4, <1>5, <1>6, <1>7, <1>8

\* A step of p that leaves the others alone keeps the invariant if it keeps it
\* for p.
LEMMA StepOf ==
    ASSUME NEW p \in Pipeline, Inv, WellTyped', Good(p)',
           \A q \in Pipeline \ {p} : Rests(q) /\ Outside(q) /\ Remembers(q)
    PROVE  Inv'
<1>1. ASSUME NEW q \in Pipeline
      PROVE  Good(q)'
  <2>1. CASE q = p
    BY <2>1
  <2>2. CASE q # p
    BY <2>2, GoodRests DEF Inv
  <2>3. QED
    BY <2>1, <2>2
<1>2. QED
  BY <1>1 DEF Inv

-----------------------------------------------------------------------------
LEMMA OutsideSame ==
    ASSUME UNCHANGED outside, NEW q
    PROVE  Outside(q)
<1>1. endpoints' = endpoints /\ spreadsheets' = spreadsheets /\ schemas' = schemas
  BY DEF outside
<1>2. QED
  BY <1>1 DEF Outside, EndpointsRest, SheetsRest, SchemaRests, Owned, SheetsOwned, Enabled

LEMMA UsedGrows ==
    ASSUME NEW q \in Pipeline, trouble \subseteq trouble',
           \A r \in Pipeline : used[r] \subseteq used'[r]
    PROVE  Remembers(q)
  BY DEF Remembers, Alone

LEMMA TroubleGrows ==
    ASSUME NEW p \in Pipeline, NEW what \in Faults, Trouble(p, what), ResourcesTyped
    PROVE  /\ trouble \subseteq trouble' /\ <<p, what>> \in trouble'
           /\ trouble' \subseteq Pipeline \X Faults
  BY DEF Trouble, ResourcesTyped

LEMMA HasGreatest ==
    ASSUME NEW n \in Nat, NEW T \in SUBSET (1 .. n), T # {}
    PROVE  \E g \in T : \A h \in T : g >= h
<1> DEFINE D == {x \in Nat : n - x \in T}
<1>1. PICK t \in T : t \in 1 .. n
  OBVIOUS
<1>2. n - t \in Nat /\ n - (n - t) = t
  BY <1>1
<1>3. n - t \in D
  BY <1>1, <1>2
<1>4. PICK d \in D : \A c \in D : <<c, d>> \notin OpToRel(<, Nat)
  BY <1>3, WFMin, NatLessThanWellFounded
<1>5. \A c \in D : ~(c < d)
  BY <1>4 DEF OpToRel
<1>6. d \in Nat /\ n - d \in T
  BY <1>4
<1>7. ASSUME NEW h \in T
      PROVE  n - d >= h
  <2>1. h \in 1 .. n
    OBVIOUS
  <2>2. n - h \in Nat /\ n - (n - h) = h
    BY <2>1
  <2>3. n - h \in D
    BY <2>1, <2>2
  <2>4. ~(n - h < d)
    BY <1>5, <2>3
  <2>5. QED
    BY <1>6, <2>1, <2>4
<1>8. QED
  BY <1>6, <1>7

\* find returns a match if there is one.
LEMMA ManagedForIs ==
    ASSUME WellTyped, NEW url
    PROVE  /\ ManagedFor(url) # None =>
                /\ ManagedFor(url) \in DOMAIN endpoints /\ Managed(ManagedFor(url))
                /\ endpoints[ManagedFor(url)].url = url
                /\ endpoints[ManagedFor(url)].status # "deleted"
           /\ \A e \in DOMAIN endpoints :
                /\ Managed(e) /\ endpoints[e].url = url /\ endpoints[e].status # "deleted"
                => ManagedFor(url) # None
<1> DEFINE known == {e \in DOMAIN endpoints : /\ Managed(e) /\ endpoints[e].url = url
                                              /\ endpoints[e].status # "deleted"}
<1>1. DOMAIN endpoints = 1 .. Len(endpoints) /\ Len(endpoints) \in Nat
  BY DEF WellTyped
<1>2. known # {} => Max(known) \in known
  <2>1. SUFFICES ASSUME known # {}
                 PROVE  Max(known) \in known
    OBVIOUS
  <2>2. known \in SUBSET (1 .. Len(endpoints))
    BY <1>1
  <2>3. \E g \in known : \A h \in known : g >= h
    BY <1>1, <2>1, <2>2, HasGreatest
  <2>4. QED
    BY <2>3 DEF Max
<1>3. ManagedFor(url) = IF known = {} THEN None ELSE Max(known)
  BY DEF ManagedFor
<1>4. known # {} => Max(known) # None
  BY <1>1, <1>2 DEF None
<1>5. QED
  BY <1>2, <1>3, <1>4

\* The fields of the records the state is made of.
LEMMA FieldsAre ==
    ASSUME WellTyped, NEW p \in Pipeline
    PROVE  /\ store[p] \in Record /\ setup[p] \in Record
           /\ attempts[p] \in 0 .. MaxAttempts
           /\ teardown[p] \in [config : Record, source : BOOLEAN, dest : BOOLEAN]
           /\ \A s \in Slot : source[p][s] \in Hook /\ dest[p][s] \in Hook
           /\ DOMAIN endpoints = 1 .. Len(endpoints) /\ Len(endpoints) \in Nat
           /\ DOMAIN spreadsheets = 1 .. Len(spreadsheets) /\ Len(spreadsheets) \in Nat
           /\ \A e \in DOMAIN endpoints : endpoints[e] \in Endpoint
           /\ \A i \in DOMAIN spreadsheets : spreadsheets[i] \in Spreadsheet
  BY DEF WellTyped, ResourcesTyped

\* A hook is put in its place, and no other hook changes.
LEMMA HookPut ==
    ASSUME NEW hooks \in [Pipeline -> [Slot -> Hook]], NEW after, NEW p \in Pipeline,
           NEW s \in Slot, NEW h \in Hook, after = [hooks EXCEPT ![p][s] = h]
    PROVE  /\ after \in [Pipeline -> [Slot -> Hook]] /\ after[p][s] = h
           /\ \A r \in Slot \ {s} : after[p][r] = hooks[p][r]
           /\ \A q \in Pipeline \ {p} : after[q] = hooks[q]
  OBVIOUS

LEMMA HooksAre ==
    ASSUME WellTyped
    PROVE  /\ source \in [Pipeline -> [Slot -> Hook]] /\ dest \in [Pipeline -> [Slot -> Hook]]
           /\ NoHook \in Hook /\ NoHook.at = "off" /\ NoHook.made = None
           /\ "awaited" \in Slot /\ "late" \in Slot
  BY ResourcesAssumption DEF WellTyped, ResourcesTyped, NoHook, Hook, None, Slot

LEMMA NamesFit ==
    ASSUME WellTyped
    PROVE  \A q \in Pipeline :
              /\ store[q].secret = None \/ store[q].secret \in DOMAIN endpoints
              /\ store[q].sheet = None \/ store[q].sheet \in DOMAIN spreadsheets
  BY DEF WellTyped, ResourcesTyped

-----------------------------------------------------------------------------
(* The API's steps.                                                        *)

LEMMA CreateStep ==
    ASSUME Inv, NEW p \in Pipeline, NEW url \in Url \cup {None}, CreatePipeline(p, url)
    PROVE  Inv'
<1> USE DEF Inv
<1>0. /\ store'[p] = [url |-> url, secret |-> None, sheet |-> None, kept |-> TRUE]
      /\ workflow[p] = "none" /\ workflow'[p] = "setup"
      /\ used'[p] = used[p] \cup ({url} \ {None})
      /\ UNCHANGED <<attempts, setup, source, dest, teardown, endpoints, spreadsheets,
                     schemas, trouble>>
      /\ \A q \in Pipeline \ {p} : /\ store'[q] = store[q] /\ workflow'[q] = workflow[q]
                                   /\ used'[q] = used[q]
  BY DEF CreatePipeline, WellTyped, ResourcesTyped, outside, NoRecord
<1>1. WellTyped'
  <2>1. store'[p] \in Record /\ store'[p].secret = None /\ store'[p].sheet = None
    BY <1>0, ResourcesAssumption DEF Record, None
  <2>2. store' \in [Pipeline -> Record]
    BY <2>1 DEF CreatePipeline, WellTyped, ResourcesTyped
  <2>3. workflow' \in [Pipeline -> {"none", "setup", "running", "teardown", "done", "failed"}]
    BY DEF CreatePipeline, WellTyped, ResourcesTyped
  <2>4. used' \in [Pipeline -> SUBSET Url]
    BY DEF CreatePipeline, WellTyped, ResourcesTyped
  <2>5. QED
    BY <1>0, <2>1, <2>2, <2>3, <2>4 DEF WellTyped, ResourcesTyped
<1>2. \A r \in Pipeline : used[r] \subseteq used'[r] /\ trouble \subseteq trouble'
  BY <1>0
<1>3. \A q \in Pipeline : Outside(q) /\ Remembers(q)
  BY <1>0, <1>2, OutsideSame, UsedGrows DEF outside
<1>4. \A q \in Pipeline \ {p} : Rests(q)
  BY <1>0 DEF Rests
<1>5. Good(p)'
  <2>0. /\ Good(p) /\ Smooth(p)' => Smooth(p)
        /\ Unspoilt(p, Faults)' => Unspoilt(p, Faults)
        /\ Alone(p)' => Alone(p)
        /\ <<p, "timeout">> \notin trouble' => <<p, "timeout">> \notin trouble
    BY <1>2, <1>3, TroubleStays DEF Remembers
  <2>r. Outside(p)
    BY <1>3
  <2> USE DEF Good, Exists, Sheets, Outside, EndpointsRest, SheetsRest, SchemaRests
  <2>1. Staged(p)'
    BY <1>0, <2>0, <2>r DEF Staged
  <2>2. Attempted(p)'
    BY <1>0, <2>0, <2>r DEF Attempted
  <2>3. Hooked(p)'
    BY <1>0, <2>0, <2>r DEF Hooked, Attempted, NoHook
  <2>4. Teared(p)'
    BY <1>0, <2>0, <2>r DEF Teared
  <2>5. EndpointsKept(p)'
    BY <1>0, <2>0, <2>r DEF EndpointsKept
  <2>6. SheetsKept(p)'
    BY <1>0, <2>0, <2>r DEF SheetsKept
  <2>7. SchemaKept(p)'
    BY <1>0, <2>0, <2>r DEF SchemaKept
  <2>8. Ready(p)'
    BY <1>0, <2>0, <2>r DEF Ready
  <2>9. QED
    BY <2>1, <2>2, <2>3, <2>4, <2>5, <2>6, <2>7, <2>8
<1>6. QED
  BY <1>1, <1>3, <1>4, <1>5, StepOf

LEMMA UpdateStep ==
    ASSUME Inv, NEW p \in Pipeline, NEW url \in Url \cup {None}, UpdatePipeline(p, url)
    PROVE  Inv'
<1> USE DEF Inv
<1>0. /\ store'[p] = [store[p] EXCEPT !.url = url, !.secret = None]
      /\ used'[p] = used[p] \cup ({url} \ {None}) /\ store[p].kept
      /\ UNCHANGED <<workflow, attempts, setup, source, dest, teardown, endpoints,
                     spreadsheets, schemas>>
      /\ \A q \in Pipeline \ {p} : /\ store'[q] = store[q] /\ used'[q] = used[q]
  BY DEF UpdatePipeline, WellTyped, ResourcesTyped, outside, Exists
<1>t. /\ trouble \subseteq trouble' /\ <<p, "patched">> \in trouble'
      /\ trouble' \subseteq Pipeline \X Faults
  BY TroubleGrows DEF UpdatePipeline, WellTyped, Faults
<1>1. WellTyped'
  <2>1. store[p] \in Record /\ 0 \in 0 .. MaxCreated + 1
    BY FieldsAre, ResourcesAssumption
  <2>2. store'[p] \in Record /\ store'[p].secret = None /\ store'[p].sheet = store[p].sheet
    BY <1>0, <2>1 DEF Record, None
  <2>3. store' \in [Pipeline -> Record]
    BY <2>2 DEF UpdatePipeline, WellTyped, ResourcesTyped
  <2>4. used' \in [Pipeline -> SUBSET Url]
    BY DEF UpdatePipeline, WellTyped, ResourcesTyped
  <2>5. QED
    BY <1>0, <1>t, <2>1, <2>2, <2>3, <2>4 DEF WellTyped, ResourcesTyped
<1>2. \A r \in Pipeline : used[r] \subseteq used'[r] /\ trouble \subseteq trouble'
  BY <1>0, <1>t
<1>3. \A q \in Pipeline : Outside(q) /\ Remembers(q)
  BY <1>0, <1>2, OutsideSame, UsedGrows DEF outside
<1>4. \A q \in Pipeline \ {p} : Rests(q)
  BY <1>0 DEF Rests
<1>5. Good(p)'
  <2>0. /\ Good(p) /\ Smooth(p)' => Smooth(p)
        /\ Unspoilt(p, Faults)' => Unspoilt(p, Faults)
        /\ Alone(p)' => Alone(p)
        /\ <<p, "timeout">> \notin trouble' => <<p, "timeout">> \notin trouble
    BY <1>2, <1>3, TroubleStays DEF Remembers
  <2>r. Outside(p)
    BY <1>3
  <2>s. ~Smooth(p)' /\ ~Unspoilt(p, Faults)'
    BY <1>t DEF Smooth, Unspoilt, Faults
  <2> USE DEF Good, Exists, Sheets, Outside, EndpointsRest, SheetsRest, SchemaRests
  <2>1. Staged(p)'
    BY <1>0, <2>0, <2>r, <2>s, FieldsAre DEF Staged, Record
  <2>2. Attempted(p)'
    BY <1>0, <2>0, <2>r, <2>s, FieldsAre DEF Attempted, Record
  <2>3. Hooked(p)'
    BY <1>0, <2>0, <2>r, <2>s, FieldsAre DEF Hooked, Record
  <2>4. Teared(p)'
    BY <1>0, <2>0, <2>r, <2>s DEF Teared
  <2>5. EndpointsKept(p)'
    BY <1>0, <2>0, <2>r, <2>s DEF EndpointsKept
  <2>6. SheetsKept(p)'
    BY <1>0, <2>0, <2>r, <2>s DEF SheetsKept
  <2>7. SchemaKept(p)'
    BY <1>0, <2>0, <2>r, <2>s DEF SchemaKept
  <2>8. Ready(p)'
    BY <1>0, <2>0, <2>r, <2>s DEF Ready
  <2>9. QED
    BY <2>1, <2>2, <2>3, <2>4, <2>5, <2>6, <2>7, <2>8
<1>6. QED
  BY <1>1, <1>3, <1>4, <1>5, StepOf

LEMMA DeleteStep ==
    ASSUME Inv, NEW p \in Pipeline, DeletePipeline(p)
    PROVE  Inv'
<1> USE DEF Inv
<1>0. /\ workflow[p] \in {"setup", "running"} /\ workflow'[p] = "teardown" /\ store[p].kept
      /\ attempts'[p] = 0
      /\ UNCHANGED <<store, setup, source, dest, teardown, endpoints, spreadsheets,
                     schemas, used>>
      /\ \A q \in Pipeline \ {p} : /\ workflow'[q] = workflow[q]
                                   /\ attempts'[q] = attempts[q]
  BY DEF DeletePipeline, WellTyped, ResourcesTyped, outside, Cancellable, Exists
<1>t. /\ trouble \subseteq trouble' /\ trouble' \subseteq Pipeline \X Faults
      /\ setup[p].kept => ~Unspoilt(p, Faults)'
  <2>1. CASE setup[p].kept
    <3>1. Trouble(p, "cancelled") /\ "cancelled" \in Faults
      BY <2>1 DEF DeletePipeline, Faults
    <3>2. /\ trouble \subseteq trouble' /\ <<p, "cancelled">> \in trouble'
          /\ trouble' \subseteq Pipeline \X Faults
      BY <3>1, TroubleGrows DEF WellTyped
    <3>3. QED
      BY <3>1, <3>2 DEF Unspoilt
  <2>2. CASE ~setup[p].kept
    BY <2>2 DEF DeletePipeline, WellTyped, ResourcesTyped
  <2>3. QED
    BY <2>1, <2>2
<1>1. WellTyped'
  <2>1. workflow' \in [Pipeline -> {"none", "setup", "running", "teardown", "done", "failed"}]
    BY DEF DeletePipeline, WellTyped, ResourcesTyped
  <2>2. attempts' \in [Pipeline -> 0 .. MaxAttempts]
    BY ResourcesAssumption DEF DeletePipeline, WellTyped, ResourcesTyped
  <2>3. QED
    BY <1>0, <1>t, <2>1, <2>2 DEF WellTyped, ResourcesTyped
<1>2. \A r \in Pipeline : used[r] \subseteq used'[r] /\ trouble \subseteq trouble'
  BY <1>0, <1>t
<1>3. \A q \in Pipeline : Outside(q) /\ Remembers(q)
  BY <1>0, <1>2, OutsideSame, UsedGrows DEF outside
<1>4. \A q \in Pipeline \ {p} : Rests(q)
  BY <1>0 DEF Rests
<1>5. Good(p)'
  <2>0. /\ Good(p) /\ Smooth(p)' => Smooth(p)
        /\ Unspoilt(p, Faults)' => Unspoilt(p, Faults)
        /\ Alone(p)' => Alone(p)
        /\ <<p, "timeout">> \notin trouble' => <<p, "timeout">> \notin trouble
    BY <1>2, <1>3, TroubleStays DEF Remembers
  <2>r. Outside(p)
    BY <1>3
  <2> USE DEF Good, Exists, Sheets, Outside, EndpointsRest, SheetsRest, SchemaRests
  <2>1. Staged(p)'
    BY <1>0, <2>0, <2>r, <1>t, ResourcesAssumption DEF Staged
  <2>2. Attempted(p)'
    BY <1>0, <2>0, <2>r, <1>t DEF Attempted
  <2>3. Hooked(p)'
    BY <1>0, <2>0, <2>r, <1>t DEF Hooked
  <2>4. Teared(p)'
    BY <1>0, <2>0, <2>r, <1>t DEF Teared
  <2>5. EndpointsKept(p)'
    BY <1>0, <2>0, <2>r, <1>t DEF EndpointsKept, Teared
  <2>6. SheetsKept(p)'
    BY <1>0, <2>0, <2>r, <1>t DEF SheetsKept, Teared
  <2>7. SchemaKept(p)'
    BY <1>0, <2>0, <2>r, <1>t DEF SchemaKept, Teared
  <2>8. Ready(p)'
    BY <1>0, <2>0, <2>r, <1>t DEF Ready
  <2>9. QED
    BY <2>1, <2>2, <2>3, <2>4, <2>5, <2>6, <2>7, <2>8
<1>6. QED
  BY <1>1, <1>3, <1>4, <1>5, StepOf

LEMMA DeleteStrayStep ==
    ASSUME Inv, NEW p \in Pipeline, DeleteStray(p)
    PROVE  Inv'
<1> USE DEF Inv
<1>0. /\ store'[p] = NoRecord /\ workflow[p] = "failed"
      /\ UNCHANGED <<workflow, attempts, setup, source, dest, teardown, endpoints,
                     spreadsheets, schemas, used, trouble>>
      /\ \A q \in Pipeline \ {p} : store'[q] = store[q]
  BY DEF DeleteStray, WellTyped, ResourcesTyped, outside, NoRecord
<1>1. WellTyped'
  <2>1. store'[p] \in Record /\ store'[p].secret = None /\ store'[p].sheet = None
    BY <1>0, ResourcesAssumption DEF Record, NoRecord, None
  <2>2. store' \in [Pipeline -> Record]
    BY <2>1 DEF DeleteStray, WellTyped, ResourcesTyped
  <2>3. QED
    BY <1>0, <2>1, <2>2 DEF WellTyped, ResourcesTyped
<1>2. \A r \in Pipeline : used[r] \subseteq used'[r] /\ trouble \subseteq trouble'
  BY <1>0
<1>3. \A q \in Pipeline : Outside(q) /\ Remembers(q)
  BY <1>0, <1>2, OutsideSame, UsedGrows DEF outside
<1>4. \A q \in Pipeline \ {p} : Rests(q)
  BY <1>0 DEF Rests
<1>5. Good(p)'
  <2>0. /\ Good(p) /\ Smooth(p)' => Smooth(p)
        /\ Unspoilt(p, Faults)' => Unspoilt(p, Faults)
        /\ Alone(p)' => Alone(p)
        /\ <<p, "timeout">> \notin trouble' => <<p, "timeout">> \notin trouble
    BY <1>2, <1>3, TroubleStays DEF Remembers
  <2>r. Outside(p)
    BY <1>3
  <2> USE DEF Good, Exists, Sheets, Outside, EndpointsRest, SheetsRest, SchemaRests
  <2>1. Staged(p)'
    BY <1>0, <2>0, <2>r DEF Staged, NoRecord
  <2>2. Attempted(p)'
    BY <1>0, <2>0, <2>r DEF Attempted, NoRecord
  <2>3. Hooked(p)'
    BY <1>0, <2>0, <2>r DEF Hooked, NoRecord
  <2>4. Teared(p)'
    BY <1>0, <2>0, <2>r DEF Teared
  <2>5. EndpointsKept(p)'
    BY <1>0, <2>0, <2>r DEF EndpointsKept, NoRecord, Teared
  <2>6. SheetsKept(p)'
    BY <1>0, <2>0, <2>r DEF SheetsKept, NoRecord
  <2>7. SchemaKept(p)'
    BY <1>0, <2>0, <2>r DEF SchemaKept
  <2>8. Ready(p)'
    BY <1>0, <2>0, <2>r DEF Ready
  <2>9. QED
    BY <2>1, <2>2, <2>3, <2>4, <2>5, <2>6, <2>7, <2>8
<1>6. QED
  BY <1>1, <1>3, <1>4, <1>5, StepOf

-----------------------------------------------------------------------------
(* The steps of a setup and of its hooks.                                   *)

LEMMA BeginSetupStep ==
    ASSUME Inv, NEW p \in Pipeline, BeginSetup(p)
    PROVE  Inv'
<1> USE DEF Inv
<1> DEFINE s == [at |-> "list", url |-> store[p].url, made |-> None]
           d == [at |-> IF Sheets(p) THEN "create" ELSE "prepare", url |-> None, made |-> None]
<1>a. store[p] \in Record /\ store[p].sheet = None /\ s \in Hook /\ d \in Hook
  BY FieldsAre, ResourcesAssumption DEF BeginSetup, Good, Staged, Record, Hook, None
<1>b. /\ source' = [source EXCEPT ![p]["awaited"] = s] /\ dest' = [dest EXCEPT ![p]["awaited"] = d]
  BY <1>a DEF BeginSetup
<1> HIDE DEF s, d
<1>c. /\ source' \in [Pipeline -> [Slot -> Hook]] /\ source'[p]["awaited"] = s
      /\ source'[p]["late"] = source[p]["late"]
      /\ \A q \in Pipeline \ {p} : source'[q] = source[q]
  BY <1>a, <1>b, HookPut, HooksAre DEF Slot
<1>d. /\ dest' \in [Pipeline -> [Slot -> Hook]] /\ dest'[p]["awaited"] = d
      /\ dest'[p]["late"] = dest[p]["late"]
      /\ \A q \in Pipeline \ {p} : dest'[q] = dest[q]
  BY <1>a, <1>b, HookPut, HooksAre DEF Slot
<1> USE DEF s, d
<1>0. /\ workflow[p] = "setup" /\ ~setup[p].kept /\ setup'[p] = store[p]
      /\ source'[p]["awaited"] = [at |-> "list", url |-> store[p].url, made |-> None]
      /\ dest'[p]["awaited"].at = IF Sheets(p) THEN "create" ELSE "prepare"
      /\ dest'[p]["awaited"].url = None /\ dest'[p]["awaited"].made = None
      /\ source'[p]["late"] = source[p]["late"] /\ dest'[p]["late"] = dest[p]["late"]
      /\ UNCHANGED <<store, workflow, attempts, teardown, endpoints, spreadsheets,
                     schemas, used, trouble>>
      /\ \A q \in Pipeline \ {p} : /\ setup'[q] = setup[q] /\ source'[q] = source[q]
                                   /\ dest'[q] = dest[q]
  BY <1>c, <1>d DEF BeginSetup, WellTyped, ResourcesTyped, outside, Slot
<1>1. WellTyped'
  <2>1. setup' \in [Pipeline -> Record]
    BY DEF BeginSetup, WellTyped, ResourcesTyped
  <2>2. source' \in [Pipeline -> [Slot -> Hook]]
    BY <1>c
  <2>3. dest' \in [Pipeline -> [Slot -> Hook]]
    BY <1>d
  <2>4. QED
    BY <1>0, <2>1, <2>2, <2>3 DEF WellTyped, ResourcesTyped
<1>2. \A r \in Pipeline : used[r] \subseteq used'[r] /\ trouble \subseteq trouble'
  BY <1>0
<1>3. \A q \in Pipeline : Outside(q) /\ Remembers(q)
  BY <1>0, <1>2, OutsideSame, UsedGrows DEF outside
<1>4. \A q \in Pipeline \ {p} : Rests(q)
  BY <1>0 DEF Rests
<1>5. Good(p)'
  <2>0. /\ Good(p) /\ Smooth(p)' => Smooth(p)
        /\ Unspoilt(p, Faults)' => Unspoilt(p, Faults)
        /\ Alone(p)' => Alone(p)
        /\ <<p, "timeout">> \notin trouble' => <<p, "timeout">> \notin trouble
    BY <1>2, <1>3, TroubleStays DEF Remembers
  <2>r. Outside(p)
    BY <1>3
  <2> USE DEF Good, Exists, Sheets, Outside, EndpointsRest, SheetsRest, SchemaRests
  <2>1. Staged(p)'
    BY <1>0, <2>0, <2>r DEF Staged
  <2>2. Attempted(p)'
    BY <1>0, <2>0, <2>r DEF Attempted, Staged, None
  <2>3. Hooked(p)'
    BY <1>0, <2>0, <2>r DEF Hooked, Staged, Slot, Attempted, None
  <2>4. Teared(p)'
    BY <1>0, <2>0, <2>r DEF Teared
  <2>5. EndpointsKept(p)'
    BY <1>0, <2>0, <2>r DEF EndpointsKept
  <2>6. SheetsKept(p)'
    BY <1>0, <2>0, <2>r DEF SheetsKept
  <2>7. SchemaKept(p)'
    BY <1>0, <2>0, <2>r DEF SchemaKept
  <2>8. Ready(p)'
    BY <1>0, <2>0, <2>r DEF Ready
  <2>9. QED
    BY <2>1, <2>2, <2>3, <2>4, <2>5, <2>6, <2>7, <2>8
<1>6. QED
  BY <1>1, <1>3, <1>4, <1>5, StepOf

LEMMA SourceListsStep ==
    ASSUME Inv, NEW p \in Pipeline, NEW s \in Slot, SourceLists(p, s)
    PROVE  Inv'
<1> USE DEF Inv
<1> DEFINE h == [source[p][s] EXCEPT !.at =
                    IF source[p][s].url = None THEN "end"
                    ELSE IF /\ ManagedFor(source[p][s].url) # None
                            /\ Enabled(ManagedFor(source[p][s].url)) THEN "end" ELSE "create"]
<1>a. source[p][s] \in Hook /\ h \in Hook /\ source' = [source EXCEPT ![p][s] = h]
  BY HooksAre, FieldsAre DEF SourceLists, Hook
<1> HIDE DEF h
<1>b. /\ source' \in [Pipeline -> [Slot -> Hook]] /\ source'[p][s] = h
      /\ \A r \in Slot \ {s} : source'[p][r] = source[p][r]
      /\ \A q \in Pipeline \ {p} : source'[q] = source[q]
  BY <1>a, HookPut, HooksAre
<1> USE DEF h
<1>0. /\ source[p][s].at = "list" /\ source'[p][s].at \in {"end", "create"}
      /\ source'[p][s].at = "create" => source[p][s].url # None
      /\ source'[p][s].url = source[p][s].url /\ source'[p][s].made = source[p][s].made
      /\ \A r \in Slot \ {s} : source'[p][r] = source[p][r]
      /\ UNCHANGED <<store, workflow, attempts, setup, dest, teardown, endpoints,
                     spreadsheets, schemas, used, trouble>>
      /\ \A q \in Pipeline \ {p} : source'[q] = source[q]
  BY <1>a, <1>b DEF SourceLists, WellTyped, ResourcesTyped, outside, Hook
<1>1. WellTyped'
  <2>1. source' \in [Pipeline -> [Slot -> Hook]]
    BY <1>b
  <2>2. QED
    BY <1>0, <2>1 DEF WellTyped, ResourcesTyped
<1>2. \A r \in Pipeline : used[r] \subseteq used'[r] /\ trouble \subseteq trouble'
  BY <1>0
<1>3. \A q \in Pipeline : Outside(q) /\ Remembers(q)
  BY <1>0, <1>2, OutsideSame, UsedGrows DEF outside
<1>4. \A q \in Pipeline \ {p} : Rests(q)
  BY <1>0 DEF Rests
<1>5. Good(p)'
  <2>0. /\ Good(p) /\ Smooth(p)' => Smooth(p)
        /\ Unspoilt(p, Faults)' => Unspoilt(p, Faults)
        /\ Alone(p)' => Alone(p)
        /\ <<p, "timeout">> \notin trouble' => <<p, "timeout">> \notin trouble
    BY <1>2, <1>3, TroubleStays DEF Remembers
  <2>r. Outside(p)
    BY <1>3
  <2> USE DEF Good, Exists, Sheets, Outside, EndpointsRest, SheetsRest, SchemaRests
  <2>1. Staged(p)'
    BY <1>0, <2>0, <2>r DEF Staged
  <2>2. Attempted(p)'
    BY <1>0, <2>0, <2>r DEF Attempted, Slot, NoHook
  <2>3. Hooked(p)'
    BY <1>0, <2>0, <2>r DEF Hooked, Slot, Attempted
  <2>4. Teared(p)'
    BY <1>0, <2>0, <2>r DEF Teared
  <2>5. EndpointsKept(p)'
    BY <1>0, <2>0, <2>r DEF EndpointsKept, Slot, Hooked, Attempted
  <2>6. SheetsKept(p)'
    BY <1>0, <2>0, <2>r DEF SheetsKept, Slot
  <2>7. SchemaKept(p)'
    BY <1>0, <2>0, <2>r DEF SchemaKept
  <2>8. Ready(p)'
    BY <1>0, <2>0, <2>r DEF Ready
  <2>9. QED
    BY <2>1, <2>2, <2>3, <2>4, <2>5, <2>6, <2>7, <2>8
<1>6. QED
  BY <1>1, <1>3, <1>4, <1>5, StepOf

LEMMA SourceCreatesStep ==
    ASSUME Inv, NEW p \in Pipeline, NEW s \in Slot, SourceCreates(p, s)
    PROVE  Inv'
<1> USE DEF Inv
<1> DEFINE n == Len(endpoints)
           new == [url |-> source[p][s].url, owner |-> p, status |-> "enabled"]
<1>n. /\ n \in Nat /\ n <= MaxCreated /\ MaxCreated \in Nat /\ n + 1 \in 0 .. MaxCreated + 1
      /\ DOMAIN endpoints = 1 .. n /\ p # "user"
      /\ source[p][s].url \in Url /\ new \in Endpoint
  <2>1. n \in Nat /\ n <= MaxCreated /\ MaxCreated \in Nat /\ DOMAIN endpoints = 1 .. n
    BY FieldsAre, ResourcesAssumption DEF SourceCreates
  <2>2. source[p][s] \in Hook /\ source[p][s].url # None
    BY FieldsAre DEF SourceCreates, Good, Hooked
  <2>3. source[p][s].url \in Url
    BY <2>2 DEF Hook
  <2>4. QED
    BY <2>1, <2>3, ResourcesAssumption DEF Endpoint
<1> DEFINE g == [source[p][s] EXCEPT !.at = "end"]
           h == [g EXCEPT !.made = n + 1]
<1>a. /\ source[p][s] \in Hook /\ h \in Hook /\ source' = [source EXCEPT ![p][s] = h]
      /\ h.at = "end" /\ h.url = source[p][s].url /\ h.made = n + 1
  <2>1. source[p][s] \in Hook
    BY FieldsAre
  <2>2. g \in Hook /\ g.at = "end" /\ g.url = source[p][s].url
    BY <2>1 DEF Hook
  <2>3. source' = [source EXCEPT ![p][s] =
                      [[source[p][s] EXCEPT !.at = "end"] EXCEPT !.made = n + 1]]
    BY DEF SourceCreates
  <2> HIDE DEF g
  <2>4. h \in Hook /\ h.at = "end" /\ h.url = source[p][s].url /\ h.made = n + 1
    BY <1>n, <2>2 DEF Hook
  <2>5. QED
    BY <2>1, <2>3, <2>4 DEF g
<1> HIDE DEF h
<1>b. /\ source' \in [Pipeline -> [Slot -> Hook]] /\ source'[p][s] = h
      /\ \A r \in Slot \ {s} : source'[p][r] = source[p][r]
      /\ \A q \in Pipeline \ {p} : source'[q] = source[q]
  BY <1>a, HookPut, HooksAre
<1>e. /\ endpoints' \in Seq(Endpoint) /\ Len(endpoints') = n + 1 /\ endpoints'[n + 1] = new
      /\ DOMAIN endpoints' = 1 .. n + 1 /\ \A e \in 1 .. n : endpoints'[e] = endpoints[e]
  <2>1. endpoints' = Append(endpoints, new) /\ endpoints \in Seq(Endpoint)
    BY DEF SourceCreates, WellTyped
  <2>2. QED
    BY <1>n, <2>1
<1>d. DOMAIN endpoints \subseteq DOMAIN endpoints'
  BY <1>n, <1>e
<1>o. /\ Owned(p)' = Owned(p) \cup {n + 1} /\ \A q \in Pipeline \ {p} : Owned(q)' = Owned(q)
      /\ \A e \in 1 .. n : Enabled(e)' <=> Enabled(e)
  BY <1>n, <1>e DEF Owned, Enabled
<1>0. /\ source[p][s].at = "create" /\ source'[p][s].at = "end"
      /\ source'[p][s].url = source[p][s].url /\ source'[p][s].made = n + 1
      /\ \A r \in Slot \ {s} : source'[p][r] = source[p][r]
      /\ UNCHANGED <<store, workflow, attempts, setup, dest, teardown, spreadsheets,
                     schemas, used, trouble>>
      /\ \A q \in Pipeline \ {p} : source'[q] = source[q]
  BY <1>a, <1>b, <1>n DEF SourceCreates, WellTyped, ResourcesTyped, outside, Hook
<1>1. WellTyped'
  <2>1. /\ endpoints' \in Seq(Endpoint) /\ Len(endpoints') <= MaxCreated + 1
         /\ \A e \in DOMAIN endpoints' : endpoints'[e] \in Endpoint
    BY <1>e, <1>n
  <2>2. /\ \A e \in DOMAIN endpoints' :
              endpoints'[e] \in [url : Url, owner : Pipeline \cup {"user"},
                           status : {"enabled", "disabled", "deleted"}]
    BY <2>1 DEF Endpoint
  <2>3. \A q \in Pipeline :
            /\ store'[q].secret \in DOMAIN endpoints' \cup {None}
            /\ store'[q].sheet \in DOMAIN spreadsheets' \cup {None}
    BY <1>0, <1>d, NamesFit
  <2>4. source' \in [Pipeline -> [Slot -> Hook]]
    BY <1>b
  <2>5. QED
    BY <1>0, <2>1, <2>2, <2>3, <2>4 DEF WellTyped, ResourcesTyped
<1>2. \A r \in Pipeline : used[r] \subseteq used'[r] /\ trouble \subseteq trouble'
  BY <1>0
<1>3. /\ \A q \in Pipeline \ {p} : Outside(q)
      /\ \A q \in Pipeline : Remembers(q)
  <2>1. \A q \in Pipeline : Remembers(q)
    BY <1>0, <1>2, UsedGrows
  <2>2. \A q \in Pipeline \ {p} : EndpointsRest(q)
    BY <1>n, <1>e, <1>o DEF EndpointsRest, Owned
  <2>3. \A q \in Pipeline \ {p} : SheetsRest(q) /\ SchemaRests(q)
    BY <1>0 DEF SheetsRest, SheetsOwned, SchemaRests
  <2>4. QED
    BY <2>1, <2>2, <2>3 DEF Outside
<1>4. \A q \in Pipeline \ {p} : Rests(q)
  BY <1>0 DEF Rests
<1>5. Good(p)'
  <2>0. /\ Good(p) /\ Smooth(p)' => Smooth(p)
        /\ Unspoilt(p, Faults)' => Unspoilt(p, Faults)
        /\ Alone(p)' => Alone(p)
        /\ <<p, "timeout">> \notin trouble' => <<p, "timeout">> \notin trouble
    BY <1>2, <1>3, TroubleStays DEF Remembers
  <2>r. SheetsOwned(p)' = SheetsOwned(p)
    BY <1>0 DEF SheetsOwned
  <2>e. DOMAIN endpoints' = DOMAIN endpoints \cup {n + 1} /\ n + 1 # None
    BY <1>e, <1>n DEF None
  <2> USE DEF Good, Exists, Sheets
  <2>1. Staged(p)'
    BY <1>0, <2>0, <2>r, <2>e DEF Staged
  <2>2. Attempted(p)'
    BY <1>0, <2>0, <2>r, <2>e DEF Attempted, Slot, NoHook
  <2>3. Hooked(p)'
    BY <1>0, <2>0, <2>r, <2>e DEF Hooked, Slot, Attempted
  <2>4. Teared(p)'
    BY <1>0, <2>0, <2>r, <2>e DEF Teared
  <2>5. EndpointsKept(p)'
    <3>1. \A e \in Owned(p)' : endpoints'[e].url \in used'[p]
      BY <1>0, <1>o, <1>e, <1>n, <2>0 DEF EndpointsKept, Hooked, Owned
    <3>2. Smooth(p) => s = "awaited" /\ setup[p].kept /\ workflow[p] \notin {"none", "running"}
      BY <1>0, <2>0 DEF Hooked, Attempted, NoHook, Slot
    <3>3. Smooth(p) => Owned(p) = {} /\ Owned(p)' = {n + 1}
      BY <1>0, <1>o, <1>n, <2>0, <3>2 DEF EndpointsKept, Hooked, Owned, None
    <3>4. Smooth(p) /\ Exists(p) => source[p][s].url = store[p].url
      BY <2>0, <3>2 DEF Hooked
    <3>5. Unspoilt(p, Faults) => workflow[p] # "done" /\ ~teardown[p].source
      BY <2>0, <3>2, TroubleIs DEF Attempted, Teared
    <3>6. QED
      BY <1>0, <1>e, <2>0, <3>1, <3>2, <3>3, <3>4, <3>5, TroubleIs DEF EndpointsKept
  <2>6. SheetsKept(p)'
    BY <1>0, <2>0, <2>r, <2>e DEF SheetsKept, Slot
  <2>7. SchemaKept(p)'
    BY <1>0, <2>0, <2>r, <2>e DEF SchemaKept
  <2>8. Ready(p)'
    BY <1>0, <2>0, <2>r, <2>e DEF Ready
  <2>9. QED
    BY <2>1, <2>2, <2>3, <2>4, <2>5, <2>6, <2>7, <2>8
<1>6. QED
  BY <1>1, <1>3, <1>4, <1>5, StepOf

LEMMA SheetsCreatesStep ==
    ASSUME Inv, NEW p \in Pipeline, NEW s \in Slot, SheetsCreates(p, s)
    PROVE  Inv'
<1> USE DEF Inv
<1> DEFINE n == Len(spreadsheets)
           new == [owner |-> p, ready |-> FALSE, gone |-> FALSE]
<1>n. /\ n \in Nat /\ n < MaxCreated /\ MaxCreated \in Nat /\ n + 1 \in 0 .. MaxCreated + 1
      /\ DOMAIN spreadsheets = 1 .. n /\ new \in Spreadsheet
  BY FieldsAre, ResourcesAssumption DEF SheetsCreates, Spreadsheet
<1> DEFINE g == [dest[p][s] EXCEPT !.at = "prepare"]
           h == [g EXCEPT !.made = n + 1]
<1>a. /\ dest[p][s] \in Hook /\ h \in Hook /\ dest' = [dest EXCEPT ![p][s] = h]
      /\ h.at = "prepare" /\ h.url = dest[p][s].url /\ h.made = n + 1
  <2>1. dest[p][s] \in Hook
    BY FieldsAre
  <2>2. g \in Hook /\ g.at = "prepare" /\ g.url = dest[p][s].url
    BY <2>1 DEF Hook
  <2>3. dest' = [dest EXCEPT ![p][s] =
                      [[dest[p][s] EXCEPT !.at = "prepare"] EXCEPT !.made = n + 1]]
    BY DEF SheetsCreates
  <2> HIDE DEF g
  <2>4. h \in Hook /\ h.at = "prepare" /\ h.url = dest[p][s].url /\ h.made = n + 1
    BY <1>n, <2>2 DEF Hook
  <2>5. QED
    BY <2>1, <2>3, <2>4 DEF g
<1> HIDE DEF h
<1>b. /\ dest' \in [Pipeline -> [Slot -> Hook]] /\ dest'[p][s] = h
      /\ \A r \in Slot \ {s} : dest'[p][r] = dest[p][r]
      /\ \A q \in Pipeline \ {p} : dest'[q] = dest[q]
  BY <1>a, HookPut, HooksAre
<1>e. /\ spreadsheets' \in Seq(Spreadsheet) /\ Len(spreadsheets') = n + 1
      /\ DOMAIN spreadsheets' = 1 .. n + 1 /\ spreadsheets'[n + 1] = new
      /\ \A i \in 1 .. n : spreadsheets'[i] = spreadsheets[i]
  <2>1. spreadsheets' = Append(spreadsheets, new) /\ spreadsheets \in Seq(Spreadsheet)
    BY DEF SheetsCreates, WellTyped
  <2>2. QED
    BY <1>n, <2>1
<1>d. DOMAIN spreadsheets \subseteq DOMAIN spreadsheets'
  BY <1>n, <1>e
<1>o. /\ SheetsOwned(p)' = SheetsOwned(p) \cup {n + 1}
      /\ \A q \in Pipeline \ {p} : SheetsOwned(q)' = SheetsOwned(q)
  BY <1>n, <1>e DEF SheetsOwned
<1>0. /\ dest[p][s].at = "create" /\ dest'[p][s].at = "prepare"
      /\ dest'[p][s].url = dest[p][s].url /\ dest'[p][s].made = n + 1
      /\ \A r \in Slot \ {s} : dest'[p][r] = dest[p][r]
      /\ UNCHANGED <<store, workflow, attempts, setup, source, teardown, endpoints,
                     schemas, used, trouble>>
      /\ \A q \in Pipeline \ {p} : dest'[q] = dest[q]
  BY <1>a, <1>b, <1>n DEF SheetsCreates, WellTyped, ResourcesTyped, outside, Hook
<1>1. WellTyped'
  <2>1. /\ spreadsheets' \in Seq(Spreadsheet) /\ Len(spreadsheets') <= MaxCreated
         /\ \A i \in DOMAIN spreadsheets' : spreadsheets'[i] \in Spreadsheet
    BY <1>e, <1>n
  <2>2. /\ \A i \in DOMAIN spreadsheets' :
               spreadsheets'[i] \in [owner : Pipeline, ready : BOOLEAN, gone : BOOLEAN]
    BY <2>1 DEF Spreadsheet
  <2>3. \A q \in Pipeline :
            /\ store'[q].secret \in DOMAIN endpoints' \cup {None}
            /\ store'[q].sheet \in DOMAIN spreadsheets' \cup {None}
    BY <1>0, <1>d, NamesFit
  <2>4. dest' \in [Pipeline -> [Slot -> Hook]]
    BY <1>b
  <2>5. QED
    BY <1>0, <2>1, <2>2, <2>3, <2>4 DEF WellTyped, ResourcesTyped
<1>2. \A r \in Pipeline : used[r] \subseteq used'[r] /\ trouble \subseteq trouble'
  BY <1>0
<1>3. /\ \A q \in Pipeline \ {p} : Outside(q)
      /\ \A q \in Pipeline : Remembers(q)
  <2>1. \A q \in Pipeline : Remembers(q)
    BY <1>0, <1>2, UsedGrows
  <2>2. \A q \in Pipeline \ {p} : SheetsRest(q)
    BY <1>n, <1>e, <1>o DEF SheetsRest, SheetsOwned
  <2>3. \A q \in Pipeline \ {p} : EndpointsRest(q) /\ SchemaRests(q)
    BY <1>0 DEF EndpointsRest, Owned, Enabled, SchemaRests
  <2>4. QED
    BY <2>1, <2>2, <2>3 DEF Outside
<1>4. \A q \in Pipeline \ {p} : Rests(q)
  BY <1>0 DEF Rests
<1>5. Good(p)'
  <2>0. /\ Good(p) /\ Smooth(p)' => Smooth(p)
        /\ Unspoilt(p, Faults)' => Unspoilt(p, Faults)
        /\ Alone(p)' => Alone(p)
        /\ <<p, "timeout">> \notin trouble' => <<p, "timeout">> \notin trouble
    BY <1>2, <1>3, TroubleStays DEF Remembers
  <2>r. /\ Owned(p)' = Owned(p) /\ \A e \in Owned(p) : Enabled(e)' <=> Enabled(e)
        /\ \A i \in SheetsOwned(p) : i # n + 1 /\ spreadsheets'[i] = spreadsheets[i]
        /\ n + 1 \in SheetsOwned(p)' /\ n + 1 # None
    BY <1>0, <1>n, <1>e, <1>o DEF Owned, SheetsOwned, Enabled, None
  <2> USE DEF Good, Exists, Sheets
  <2>1. Staged(p)'
    BY <1>0, <1>o, <2>0, <2>r DEF Staged
  <2>2. Attempted(p)'
    BY <1>0, <2>0, <2>r DEF Attempted, Slot, NoHook
  <2>3. Hooked(p)'
    BY <1>0, <1>o, <1>e, <2>0, <2>r DEF Hooked, Attempted, Slot
  <2>4. Teared(p)'
    BY <1>0, <1>o, <2>0, <2>r DEF Teared
  <2>5. EndpointsKept(p)'
    BY <1>0, <2>0, <2>r DEF EndpointsKept
  <2>6. SheetsKept(p)'
    <3>1. Sheets(p)
      BY <1>0, <2>0 DEF Hooked
    <3>2. Smooth(p) => s = "awaited" /\ setup[p].kept /\ workflow[p] \notin {"none", "running"}
      BY <1>0, <2>0 DEF Hooked, Attempted, NoHook, Slot
    <3>3. Smooth(p) => SheetsOwned(p) = {} /\ SheetsOwned(p)' = {n + 1}
      BY <1>0, <1>o, <1>n, <2>0, <3>2 DEF SheetsKept, Hooked, SheetsOwned, None
    <3>4. Unspoilt(p, Faults) => workflow[p] # "done" /\ ~teardown[p].dest
      BY <2>0, <3>2, TroubleIs DEF Attempted, Teared
    <3>5. QED
      BY <1>0, <1>e, <1>o, <2>0, <2>r, <3>1, <3>2, <3>3, <3>4, TroubleIs DEF SheetsKept
  <2>7. SchemaKept(p)'
    BY <1>0, <2>0, <2>r DEF SchemaKept
  <2>8. Ready(p)'
    BY <1>0, <2>0, <2>r DEF Ready
  <2>9. QED
    BY <2>1, <2>2, <2>3, <2>4, <2>5, <2>6, <2>7, <2>8
<1>6. QED
  BY <1>1, <1>3, <1>4, <1>5, StepOf

-----------------------------------------------------------------------------
LEMMA HooksPut ==
    ASSUME NEW hooks \in [Pipeline -> [Slot -> Hook]], NEW after, NEW p \in Pipeline,
           NEW h \in [Slot -> Hook], after = [hooks EXCEPT ![p] = h]
    PROVE  /\ after \in [Pipeline -> [Slot -> Hook]] /\ after[p] = h
           /\ \A q \in Pipeline \ {p} : after[q] = hooks[q]
  OBVIOUS

LEMMA AbandonedIs ==
    ASSUME NEW hooks \in [Slot -> Hook], NoHook \in Hook
    PROVE  /\ Abandoned(hooks) \in [Slot -> Hook] /\ Abandoned(hooks)["awaited"] = NoHook
           /\ Abandoned(hooks)["late"] \in {hooks["late"], hooks["awaited"]}
  BY DEF Abandoned, Slot

LEMMA DestPreparesStep ==
    ASSUME Inv, NEW p \in Pipeline, NEW s \in Slot, DestPrepares(p, s)
    PROVE  Inv'
<1> USE DEF Inv
<1> DEFINE h == [dest[p][s] EXCEPT !.at = "end"]
<1>a. dest[p][s] \in Hook /\ h \in Hook /\ dest' = [dest EXCEPT ![p][s] = h]
  BY HooksAre, FieldsAre DEF DestPrepares, Hook
<1> HIDE DEF h
<1>b. /\ dest' \in [Pipeline -> [Slot -> Hook]] /\ dest'[p][s] = h
      /\ \A r \in Slot \ {s} : dest'[p][r] = dest[p][r]
      /\ \A q \in Pipeline \ {p} : dest'[q] = dest[q]
  BY <1>a, HookPut, HooksAre
<1> USE DEF h
<1> DEFINE m == dest[p][s].made
<1>m. Sheets(p) => m \in SheetsOwned(p)
  BY <1>a DEF DestPrepares, Good, Hooked
<1>e. /\ spreadsheets' \in Seq(Spreadsheet) /\ Len(spreadsheets') = Len(spreadsheets)
      /\ DOMAIN spreadsheets' = DOMAIN spreadsheets
      /\ \A i \in DOMAIN spreadsheets :
            /\ spreadsheets'[i].owner = spreadsheets[i].owner
            /\ spreadsheets'[i].gone = spreadsheets[i].gone
            /\ spreadsheets[i].ready => spreadsheets'[i].ready
            /\ Sheets(p) /\ i = m => spreadsheets'[i].ready
            /\ spreadsheets[i].owner # p => spreadsheets'[i] = spreadsheets[i]
  <2>0. spreadsheets \in Seq(Spreadsheet) /\ DOMAIN spreadsheets = 1 .. Len(spreadsheets)
    BY FieldsAre DEF WellTyped
  <2>1. CASE Sheets(p)
    <3>1. m \in DOMAIN spreadsheets /\ spreadsheets[m].owner = p
      BY <1>m, <2>1 DEF SheetsOwned
    <3>2. [spreadsheets[m] EXCEPT !.ready = TRUE] \in Spreadsheet
      BY <3>1, FieldsAre DEF Spreadsheet
    <3>3. spreadsheets' = [spreadsheets EXCEPT ![m] = [spreadsheets[m] EXCEPT !.ready = TRUE]]
      BY <2>1 DEF DestPrepares
    <3>4. spreadsheets' \in Seq(Spreadsheet) /\ Len(spreadsheets') = Len(spreadsheets)
      BY <2>0, <3>1, <3>2, <3>3
    <3>5. spreadsheets[m] \in Spreadsheet
      BY <3>1, FieldsAre
    <3>6. /\ spreadsheets'[m].owner = spreadsheets[m].owner
          /\ spreadsheets'[m].gone = spreadsheets[m].gone /\ spreadsheets'[m].ready
      BY <3>1, <3>3, <3>5 DEF Spreadsheet
    <3>7. QED
      BY <2>0, <3>1, <3>3, <3>4, <3>6
  <2>2. CASE ~Sheets(p)
    <3>1. spreadsheets' = spreadsheets
      BY <2>2 DEF DestPrepares
    <3>2. QED
      BY <2>0, <2>2, <3>1
  <2>3. QED
    BY <2>1, <2>2
<1>c. /\ Sheets(p) => schemas' = schemas
      /\ ~Sheets(p) => schemas' = schemas \cup {p}
  BY DEF DestPrepares
<1>o. /\ \A q \in Pipeline : SheetsOwned(q)' = SheetsOwned(q)
  BY <1>e DEF SheetsOwned
<1>0. /\ dest[p][s].at = "prepare" /\ dest'[p][s].at = "end"
      /\ dest'[p][s].url = dest[p][s].url /\ dest'[p][s].made = dest[p][s].made
      /\ \A r \in Slot \ {s} : dest'[p][r] = dest[p][r]
      /\ UNCHANGED <<store, workflow, attempts, setup, source, teardown, endpoints, used,
                     trouble>>
      /\ \A q \in Pipeline \ {p} : dest'[q] = dest[q]
  BY <1>a, <1>b DEF DestPrepares, WellTyped, ResourcesTyped, outside, Hook
<1>1. WellTyped'
  <2>1. /\ spreadsheets' \in Seq(Spreadsheet) /\ Len(spreadsheets') <= MaxCreated
         /\ schemas' \subseteq Pipeline
    BY <1>c, <1>e DEF WellTyped, ResourcesTyped
  <2>2. \A i \in DOMAIN spreadsheets' : spreadsheets'[i] \in Spreadsheet
    BY <2>1
  <2>3. \A i \in DOMAIN spreadsheets' :
             spreadsheets'[i] \in [owner : Pipeline, ready : BOOLEAN, gone : BOOLEAN]
    BY <2>2 DEF Spreadsheet
  <2>4. \A q \in Pipeline :
            /\ store'[q].secret \in DOMAIN endpoints' \cup {None}
            /\ store'[q].sheet \in DOMAIN spreadsheets' \cup {None}
    BY <1>0, <1>e, NamesFit
  <2>5. dest' \in [Pipeline -> [Slot -> Hook]]
    BY <1>b
  <2>6. QED
    BY <1>0, <2>1, <2>2, <2>3, <2>4, <2>5 DEF WellTyped, ResourcesTyped
<1>2. \A r \in Pipeline : used[r] \subseteq used'[r] /\ trouble \subseteq trouble'
  BY <1>0
<1>3. /\ \A q \in Pipeline \ {p} : Outside(q)
      /\ \A q \in Pipeline : Remembers(q)
  <2>1. \A q \in Pipeline : Remembers(q)
    BY <1>0, <1>2, UsedGrows
  <2>2. \A q \in Pipeline \ {p} : SheetsRest(q)
    BY <1>e, <1>o DEF SheetsRest, SheetsOwned
  <2>3. \A q \in Pipeline \ {p} : EndpointsRest(q) /\ SchemaRests(q)
    BY <1>0, <1>c DEF EndpointsRest, Owned, Enabled, SchemaRests
  <2>4. QED
    BY <2>1, <2>2, <2>3 DEF Outside
<1>4. \A q \in Pipeline \ {p} : Rests(q)
  BY <1>0 DEF Rests
<1>5. Good(p)'
  <2>0. /\ Good(p) /\ Smooth(p)' => Smooth(p)
        /\ Unspoilt(p, Faults)' => Unspoilt(p, Faults)
        /\ Alone(p)' => Alone(p)
        /\ <<p, "timeout">> \notin trouble' => <<p, "timeout">> \notin trouble
    BY <1>2, <1>3, TroubleStays DEF Remembers
  <2>r. /\ Owned(p)' = Owned(p) /\ \A e \in Owned(p) : Enabled(e)' <=> Enabled(e)
        /\ SheetsOwned(p)' = SheetsOwned(p)
        /\ \A i \in SheetsOwned(p) : /\ spreadsheets'[i].gone = spreadsheets[i].gone
                                     /\ spreadsheets[i].ready => spreadsheets'[i].ready
                                     /\ Sheets(p) /\ i = m => spreadsheets'[i].ready
    BY <1>0, <1>e, <1>o DEF Owned, SheetsOwned, Enabled
  <2> USE DEF Good, Exists, Sheets
  <2>1. Staged(p)'
    BY <1>0, <2>0, <2>r DEF Staged
  <2>2. Attempted(p)'
    BY <1>0, <2>0, <2>r DEF Attempted, Slot, NoHook
  <2>3. Hooked(p)'
    BY <1>0, <1>c, <1>m, <2>0, <2>r DEF Hooked, Attempted, Slot
  <2>4. Teared(p)'
    BY <1>0, <2>0, <2>r DEF Teared
  <2>5. EndpointsKept(p)'
    BY <1>0, <2>0, <2>r DEF EndpointsKept
  <2>6. SheetsKept(p)'
    BY <1>0, <2>0, <2>r DEF SheetsKept, Slot, Hooked
  <2>7. SchemaKept(p)'
    <3>1. Smooth(p) => setup[p].kept
      BY <1>0, <2>0 DEF Hooked, Attempted, NoHook, Slot
    <3>2. Unspoilt(p, Faults) => workflow[p] # "done" /\ ~teardown[p].dest
      BY <2>0, <3>1, TroubleIs DEF Attempted, Teared
    <3>3. QED
      BY <1>0, <1>c, <2>0, <3>2 DEF SchemaKept
  <2>8. Ready(p)'
    BY <1>0, <2>0, <2>r, <1>c DEF Ready
  <2>9. QED
    BY <2>1, <2>2, <2>3, <2>4, <2>5, <2>6, <2>7, <2>8
<1>6. QED
  BY <1>1, <1>3, <1>4, <1>5, StepOf

LEMMA LateEndsStep ==
    ASSUME Inv, NEW p \in Pipeline, LateEnds(p)
    PROVE  Inv'
<1> USE DEF Inv
<1>a. /\ source' = [source EXCEPT ![p]["late"] = NoHook] \/ source' = source
      /\ dest' = [dest EXCEPT ![p]["late"] = NoHook] \/ dest' = dest
  BY DEF LateEnds
<1>b. /\ source' \in [Pipeline -> [Slot -> Hook]] /\ source'[p]["awaited"] = source[p]["awaited"]
      /\ source'[p]["late"] \in {NoHook, source[p]["late"]}
      /\ \A q \in Pipeline \ {p} : source'[q] = source[q]
  <2>1. CASE source' = source
    BY <2>1, HooksAre
  <2>2. CASE source' = [source EXCEPT ![p]["late"] = NoHook]
    BY <2>2, HookPut, HooksAre DEF Slot
  <2>3. QED
    BY <1>a, <2>1, <2>2
<1>c. /\ dest' \in [Pipeline -> [Slot -> Hook]] /\ dest'[p]["awaited"] = dest[p]["awaited"]
      /\ dest'[p]["late"] \in {NoHook, dest[p]["late"]}
      /\ \A q \in Pipeline \ {p} : dest'[q] = dest[q]
  <2>1. CASE dest' = dest
    BY <2>1, HooksAre
  <2>2. CASE dest' = [dest EXCEPT ![p]["late"] = NoHook]
    BY <2>2, HookPut, HooksAre DEF Slot
  <2>3. QED
    BY <1>a, <2>1, <2>2
<1>0. /\ source'[p]["awaited"] = source[p]["awaited"]
      /\ dest'[p]["awaited"] = dest[p]["awaited"]
      /\ source'[p]["late"] \in {NoHook, source[p]["late"]}
      /\ dest'[p]["late"] \in {NoHook, dest[p]["late"]}
      /\ UNCHANGED <<store, workflow, attempts, setup, teardown, endpoints, spreadsheets,
                     schemas, used, trouble>>
      /\ \A q \in Pipeline \ {p} : /\ source'[q] = source[q] /\ dest'[q] = dest[q]
  BY <1>b, <1>c DEF LateEnds, WellTyped, ResourcesTyped, outside
<1>1. WellTyped'
  <2>1. source' \in [Pipeline -> [Slot -> Hook]]
    BY <1>b
  <2>2. dest' \in [Pipeline -> [Slot -> Hook]]
    BY <1>c
  <2>3. QED
    BY <1>0, <2>1, <2>2 DEF WellTyped, ResourcesTyped
<1>2. \A r \in Pipeline : used[r] \subseteq used'[r] /\ trouble \subseteq trouble'
  BY <1>0
<1>3. \A q \in Pipeline : Outside(q) /\ Remembers(q)
  BY <1>0, <1>2, OutsideSame, UsedGrows DEF outside
<1>4. \A q \in Pipeline \ {p} : Rests(q)
  BY <1>0 DEF Rests
<1>5. Good(p)'
  <2>0. /\ Good(p) /\ Smooth(p)' => Smooth(p)
        /\ Unspoilt(p, Faults)' => Unspoilt(p, Faults)
        /\ Alone(p)' => Alone(p)
        /\ <<p, "timeout">> \notin trouble' => <<p, "timeout">> \notin trouble
    BY <1>2, <1>3, TroubleStays DEF Remembers
  <2>r. Outside(p)
    BY <1>3
  <2> USE DEF Good, Exists, Sheets, Outside, EndpointsRest, SheetsRest, SchemaRests
  <2>1. Staged(p)'
    BY <1>0, <2>0, <2>r DEF Staged
  <2>2. Attempted(p)'
    BY <1>0, <2>0, <2>r DEF Attempted
  <2>3. Hooked(p)'
    BY <1>0, <2>0, <2>r DEF Hooked, Slot, NoHook, None
  <2>4. Teared(p)'
    BY <1>0, <2>0, <2>r DEF Teared
  <2>5. EndpointsKept(p)'
    BY <1>0, <2>0, <2>r DEF EndpointsKept
  <2>6. SheetsKept(p)'
    BY <1>0, <2>0, <2>r DEF SheetsKept
  <2>7. SchemaKept(p)'
    BY <1>0, <2>0, <2>r DEF SchemaKept
  <2>8. Ready(p)'
    BY <1>0, <2>0, <2>r DEF Ready
  <2>9. QED
    BY <2>1, <2>2, <2>3, <2>4, <2>5, <2>6, <2>7, <2>8
<1>6. QED
  BY <1>1, <1>3, <1>4, <1>5, StepOf

LEMMA SetupTimeoutStep ==
    ASSUME Inv, NEW p \in Pipeline, SetupTimeout(p)
    PROVE  Inv'
<1> USE DEF Inv
<1>c. source[p] \in [Slot -> Hook] /\ dest[p] \in [Slot -> Hook] /\ NoHook \in Hook
  BY HooksAre
<1>a. /\ source' = [source EXCEPT ![p] = Abandoned(source[p])] \/ source' = source
      /\ dest' = [dest EXCEPT ![p] = Abandoned(dest[p])] \/ dest' = dest
  BY DEF SetupTimeout
<1>b. /\ source' \in [Pipeline -> [Slot -> Hook]]
      /\ source'[p]["awaited"] \in {NoHook, source[p]["awaited"]}
      /\ source'[p]["late"] \in {source[p]["awaited"], source[p]["late"]}
      /\ \A q \in Pipeline \ {p} : source'[q] = source[q]
  BY <1>a, <1>c, HooksPut, HooksAre, AbandonedIs
<1>d. /\ dest' \in [Pipeline -> [Slot -> Hook]]
      /\ dest'[p]["awaited"] \in {NoHook, dest[p]["awaited"]}
      /\ dest'[p]["late"] \in {dest[p]["awaited"], dest[p]["late"]}
      /\ \A q \in Pipeline \ {p} : dest'[q] = dest[q]
  BY <1>a, <1>c, HooksPut, HooksAre, AbandonedIs
<1>0. /\ source'[p]["awaited"] \in {NoHook, source[p]["awaited"]}
      /\ dest'[p]["awaited"] \in {NoHook, dest[p]["awaited"]}
      /\ source'[p]["late"] \in {source[p]["awaited"], source[p]["late"]}
      /\ dest'[p]["late"] \in {dest[p]["awaited"], dest[p]["late"]}
      /\ setup[p].kept
      /\ UNCHANGED <<store, workflow, attempts, setup, teardown, endpoints, spreadsheets,
                     schemas, used>>
      /\ \A q \in Pipeline \ {p} : /\ source'[q] = source[q] /\ dest'[q] = dest[q]
  BY <1>b, <1>d DEF SetupTimeout, WellTyped, ResourcesTyped, outside
<1>t. /\ trouble \subseteq trouble' /\ <<p, "timeout">> \in trouble'
      /\ trouble' \subseteq Pipeline \X Faults
  BY TroubleGrows DEF SetupTimeout, WellTyped, Faults
<1>1. WellTyped'
  <2>1. source' \in [Pipeline -> [Slot -> Hook]]
    BY <1>b
  <2>2. dest' \in [Pipeline -> [Slot -> Hook]]
    BY <1>d
  <2>3. QED
    BY <1>0, <1>t, <2>1, <2>2 DEF WellTyped, ResourcesTyped
<1>2. \A r \in Pipeline : used[r] \subseteq used'[r] /\ trouble \subseteq trouble'
  BY <1>0, <1>t
<1>3. \A q \in Pipeline : Outside(q) /\ Remembers(q)
  BY <1>0, <1>2, OutsideSame, UsedGrows DEF outside
<1>4. \A q \in Pipeline \ {p} : Rests(q)
  BY <1>0 DEF Rests
<1>5. Good(p)'
  <2>0. /\ Good(p) /\ Smooth(p)' => Smooth(p)
        /\ Unspoilt(p, Faults)' => Unspoilt(p, Faults)
        /\ Alone(p)' => Alone(p)
        /\ <<p, "timeout">> \notin trouble' => <<p, "timeout">> \notin trouble
    BY <1>2, <1>3, TroubleStays DEF Remembers
  <2>r. Outside(p)
    BY <1>3
  <2>s. ~Smooth(p)' /\ ~Unspoilt(p, Faults)'
    BY <1>t DEF Smooth, Unspoilt, Faults
  <2> USE DEF Good, Exists, Sheets, Outside, EndpointsRest, SheetsRest, SchemaRests
  <2>1. Staged(p)'
    BY <1>0, <2>0, <2>r, <2>s DEF Staged
  <2>2. Attempted(p)'
    BY <1>0, <2>0, <2>r, <2>s, <1>t DEF Attempted
  <2>3. Hooked(p)'
    BY <1>0, <2>0, <2>r, <2>s DEF Hooked, Slot, NoHook, None
  <2>4. Teared(p)'
    BY <1>0, <2>0, <2>r, <2>s DEF Teared
  <2>5. EndpointsKept(p)'
    BY <1>0, <2>0, <2>r, <2>s DEF EndpointsKept
  <2>6. SheetsKept(p)'
    BY <1>0, <2>0, <2>r, <2>s DEF SheetsKept
  <2>7. SchemaKept(p)'
    BY <1>0, <2>0, <2>r, <2>s DEF SchemaKept
  <2>8. Ready(p)'
    BY <1>0, <2>0, <2>r, <2>s DEF Ready
  <2>9. QED
    BY <2>1, <2>2, <2>3, <2>4, <2>5, <2>6, <2>7, <2>8
<1>6. QED
  BY <1>1, <1>3, <1>4, <1>5, StepOf

LEMMA SetupFailsStep ==
    ASSUME Inv, NEW p \in Pipeline, SetupFails(p)
    PROVE  Inv'
<1> USE DEF Inv
<1>c. source[p] \in [Slot -> Hook] /\ dest[p] \in [Slot -> Hook] /\ NoHook \in Hook
  BY HooksAre
<1>a. /\ \/ source' = [source EXCEPT ![p] = Abandoned(source[p])]
         \/ source' = [source EXCEPT ![p]["awaited"] = NoHook]
      /\ \/ dest' = [dest EXCEPT ![p] = Abandoned(dest[p])]
         \/ dest' = [dest EXCEPT ![p]["awaited"] = NoHook]
  BY DEF SetupFails
<1>b. /\ source' \in [Pipeline -> [Slot -> Hook]] /\ source'[p]["awaited"] = NoHook
      /\ source'[p]["late"] \in {source[p]["awaited"], source[p]["late"]}
      /\ \A q \in Pipeline \ {p} : source'[q] = source[q]
  <2>1. CASE source' = [source EXCEPT ![p] = Abandoned(source[p])]
    BY <1>c, <2>1, HooksPut, HooksAre, AbandonedIs
  <2>2. CASE source' = [source EXCEPT ![p]["awaited"] = NoHook]
    BY <2>2, HookPut, HooksAre DEF Slot
  <2>3. QED
    BY <1>a, <2>1, <2>2
<1>d. /\ dest' \in [Pipeline -> [Slot -> Hook]] /\ dest'[p]["awaited"] = NoHook
      /\ dest'[p]["late"] \in {dest[p]["awaited"], dest[p]["late"]}
      /\ \A q \in Pipeline \ {p} : dest'[q] = dest[q]
  <2>1. CASE dest' = [dest EXCEPT ![p] = Abandoned(dest[p])]
    BY <1>c, <2>1, HooksPut, HooksAre, AbandonedIs
  <2>2. CASE dest' = [dest EXCEPT ![p]["awaited"] = NoHook]
    BY <2>2, HookPut, HooksAre DEF Slot
  <2>3. QED
    BY <1>a, <2>1, <2>2
<1>0. /\ source'[p]["awaited"] = NoHook /\ dest'[p]["awaited"] = NoHook
      /\ source'[p]["late"] \in {source[p]["awaited"], source[p]["late"]}
      /\ dest'[p]["late"] \in {dest[p]["awaited"], dest[p]["late"]}
      /\ setup[p].kept /\ setup'[p] = NoRecord
      /\ \/ workflow'[p] = workflow[p] /\ attempts'[p] = attempts[p] /\ workflow[p] # "setup"
         \/ /\ workflow[p] = "setup" /\ attempts'[p] = attempts[p] + 1
            /\ workflow'[p] = IF attempts[p] + 1 = MaxAttempts THEN "failed" ELSE "setup"
      /\ UNCHANGED <<store, teardown, endpoints, spreadsheets, schemas, used>>
      /\ \A q \in Pipeline \ {p} : /\ workflow'[q] = workflow[q]
                                   /\ attempts'[q] = attempts[q] /\ setup'[q] = setup[q]
                                   /\ source'[q] = source[q] /\ dest'[q] = dest[q]
  BY <1>b, <1>d DEF SetupFails, WellTyped, ResourcesTyped, outside, Failed
<1>t. /\ trouble \subseteq trouble' /\ <<p, "failed">> \in trouble'
      /\ trouble' \subseteq Pipeline \X Faults
  BY TroubleGrows DEF SetupFails, WellTyped, Faults
<1>1. WellTyped'
  <2>1. NoRecord \in Record
    BY ResourcesAssumption DEF NoRecord, Record, None
  <2>2. workflow[p] = "setup" => attempts[p] + 1 \in 0 .. MaxAttempts
    BY FieldsAre, ResourcesAssumption DEF Good, Staged
  <2>3. workflow' \in [Pipeline -> {"none", "setup", "running", "teardown", "done", "failed"}]
    BY DEF SetupFails, Failed, WellTyped, ResourcesTyped
  <2>4. attempts' \in [Pipeline -> 0 .. MaxAttempts]
    BY <2>2 DEF SetupFails, Failed, WellTyped, ResourcesTyped
  <2>5. setup' \in [Pipeline -> Record]
    BY <2>1 DEF SetupFails, WellTyped, ResourcesTyped
  <2>6. source' \in [Pipeline -> [Slot -> Hook]]
    BY <1>b
  <2>7. dest' \in [Pipeline -> [Slot -> Hook]]
    BY <1>d
  <2>8. QED
    BY <1>0, <1>t, <2>1, <2>2, <2>3, <2>4, <2>5, <2>6, <2>7 DEF WellTyped, ResourcesTyped
<1>2. \A r \in Pipeline : used[r] \subseteq used'[r] /\ trouble \subseteq trouble'
  BY <1>0, <1>t
<1>3. \A q \in Pipeline : Outside(q) /\ Remembers(q)
  BY <1>0, <1>2, OutsideSame, UsedGrows DEF outside
<1>4. \A q \in Pipeline \ {p} : Rests(q)
  BY <1>0 DEF Rests
<1>5. Good(p)'
  <2>0. /\ Good(p) /\ Smooth(p)' => Smooth(p)
        /\ Unspoilt(p, Faults)' => Unspoilt(p, Faults)
        /\ Alone(p)' => Alone(p)
        /\ <<p, "timeout">> \notin trouble' => <<p, "timeout">> \notin trouble
    BY <1>2, <1>3, TroubleStays DEF Remembers
  <2>r. Outside(p)
    BY <1>3
  <2>s. ~Smooth(p)' /\ ~Unspoilt(p, Faults)'
    BY <1>t DEF Smooth, Unspoilt, Faults
  <2> USE DEF Good, Exists, Sheets, Outside, EndpointsRest, SheetsRest, SchemaRests
  <2>1. Staged(p)'
    <3>1. workflow'[p] \in {"none", "setup", "teardown"} => attempts'[p] < MaxAttempts
      BY <1>0, <2>0, FieldsAre, ResourcesAssumption DEF Staged
    <3>2. QED
      BY <1>0, <2>0, <2>r, <3>1 DEF Staged
  <2>2. Attempted(p)'
    BY <1>0, <2>0, <2>r, <2>s DEF Attempted, NoHook, NoRecord, None
  <2>3. Hooked(p)'
    BY <1>0, <2>0, <2>r, <2>s DEF Hooked, Slot, NoHook, NoRecord, None
  <2>4. Teared(p)'
    BY <1>0, <2>0, <2>r, <2>s DEF Teared
  <2>5. EndpointsKept(p)'
    BY <1>0, <2>0, <2>r, <2>s DEF EndpointsKept
  <2>6. SheetsKept(p)'
    BY <1>0, <2>0, <2>r, <2>s DEF SheetsKept
  <2>7. SchemaKept(p)'
    BY <1>0, <2>0, <2>r, <2>s DEF SchemaKept
  <2>8. Ready(p)'
    BY <1>0, <2>0, <2>r, <2>s DEF Ready
  <2>9. QED
    BY <2>1, <2>2, <2>3, <2>4, <2>5, <2>6, <2>7, <2>8
<1>6. QED
  BY <1>1, <1>3, <1>4, <1>5, StepOf

\* What a setup that ends may have changed in the record.
LEMMA ControlsAre ==
    ASSUME Inv, NEW p \in Pipeline, NEW account \in BOOLEAN, setup[p].kept
    PROVE  LET w == WithControls(store[p], p, account)
               s == source[p]["awaited"]
               d == dest[p]["awaited"]
           IN  /\ w \in Record /\ w.kept = store[p].kept
               /\ w.url \in {store[p].url, setup[p].url}
               /\ w.secret \in {store[p].secret, None, s.made}
               /\ s.at = "end" /\ s.made # None => w.secret = s.made
               /\ w.sheet = IF d.at = "end" THEN d.made ELSE store[p].sheet
<1> DEFINE s == source[p]["awaited"]
           d == dest[p]["awaited"]
           secret == IF setup[p].secret = None THEN s.made ELSE setup[p].secret
           reports == s.at = "end" /\ (account \/ secret # setup[p].secret)
           created == d.at = "end" /\ setup[p].sheet = None
           url == IF reports THEN setup[p].url ELSE store[p].url
           told == IF reports THEN secret ELSE store[p].secret
           sheet == IF created THEN d.made ELSE store[p].sheet
           w == [store[p] EXCEPT !.url = url, !.secret = told, !.sheet = sheet]
<1>1. WithControls(store[p], p, account) = w
  BY DEF WithControls
<1>2. /\ store[p] \in Record /\ setup[p] \in Record /\ s \in Hook /\ d \in Hook
      /\ setup[p].secret = None /\ setup[p].sheet = None
      /\ s.made \in DOMAIN endpoints \cup {None} /\ (d.made # None => d.made \in SheetsOwned(p))
  BY FieldsAre DEF Inv, Good, Attempted, Hooked, Slot
<1>3. url \in Url \cup {None} /\ told \in 0 .. MaxCreated + 1
  BY <1>2 DEF Record, Hook
<1>4. sheet \in 0 .. MaxCreated
  <2>1. d.made \in 0 .. MaxCreated
    <3>1. CASE d.made = None
      BY <3>1, ResourcesAssumption DEF None
    <3>2. CASE d.made # None
      <4>1. d.made \in DOMAIN spreadsheets /\ Len(spreadsheets) <= MaxCreated
        BY <1>2, <3>2 DEF SheetsOwned, Inv, WellTyped
      <4>2. QED
        BY <4>1, FieldsAre, ResourcesAssumption DEF Inv
    <3>3. QED
      BY <3>1, <3>2
  <2>2. QED
    BY <1>2, <2>1 DEF Record
<1>5. /\ url \in {store[p].url, setup[p].url} /\ told \in {store[p].secret, None, s.made}
      /\ s.at = "end" /\ s.made # None => told = s.made
      /\ sheet = IF d.at = "end" THEN d.made ELSE store[p].sheet
  BY <1>2
<1> HIDE DEF url, told, sheet
<1>6. /\ w.url = url /\ w.secret = told /\ w.sheet = sheet /\ w.kept = store[p].kept /\ w \in Record
  BY <1>2, <1>3, <1>4 DEF Record
<1>7. QED
  BY <1>1, <1>5, <1>6

LEMMA EndSetupStep ==
    ASSUME Inv, NEW p \in Pipeline, EndSetup(p)
    PROVE  Inv'
<1> USE DEF Inv
<1> DEFINE s == source[p]["awaited"]
           d == dest[p]["awaited"]
<1>a. /\ source' = [source EXCEPT ![p]["awaited"] = NoHook] /\ setup[p].kept
      /\ dest' = [dest EXCEPT ![p]["awaited"] = NoHook]
  BY DEF EndSetup
<1>b. /\ source' \in [Pipeline -> [Slot -> Hook]] /\ source'[p]["awaited"] = NoHook
      /\ source'[p]["late"] = source[p]["late"]
      /\ \A q \in Pipeline \ {p} : source'[q] = source[q]
  BY <1>a, HookPut, HooksAre DEF Slot
<1>c. /\ dest' \in [Pipeline -> [Slot -> Hook]] /\ dest'[p]["awaited"] = NoHook
      /\ dest'[p]["late"] = dest[p]["late"]
      /\ \A q \in Pipeline \ {p} : dest'[q] = dest[q]
  BY <1>a, HookPut, HooksAre DEF Slot
<1>d. PICK account \in BOOLEAN :
        store' = [store EXCEPT ![p] = IF Exists(p) THEN WithControls(@, p, account) ELSE @]
  BY DEF EndSetup
<1>e. /\ store' \in [Pipeline -> Record] /\ \A q \in Pipeline \ {p} : store'[q] = store[q]
      /\ store'[p].kept = store[p].kept /\ store'[p].url \in {store[p].url, setup[p].url}
      /\ store'[p].secret \in {store[p].secret, None, s.made}
      /\ store[p].kept /\ s.at = "end" /\ s.made # None => store'[p].secret = s.made
      /\ store'[p].sheet = IF store[p].kept /\ d.at = "end" THEN d.made ELSE store[p].sheet
  <2> DEFINE w == WithControls(store[p], p, account)
  <2>0. store \in [Pipeline -> Record]
    BY DEF WellTyped, ResourcesTyped
  <2>1. /\ w \in Record /\ w.kept = store[p].kept
        /\ w.url \in {store[p].url, setup[p].url} /\ w.secret \in {store[p].secret, None, s.made}
        /\ s.at = "end" /\ s.made # None => w.secret = s.made
        /\ w.sheet = IF d.at = "end" THEN d.made ELSE store[p].sheet
    BY <1>a, ControlsAre
  <2> HIDE DEF w
  <2>2. store' = [store EXCEPT ![p] = IF store[p].kept THEN w ELSE store[p]]
    BY <1>d DEF w, Exists
  <2>3. store'[p] = (IF store[p].kept THEN w ELSE store[p]) /\ store[p] \in Record
    BY <2>0, <2>2
  <2>4. store' \in [Pipeline -> Record] /\ \A q \in Pipeline \ {p} : store'[q] = store[q]
    BY <2>0, <2>1, <2>2
  <2>5. QED
    BY <2>1, <2>3, <2>4
<1>0. /\ source'[p]["awaited"] = NoHook /\ dest'[p]["awaited"] = NoHook
      /\ source'[p]["late"] = source[p]["late"] /\ dest'[p]["late"] = dest[p]["late"]
      /\ s.at \in {"off", "end"} /\ d.at \in {"off", "end"}
      /\ setup[p].kept /\ setup'[p] = NoRecord
      /\ workflow'[p] = IF workflow[p] = "setup" THEN "running" ELSE workflow[p]
      /\ attempts'[p] = IF workflow[p] = "setup" THEN 0 ELSE attempts[p]
      /\ UNCHANGED <<teardown, endpoints, spreadsheets, schemas, used, trouble>>
      /\ \A q \in Pipeline \ {p} : /\ store'[q] = store[q] /\ workflow'[q] = workflow[q]
                                   /\ attempts'[q] = attempts[q] /\ setup'[q] = setup[q]
                                   /\ source'[q] = source[q] /\ dest'[q] = dest[q]
  BY <1>b, <1>c, <1>e DEF EndSetup, WellTyped, ResourcesTyped, outside, HooksEnded, Ended
<1>1. WellTyped'
  <2>1. NoRecord \in Record
    BY ResourcesAssumption DEF NoRecord, Record, None
  <2>2. \A q \in Pipeline :
             /\ store'[q].secret \in DOMAIN endpoints' \cup {None}
             /\ store'[q].sheet \in DOMAIN spreadsheets' \cup {None}
    BY <1>0, <1>e, NamesFit DEF Good, Hooked, Slot, SheetsOwned
  <2>3. store' \in [Pipeline -> Record]
    BY <1>e
  <2>4. workflow' \in [Pipeline -> {"none", "setup", "running", "teardown", "done", "failed"}]
    BY DEF EndSetup, WellTyped, ResourcesTyped
  <2>5. attempts' \in [Pipeline -> 0 .. MaxAttempts]
    BY ResourcesAssumption DEF EndSetup, WellTyped, ResourcesTyped
  <2>6. setup' \in [Pipeline -> Record]
    BY <2>1 DEF EndSetup, WellTyped, ResourcesTyped
  <2>7. source' \in [Pipeline -> [Slot -> Hook]]
    BY <1>b
  <2>8. dest' \in [Pipeline -> [Slot -> Hook]]
    BY <1>c
  <2>9. QED
    BY <1>0, <2>1, <2>2, <2>3, <2>4, <2>5, <2>6, <2>7, <2>8 DEF WellTyped, ResourcesTyped
<1>2. \A r \in Pipeline : used[r] \subseteq used'[r] /\ trouble \subseteq trouble'
  BY <1>0
<1>3. \A q \in Pipeline : Outside(q) /\ Remembers(q)
  BY <1>0, <1>2, OutsideSame, UsedGrows DEF outside
<1>4. \A q \in Pipeline \ {p} : Rests(q)
  BY <1>0 DEF Rests
<1>5. Good(p)'
  <2>0. /\ Good(p) /\ Smooth(p)' => Smooth(p)
        /\ Unspoilt(p, Faults)' => Unspoilt(p, Faults)
        /\ Alone(p)' => Alone(p)
        /\ <<p, "timeout">> \notin trouble' => <<p, "timeout">> \notin trouble
    BY <1>2, <1>3, TroubleStays DEF Remembers
  <2>r. Outside(p)
    BY <1>3
  <2> USE DEF Good, Exists, Sheets, Outside, EndpointsRest, SheetsRest, SchemaRests
  <2>1. Staged(p)'
    <3>1. workflow[p] \notin {"none", "running"} /\ workflow'[p] \notin {"none", "setup"}
      BY <1>0, <2>0 DEF Attempted
    <3>2. workflow'[p] = "teardown" => attempts'[p] < MaxAttempts
      BY <1>0, <2>0 DEF Staged
    <3>3. store'[p].url \in used'[p] \cup {None}
      BY <1>0, <1>e, <2>0 DEF Staged, Attempted
    <3>4. store'[p].sheet # None =>
             store'[p].sheet \in SheetsOwned(p) /\ spreadsheets[store'[p].sheet].ready
      <4>1. CASE store'[p].sheet = store[p].sheet
        BY <2>0, <4>1 DEF Staged
      <4>2. CASE d.at = "end" /\ store'[p].sheet = d.made
        <5>1. d.made # None => d.made \in SheetsOwned(p) /\ Sheets(p)
          BY <2>0 DEF Hooked, SheetsKept, Slot
        <5>2. Sheets(p) => spreadsheets[d.made].ready
          BY <2>0, <4>2 DEF Hooked, Slot
        <5>3. QED
          BY <4>2, <5>1, <5>2
      <4>3. QED
        BY <1>e, <4>1, <4>2
    <3>5. QED
      BY <1>0, <1>e, <2>0, <2>r, <3>1, <3>2, <3>3, <3>4 DEF Staged
  <2>2. Attempted(p)'
    BY <1>0, <2>0, <2>r DEF Attempted, NoHook, NoRecord, None
  <2>3. Hooked(p)'
    BY <1>0, <2>0, <2>r, <1>e DEF Hooked, Slot, NoHook, NoRecord, None
  <2>4. Teared(p)'
    BY <1>0, <2>0, <2>r, <1>e, TroubleIs DEF Teared, Attempted
  <2>5. EndpointsKept(p)'
    <3>1. Smooth(p) /\ Exists(p) => store'[p].url = store[p].url /\ s.at = "end"
      BY <1>0, <1>e, <2>0, TroubleIs DEF Attempted
    <3>2. Smooth(p) /\ Exists(p) => \A e \in Owned(p) : store'[p].secret = e
      <4>1. ASSUME Smooth(p), Exists(p), NEW e \in Owned(p)
            PROVE  store'[p].secret = e
        <5>1. e = s.made /\ e # None
          BY <1>0, <2>0, <4>1, FieldsAre DEF EndpointsKept, Owned, None
        <5>2. QED
          BY <1>e, <3>1, <4>1, <5>1
      <4>2. QED
        BY <4>1
    <3>3. workflow'[p] = "running" => Exists(p)
      BY <1>0, <2>0 DEF Staged, Attempted
    <3>4. QED
      BY <1>0, <1>e, <2>0, <2>r, <3>1, <3>2, <3>3 DEF EndpointsKept, NoRecord, Attempted
  <2>6. SheetsKept(p)'
    <3>1. Smooth(p) => d.at = "end"
      BY <1>0, <2>0, TroubleIs DEF Attempted
    <3>2. workflow'[p] \in {"running", "teardown"} => Exists(p) /\ workflow'[p] # "setup"
      BY <1>0, <2>0 DEF Staged, Attempted
    <3>3. workflow'[p] # "setup"
      BY <1>0
    <3>4. QED
      BY <1>0, <1>e, <2>0, <2>r, <3>1, <3>2, <3>3 DEF SheetsKept, NoRecord, Attempted
  <2>7. SchemaKept(p)'
    BY <1>0, <2>0, <2>r DEF SchemaKept
  <2>8. Ready(p)'
    <3>1. SUFFICES ASSUME workflow'[p] = "running", <<p, "timeout">> \notin trouble
                   PROVE  IF Sheets(p) THEN store'[p].sheet # None ELSE p \in schemas
      BY <1>0 DEF Ready
    <3>2. workflow[p] = "setup" /\ store[p].kept
      BY <1>0, <2>0, <3>1 DEF Attempted, Staged
    <3>3. d.at = "end"
      BY <1>0, <2>0, <3>1 DEF Attempted
    <3>4. QED
      BY <1>e, <2>0, <3>2, <3>3 DEF Hooked, Slot
  <2>9. QED
    BY <2>1, <2>2, <2>3, <2>4, <2>5, <2>6, <2>7, <2>8
<1>6. QED
  BY <1>1, <1>3, <1>4, <1>5, StepOf

-----------------------------------------------------------------------------
(* The steps of a teardown.                                                 *)

LEMMA BeginTeardownStep ==
    ASSUME Inv, NEW p \in Pipeline, BeginTeardown(p)
    PROVE  Inv'
<1> USE DEF Inv
<1>0. /\ workflow[p] = "teardown" /\ store[p].kept /\ ~teardown[p].config.kept
      /\ teardown'[p] = [config |-> store[p], source |-> store[p].url = None, dest |-> FALSE]
      /\ UNCHANGED <<store, workflow, attempts, setup, source, dest, endpoints,
                     spreadsheets, schemas, used, trouble>>
      /\ \A q \in Pipeline \ {p} : teardown'[q] = teardown[q]
  BY DEF BeginTeardown, WellTyped, ResourcesTyped, outside, Exists
<1>1. WellTyped'
  <2>1. [config |-> store[p], source |-> store[p].url = None, dest |-> FALSE]
          \in [config : Record, source : BOOLEAN, dest : BOOLEAN]
    BY FieldsAre
  <2>2. teardown' \in [Pipeline -> [config : Record, source : BOOLEAN, dest : BOOLEAN]]
    BY <2>1 DEF BeginTeardown, WellTyped, ResourcesTyped
  <2>3. QED
    BY <1>0, <2>1, <2>2 DEF WellTyped, ResourcesTyped
<1>2. \A r \in Pipeline : used[r] \subseteq used'[r] /\ trouble \subseteq trouble'
  BY <1>0
<1>3. \A q \in Pipeline : Outside(q) /\ Remembers(q)
  BY <1>0, <1>2, OutsideSame, UsedGrows DEF outside
<1>4. \A q \in Pipeline \ {p} : Rests(q)
  BY <1>0 DEF Rests
<1>5. Good(p)'
  <2>0. /\ Good(p) /\ Smooth(p)' => Smooth(p)
        /\ Unspoilt(p, Faults)' => Unspoilt(p, Faults)
        /\ Alone(p)' => Alone(p)
        /\ <<p, "timeout">> \notin trouble' => <<p, "timeout">> \notin trouble
    BY <1>2, <1>3, TroubleStays DEF Remembers
  <2>r. Outside(p)
    BY <1>3
  <2>t. /\ teardown'[p].config = store[p] /\ ~teardown'[p].dest
        /\ teardown'[p].source = (store[p].url = None)
    BY <1>0
  <2> USE DEF Good, Exists, Sheets, Outside, EndpointsRest, SheetsRest, SchemaRests
  <2>1. Staged(p)'
    BY <1>0, <2>0, <2>r, <2>t DEF Staged
  <2>2. Attempted(p)'
    BY <1>0, <2>0, <2>r, <2>t DEF Attempted
  <2>3. Hooked(p)'
    BY <1>0, <2>0, <2>r, <2>t DEF Hooked
  <2>4. Teared(p)'
    <3>1. workflow'[p] = "teardown" /\ teardown'[p].config.kept
      BY <1>0, <2>t
    <3>2. /\ store[p].url \in used'[p] \cup {None} /\ store'[p] = store[p]
          /\ store[p].sheet # None => store[p].sheet \in SheetsOwned(p)'
      BY <1>0, <2>0, <2>r DEF Staged
    <3>3. QED
      BY <2>t, <3>1, <3>2 DEF Teared
  <2>5. EndpointsKept(p)'
    <3>1. Smooth(p) /\ store[p].url = None => Owned(p) = {}
      BY <1>0, <2>0 DEF EndpointsKept, Staged
    <3>2. QED
      BY <1>0, <2>0, <2>r, <2>t, <3>1, TroubleIs DEF EndpointsKept
  <2>6. SheetsKept(p)'
    BY <1>0, <2>0, <2>r, <2>t DEF SheetsKept, Staged
  <2>7. SchemaKept(p)'
    BY <1>0, <2>0, <2>r, <2>t DEF SchemaKept
  <2>8. Ready(p)'
    BY <1>0, <2>0, <2>r, <2>t DEF Ready
  <2>9. QED
    BY <2>1, <2>2, <2>3, <2>4, <2>5, <2>6, <2>7, <2>8
<1>6. QED
  BY <1>1, <1>3, <1>4, <1>5, StepOf

LEMMA TeardownSourceStep ==
    ASSUME Inv, NEW p \in Pipeline, TeardownSource(p)
    PROVE  Inv'
<1> USE DEF Inv
<1> DEFINE c == teardown[p].config
           target == ManagedFor(c.url)
<1>a. /\ teardown[p] \in [config : Record, source : BOOLEAN, dest : BOOLEAN]
      /\ c.kept /\ ~teardown[p].source /\ c.url # None
      /\ teardown' = [teardown EXCEPT ![p].source = TRUE]
      /\ endpoints' = IF target = None THEN endpoints
                      ELSE [endpoints EXCEPT ![target].status = "deleted"]
  BY FieldsAre DEF TeardownSource, Good, Teared
<1>m. /\ target # None => /\ target \in DOMAIN endpoints /\ Managed(target)
                          /\ endpoints[target].url = c.url
      /\ \A e \in DOMAIN endpoints :
            Managed(e) /\ endpoints[e].url = c.url /\ endpoints[e].status # "deleted"
            => target # None
  BY ManagedForIs
<1> HIDE DEF target
<1>e. /\ endpoints' \in Seq(Endpoint) /\ Len(endpoints') = Len(endpoints)
      /\ DOMAIN endpoints' = DOMAIN endpoints
      /\ \A e \in DOMAIN endpoints :
            /\ endpoints'[e].url = endpoints[e].url /\ endpoints'[e].owner = endpoints[e].owner
            /\ Enabled(e)' => Enabled(e)
            /\ e = target => ~Enabled(e)'
  <2>0. endpoints \in Seq(Endpoint) /\ DOMAIN endpoints = 1 .. Len(endpoints)
    BY FieldsAre DEF WellTyped
  <2>1. CASE target = None
    BY <1>a, <2>0, <2>1 DEF Enabled, None
  <2>2. CASE target # None
    <3>1. target \in DOMAIN endpoints /\ endpoints[target] \in Endpoint
      BY <1>m, <2>2, FieldsAre
    <3>2. [endpoints[target] EXCEPT !.status = "deleted"] \in Endpoint
      BY <3>1 DEF Endpoint
    <3>3. endpoints' = [endpoints EXCEPT ![target] =
                          [endpoints[target] EXCEPT !.status = "deleted"]]
      BY <1>a, <2>2
    <3>4. endpoints' \in Seq(Endpoint) /\ Len(endpoints') = Len(endpoints)
      BY <2>0, <3>1, <3>2, <3>3
    <3>5. /\ endpoints'[target].url = endpoints[target].url
          /\ endpoints'[target].owner = endpoints[target].owner
          /\ endpoints'[target].status = "deleted"
      BY <2>0, <3>1, <3>3 DEF Endpoint
    <3>6. QED
      BY <2>0, <3>1, <3>3, <3>4, <3>5 DEF Enabled
  <2>3. QED
    BY <2>1, <2>2
<1>o. \A q \in Pipeline : Owned(q)' = Owned(q)
  BY <1>e DEF Owned
<1>0. /\ c.kept /\ ~teardown[p].source /\ c.url # None
      /\ teardown'[p].config = c /\ teardown'[p].source /\ teardown'[p].dest = teardown[p].dest
      /\ UNCHANGED <<store, workflow, attempts, setup, source, dest, spreadsheets,
                     schemas, used, trouble>>
      /\ \A q \in Pipeline \ {p} : teardown'[q] = teardown[q]
  BY <1>a DEF TeardownSource, WellTyped, ResourcesTyped, outside
<1>1. WellTyped'
  <2>1. endpoints' \in Seq(Endpoint) /\ Len(endpoints') <= MaxCreated + 1
    BY <1>e DEF WellTyped
  <2>2. \A e \in DOMAIN endpoints' : endpoints'[e] \in Endpoint
    BY <2>1
  <2>3. \A e \in DOMAIN endpoints' :
             endpoints'[e] \in [url : Url, owner : Pipeline \cup {"user"},
                               status : {"enabled", "disabled", "deleted"}]
    BY <2>2 DEF Endpoint
  <2>4. \A q \in Pipeline :
             /\ store'[q].secret \in DOMAIN endpoints' \cup {None}
             /\ store'[q].sheet \in DOMAIN spreadsheets' \cup {None}
    BY <1>0, <1>e, NamesFit
  <2>5. teardown' \in [Pipeline -> [config : Record, source : BOOLEAN, dest : BOOLEAN]]
    BY <1>a DEF WellTyped, ResourcesTyped
  <2>6. QED
    BY <1>0, <2>1, <2>2, <2>3, <2>4, <2>5 DEF WellTyped, ResourcesTyped
<1>2. \A r \in Pipeline : used[r] \subseteq used'[r] /\ trouble \subseteq trouble'
  BY <1>0
<1>3. \A q \in Pipeline : Outside(q) /\ Remembers(q)
  <2>1. \A q \in Pipeline : Remembers(q)
    BY <1>0, <1>2, UsedGrows
  <2>2. \A q \in Pipeline : EndpointsRest(q)
    BY <1>e, <1>o DEF EndpointsRest, Owned
  <2>3. \A q \in Pipeline : SheetsRest(q) /\ SchemaRests(q)
    BY <1>0 DEF SheetsRest, SheetsOwned, SchemaRests
  <2>4. QED
    BY <2>1, <2>2, <2>3 DEF Outside
<1>4. \A q \in Pipeline \ {p} : Rests(q)
  BY <1>0 DEF Rests
<1>5. Good(p)'
  <2>0. /\ Good(p) /\ Smooth(p)' => Smooth(p)
        /\ Unspoilt(p, Faults)' => Unspoilt(p, Faults)
        /\ Alone(p)' => Alone(p)
        /\ <<p, "timeout">> \notin trouble' => <<p, "timeout">> \notin trouble
    BY <1>2, <1>3, TroubleStays DEF Remembers
  <2>r. /\ Outside(p) /\ Owned(p)' = Owned(p)
    BY <1>3, <1>o
  <2> USE DEF Good, Exists, Sheets
  <2>1. Staged(p)'
    BY <1>0, <2>0, <2>r DEF Staged, Outside, EndpointsRest, SheetsRest, SchemaRests
  <2>2. Attempted(p)'
    BY <1>0, <2>0, <2>r DEF Attempted, Outside, EndpointsRest, SheetsRest, SchemaRests
  <2>3. Hooked(p)'
    BY <1>0, <2>0, <2>r DEF Hooked, Outside, EndpointsRest, SheetsRest, SchemaRests
  <2>4. Teared(p)'
    BY <1>0, <2>0, <2>r DEF Teared, Outside, EndpointsRest, SheetsRest, SchemaRests
  <2>5. EndpointsKept(p)'
    <3>1. ASSUME Unspoilt(p, Faults), Alone(p), NEW e \in Owned(p), Enabled(e)
          PROVE  e = target
      <4>1. Smooth(p) /\ store[p].kept /\ c.url = store[p].url
        BY <1>0, <2>0, <3>1, TroubleIs DEF Teared, Staged
      <4>2. e \in DOMAIN endpoints /\ Managed(e) /\ endpoints[e].url = c.url /\ c.url \in used[p]
        BY <2>0, <3>1, <4>1, ResourcesAssumption DEF EndpointsKept, Owned, Managed
      <4>3. target \in DOMAIN endpoints /\ Managed(target) /\ endpoints[target].url = c.url
        BY <1>m, <3>1, <4>2 DEF Enabled
      <4>4. PICK q \in Pipeline : target \in Owned(q)
        BY <4>3, FieldsAre DEF Endpoint, Managed, Owned
      <4>5. c.url \in used[q]
        BY <4>3, <4>4 DEF Good, EndpointsKept
      <4>6. q = p
        BY <3>1, <4>2, <4>5 DEF Alone
      <4>7. QED
        BY <2>0, <3>1, <4>1, <4>4, <4>6 DEF EndpointsKept
    <3>2. Unspoilt(p, Faults) /\ Alone(p) => \A e \in Owned(p) : ~Enabled(e)'
      BY <1>e, <3>1 DEF Owned
    <3>3. QED
      BY <1>0, <1>e, <2>0, <2>r, <3>2 DEF EndpointsKept, Owned
  <2>6. SheetsKept(p)'
    BY <1>0, <2>0, <2>r DEF SheetsKept, Outside, EndpointsRest, SheetsRest, SchemaRests
  <2>7. SchemaKept(p)'
    BY <1>0, <2>0, <2>r DEF SchemaKept, Outside, EndpointsRest, SheetsRest, SchemaRests
  <2>8. Ready(p)'
    BY <1>0, <2>0, <2>r DEF Ready, Outside, EndpointsRest, SheetsRest, SchemaRests
  <2>9. QED
    BY <2>1, <2>2, <2>3, <2>4, <2>5, <2>6, <2>7, <2>8
<1>6. QED
  BY <1>1, <1>3, <1>4, <1>5, StepOf

LEMMA TeardownDestStep ==
    ASSUME Inv, NEW p \in Pipeline, TeardownDest(p)
    PROVE  Inv'
<1> USE DEF Inv
<1> DEFINE c == teardown[p].config
           m == c.sheet
<1>a. /\ teardown[p] \in [config : Record, source : BOOLEAN, dest : BOOLEAN]
      /\ c.kept /\ ~teardown[p].dest /\ workflow[p] = "teardown"
      /\ teardown' = [teardown EXCEPT ![p].dest = TRUE]
  BY FieldsAre DEF TeardownDest, Good, Teared
<1>m. Sheets(p) => m \in SheetsOwned(p)
  BY <1>a DEF TeardownDest, Good, Teared
<1>e. /\ spreadsheets' \in Seq(Spreadsheet) /\ Len(spreadsheets') = Len(spreadsheets)
      /\ DOMAIN spreadsheets' = DOMAIN spreadsheets
      /\ \A i \in DOMAIN spreadsheets :
            /\ spreadsheets'[i].owner = spreadsheets[i].owner
            /\ spreadsheets'[i].ready = spreadsheets[i].ready
            /\ spreadsheets[i].gone => spreadsheets'[i].gone
            /\ Sheets(p) /\ i = m => spreadsheets'[i].gone
            /\ spreadsheets[i].owner # p => spreadsheets'[i] = spreadsheets[i]
  <2>0. spreadsheets \in Seq(Spreadsheet) /\ DOMAIN spreadsheets = 1 .. Len(spreadsheets)
    BY FieldsAre DEF WellTyped
  <2>1. CASE Sheets(p)
    <3>1. m \in DOMAIN spreadsheets /\ spreadsheets[m].owner = p
      BY <1>m, <2>1 DEF SheetsOwned
    <3>2. [spreadsheets[m] EXCEPT !.gone = TRUE] \in Spreadsheet /\ spreadsheets[m] \in Spreadsheet
      BY <3>1, FieldsAre DEF Spreadsheet
    <3>3. spreadsheets' = [spreadsheets EXCEPT ![m] = [spreadsheets[m] EXCEPT !.gone = TRUE]]
      BY <2>1 DEF TeardownDest
    <3>4. spreadsheets' \in Seq(Spreadsheet) /\ Len(spreadsheets') = Len(spreadsheets)
      BY <2>0, <3>1, <3>2, <3>3
    <3>5. /\ spreadsheets'[m].owner = spreadsheets[m].owner
          /\ spreadsheets'[m].ready = spreadsheets[m].ready /\ spreadsheets'[m].gone
      BY <3>1, <3>2, <3>3 DEF Spreadsheet
    <3>6. QED
      BY <2>0, <3>1, <3>3, <3>4, <3>5
  <2>2. CASE ~Sheets(p)
    <3>1. spreadsheets' = spreadsheets
      BY <2>2 DEF TeardownDest
    <3>2. QED
      BY <2>0, <2>2, <3>1
  <2>3. QED
    BY <2>1, <2>2
<1>c. /\ Sheets(p) => schemas' = schemas
      /\ ~Sheets(p) => schemas' = schemas \ {p}
  BY DEF TeardownDest
<1>o. \A q \in Pipeline : SheetsOwned(q)' = SheetsOwned(q)
  BY <1>e DEF SheetsOwned
<1>0. /\ c.kept /\ ~teardown[p].dest /\ workflow[p] = "teardown"
      /\ teardown'[p].config = c /\ teardown'[p].dest /\ teardown'[p].source = teardown[p].source
      /\ UNCHANGED <<store, workflow, attempts, setup, source, dest, endpoints, used,
                     trouble>>
      /\ \A q \in Pipeline \ {p} : teardown'[q] = teardown[q]
  BY <1>a DEF TeardownDest, WellTyped, ResourcesTyped, outside
<1>1. WellTyped'
  <2>1. /\ spreadsheets' \in Seq(Spreadsheet) /\ Len(spreadsheets') <= MaxCreated
         /\ schemas' \subseteq Pipeline
    BY <1>c, <1>e DEF WellTyped, ResourcesTyped
  <2>2. \A i \in DOMAIN spreadsheets' : spreadsheets'[i] \in Spreadsheet
    BY <2>1
  <2>3. \A i \in DOMAIN spreadsheets' :
             spreadsheets'[i] \in [owner : Pipeline, ready : BOOLEAN, gone : BOOLEAN]
    BY <2>2 DEF Spreadsheet
  <2>4. \A q \in Pipeline :
            /\ store'[q].secret \in DOMAIN endpoints' \cup {None}
            /\ store'[q].sheet \in DOMAIN spreadsheets' \cup {None}
    BY <1>0, <1>e, NamesFit
  <2>5. teardown' \in [Pipeline -> [config : Record, source : BOOLEAN, dest : BOOLEAN]]
    BY <1>a DEF WellTyped, ResourcesTyped
  <2>6. QED
    BY <1>0, <2>1, <2>2, <2>3, <2>4, <2>5 DEF WellTyped, ResourcesTyped
<1>2. \A r \in Pipeline : used[r] \subseteq used'[r] /\ trouble \subseteq trouble'
  BY <1>0
<1>3. /\ \A q \in Pipeline \ {p} : Outside(q)
      /\ \A q \in Pipeline : Remembers(q)
  <2>1. \A q \in Pipeline : Remembers(q)
    BY <1>0, <1>2, UsedGrows
  <2>2. \A q \in Pipeline \ {p} : SheetsRest(q)
    BY <1>e, <1>o DEF SheetsRest, SheetsOwned
  <2>3. \A q \in Pipeline \ {p} : EndpointsRest(q) /\ SchemaRests(q)
    BY <1>0, <1>c DEF EndpointsRest, Owned, Enabled, SchemaRests
  <2>4. QED
    BY <2>1, <2>2, <2>3 DEF Outside
<1>4. \A q \in Pipeline \ {p} : Rests(q)
  BY <1>0 DEF Rests
<1>5. Good(p)'
  <2>0. /\ Good(p) /\ Smooth(p)' => Smooth(p)
        /\ Unspoilt(p, Faults)' => Unspoilt(p, Faults)
        /\ Alone(p)' => Alone(p)
        /\ <<p, "timeout">> \notin trouble' => <<p, "timeout">> \notin trouble
    BY <1>2, <1>3, TroubleStays DEF Remembers
  <2>r. /\ Owned(p)' = Owned(p) /\ \A e \in Owned(p) : Enabled(e)' <=> Enabled(e)
        /\ SheetsOwned(p)' = SheetsOwned(p)
        /\ \A i \in SheetsOwned(p) : /\ spreadsheets'[i].ready = spreadsheets[i].ready
                                     /\ spreadsheets[i].gone => spreadsheets'[i].gone
                                     /\ Sheets(p) /\ i = m => spreadsheets'[i].gone
    BY <1>0, <1>e, <1>o DEF Owned, SheetsOwned, Enabled
  <2> USE DEF Good, Exists, Sheets
  <2>1. Staged(p)'
    BY <1>0, <2>0, <2>r DEF Staged
  <2>2. Attempted(p)'
    BY <1>0, <2>0, <2>r DEF Attempted
  <2>3. Hooked(p)'
    BY <1>0, <2>0, <2>r, <1>c DEF Hooked
  <2>4. Teared(p)'
    BY <1>0, <2>0, <2>r DEF Teared
  <2>5. EndpointsKept(p)'
    BY <1>0, <2>0, <2>r DEF EndpointsKept
  <2>6. SheetsKept(p)'
    <3>1. Unspoilt(p, Faults) => \A i \in SheetsOwned(p) : Sheets(p) /\ i = m
      BY <1>0, <2>0, TroubleIs DEF SheetsKept, Attempted, Teared
    <3>2. QED
      BY <1>0, <2>0, <2>r, <3>1 DEF SheetsKept
  <2>7. SchemaKept(p)'
    BY <1>0, <2>0, <2>r, <1>c DEF SchemaKept
  <2>8. Ready(p)'
    BY <1>0, <2>0, <2>r, <1>c DEF Ready
  <2>9. QED
    BY <2>1, <2>2, <2>3, <2>4, <2>5, <2>6, <2>7, <2>8
<1>6. QED
  BY <1>1, <1>3, <1>4, <1>5, StepOf

LEMMA TeardownFailsStep ==
    ASSUME Inv, NEW p \in Pipeline, TeardownFails(p)
    PROVE  Inv'
<1> USE DEF Inv
<1>0. /\ workflow[p] = "teardown" /\ teardown'[p] = NoCall
      /\ attempts'[p] = attempts[p] + 1
      /\ workflow'[p] = IF attempts[p] + 1 = MaxAttempts THEN "failed" ELSE "teardown"
      /\ UNCHANGED <<store, setup, source, dest, endpoints, spreadsheets, schemas, used>>
      /\ \A q \in Pipeline \ {p} : /\ workflow'[q] = workflow[q]
                                   /\ attempts'[q] = attempts[q]
                                   /\ teardown'[q] = teardown[q]
  BY DEF TeardownFails, WellTyped, ResourcesTyped, outside, Failed, Good, Teared
<1>t. trouble \subseteq trouble' /\ trouble' \subseteq Pipeline \X Faults
  <2>1. CASE ~teardown[p].dest /\ NothingToDelete(p)
    BY <2>1 DEF TeardownFails, WellTyped, ResourcesTyped
  <2>2. CASE ~(~teardown[p].dest /\ NothingToDelete(p))
    <3>1. Trouble(p, "failed") /\ "failed" \in Faults
      BY <2>2 DEF TeardownFails, Faults
    <3>2. QED
      BY <3>1, TroubleGrows DEF WellTyped
  <2>3. QED
    BY <2>1, <2>2
<1>1. WellTyped'
  <2>1. NoCall \in [config : Record, source : BOOLEAN, dest : BOOLEAN]
    BY ResourcesAssumption DEF NoCall, NoRecord, Record, None
  <2>2. attempts[p] + 1 \in 0 .. MaxAttempts
    BY <1>0, FieldsAre, ResourcesAssumption DEF Good, Staged
  <2>3. workflow' \in [Pipeline -> {"none", "setup", "running", "teardown", "done", "failed"}]
    BY DEF TeardownFails, Failed, WellTyped, ResourcesTyped
  <2>4. attempts' \in [Pipeline -> 0 .. MaxAttempts]
    BY <2>2 DEF TeardownFails, Failed, WellTyped, ResourcesTyped
  <2>5. teardown' \in [Pipeline -> [config : Record, source : BOOLEAN, dest : BOOLEAN]]
    BY <2>1 DEF TeardownFails, WellTyped, ResourcesTyped
  <2>6. QED
    BY <1>0, <1>t, <2>1, <2>2, <2>3, <2>4, <2>5 DEF WellTyped, ResourcesTyped
<1>2. \A r \in Pipeline : used[r] \subseteq used'[r] /\ trouble \subseteq trouble'
  BY <1>0, <1>t
<1>3. \A q \in Pipeline : Outside(q) /\ Remembers(q)
  BY <1>0, <1>2, OutsideSame, UsedGrows DEF outside
<1>4. \A q \in Pipeline \ {p} : Rests(q)
  BY <1>0 DEF Rests
<1>5. Good(p)'
  <2>0. /\ Good(p) /\ Smooth(p)' => Smooth(p)
        /\ Unspoilt(p, Faults)' => Unspoilt(p, Faults)
        /\ Alone(p)' => Alone(p)
        /\ <<p, "timeout">> \notin trouble' => <<p, "timeout">> \notin trouble
    BY <1>2, <1>3, TroubleStays DEF Remembers
  <2>r. Outside(p)
    BY <1>3
  <2> USE DEF Good, Exists, Sheets, Outside, EndpointsRest, SheetsRest, SchemaRests
  <2>1. Staged(p)'
    BY <1>0, <2>0, <2>r, <1>t, FieldsAre, ResourcesAssumption DEF Staged
  <2>2. Attempted(p)'
    BY <1>0, <2>0, <2>r, <1>t DEF Attempted
  <2>3. Hooked(p)'
    BY <1>0, <2>0, <2>r, <1>t DEF Hooked
  <2>4. Teared(p)'
    BY <1>0, <2>0, <2>r, <1>t DEF Teared, NoCall, NoRecord
  <2>5. EndpointsKept(p)'
    BY <1>0, <2>0, <2>r, <1>t DEF EndpointsKept, NoCall
  <2>6. SheetsKept(p)'
    BY <1>0, <2>0, <2>r, <1>t DEF SheetsKept, NoCall
  <2>7. SchemaKept(p)'
    BY <1>0, <2>0, <2>r, <1>t DEF SchemaKept, NoCall
  <2>8. Ready(p)'
    BY <1>0, <2>0, <2>r, <1>t DEF Ready
  <2>9. QED
    BY <2>1, <2>2, <2>3, <2>4, <2>5, <2>6, <2>7, <2>8
<1>6. QED
  BY <1>1, <1>3, <1>4, <1>5, StepOf

LEMMA EndTeardownStep ==
    ASSUME Inv, NEW p \in Pipeline, EndTeardown(p)
    PROVE  Inv'
<1> USE DEF Inv
<1>0. /\ workflow[p] = "teardown" /\ teardown'[p] = NoCall /\ store'[p] = NoRecord
      /\ workflow'[p] = "done" /\ teardown[p].source /\ teardown[p].dest
      /\ UNCHANGED <<attempts, setup, source, dest, endpoints, spreadsheets, schemas,
                     used, trouble>>
      /\ \A q \in Pipeline \ {p} : /\ store'[q] = store[q] /\ workflow'[q] = workflow[q]
                                   /\ teardown'[q] = teardown[q]
  BY DEF EndTeardown, WellTyped, ResourcesTyped, outside, Good, Teared, TornDown
<1>1. WellTyped'
  <2>1. NoCall \in [config : Record, source : BOOLEAN, dest : BOOLEAN]
    BY ResourcesAssumption DEF NoCall, NoRecord, Record, None
  <2>2. NoRecord \in Record /\ NoRecord.secret = None /\ NoRecord.sheet = None
    BY ResourcesAssumption DEF NoRecord, Record, None
  <2>3. store' \in [Pipeline -> Record]
    BY <2>2 DEF EndTeardown, WellTyped, ResourcesTyped
  <2>4. workflow' \in [Pipeline -> {"none", "setup", "running", "teardown", "done", "failed"}]
    BY DEF EndTeardown, WellTyped, ResourcesTyped
  <2>5. teardown' \in [Pipeline -> [config : Record, source : BOOLEAN, dest : BOOLEAN]]
    BY <2>1 DEF EndTeardown, WellTyped, ResourcesTyped
  <2>6. QED
    BY <1>0, <2>1, <2>2, <2>3, <2>4, <2>5 DEF WellTyped, ResourcesTyped
<1>2. \A r \in Pipeline : used[r] \subseteq used'[r] /\ trouble \subseteq trouble'
  BY <1>0
<1>3. \A q \in Pipeline : Outside(q) /\ Remembers(q)
  BY <1>0, <1>2, OutsideSame, UsedGrows DEF outside
<1>4. \A q \in Pipeline \ {p} : Rests(q)
  BY <1>0 DEF Rests
<1>5. Good(p)'
  <2>0. /\ Good(p) /\ Smooth(p)' => Smooth(p)
        /\ Unspoilt(p, Faults)' => Unspoilt(p, Faults)
        /\ Alone(p)' => Alone(p)
        /\ <<p, "timeout">> \notin trouble' => <<p, "timeout">> \notin trouble
    BY <1>2, <1>3, TroubleStays DEF Remembers
  <2>r. Outside(p)
    BY <1>3
  <2> USE DEF Good, Exists, Sheets, Outside, EndpointsRest, SheetsRest, SchemaRests
  <2>1. Staged(p)'
    BY <1>0, <2>0, <2>r DEF Staged, NoRecord
  <2>2. Attempted(p)'
    BY <1>0, <2>0, <2>r DEF Attempted, NoRecord
  <2>3. Hooked(p)'
    BY <1>0, <2>0, <2>r DEF Hooked, NoRecord
  <2>4. Teared(p)'
    BY <1>0, <2>0, <2>r DEF Teared, NoCall, NoRecord
  <2>5. EndpointsKept(p)'
    BY <1>0, <2>0, <2>r DEF EndpointsKept, NoCall, NoRecord
  <2>6. SheetsKept(p)'
    BY <1>0, <2>0, <2>r DEF SheetsKept, NoCall
  <2>7. SchemaKept(p)'
    BY <1>0, <2>0, <2>r DEF SchemaKept, NoCall
  <2>8. Ready(p)'
    BY <1>0, <2>0, <2>r DEF Ready
  <2>9. QED
    BY <2>1, <2>2, <2>3, <2>4, <2>5, <2>6, <2>7, <2>8
<1>6. QED
  BY <1>1, <1>3, <1>4, <1>5, StepOf

LEMMA DisableStep ==
    ASSUME Inv, NEW e \in DOMAIN endpoints, Disable(e)
    PROVE  Inv'
<1> USE DEF Inv
<1>1. /\ Managed(e) /\ endpoints' = [endpoints EXCEPT ![e].status = "disabled"]
      /\ Trouble(endpoints[e].owner, "disabled")
      /\ UNCHANGED <<store, workflow, attempts, setup, source, dest, teardown,
                     spreadsheets, schemas, used>>
  BY DEF Disable
<1>2. /\ endpoints \in Seq(Endpoint) /\ DOMAIN endpoints = 1 .. Len(endpoints)
      /\ endpoints[e] \in Endpoint
  BY DEF WellTyped
<1>3. trouble \subseteq trouble' /\ trouble' \subseteq Pipeline \X Faults
  <2>1. endpoints[e].owner \in Pipeline /\ "disabled" \in Faults
    BY <1>1, <1>2 DEF Endpoint, Managed, Faults
  <2>2. QED
    BY <1>1, <2>1, TroubleGrows DEF WellTyped
<1>4. /\ endpoints' \in Seq(Endpoint) /\ Len(endpoints') = Len(endpoints)
      /\ DOMAIN endpoints' = DOMAIN endpoints
      /\ \A f \in DOMAIN endpoints :
            /\ endpoints'[f].url = endpoints[f].url /\ endpoints'[f].owner = endpoints[f].owner
            /\ Enabled(f)' => Enabled(f)
  <2>1. [endpoints[e] EXCEPT !.status = "disabled"] \in Endpoint
    BY <1>2 DEF Endpoint
  <2>2. endpoints' = [endpoints EXCEPT ![e] = [endpoints[e] EXCEPT !.status = "disabled"]]
    BY <1>1
  <2>3. endpoints' \in Seq(Endpoint) /\ Len(endpoints') = Len(endpoints)
    BY <1>2, <2>1, <2>2
  <2>4. /\ endpoints'[e].url = endpoints[e].url /\ endpoints'[e].owner = endpoints[e].owner
        /\ endpoints'[e].status = "disabled"
    BY <1>2, <2>2 DEF Endpoint
  <2>5. QED
    BY <1>2, <2>2, <2>3, <2>4 DEF Enabled
<1>5. WellTyped'
  <2>1. endpoints' \in Seq(Endpoint) /\ Len(endpoints') <= MaxCreated + 1
    BY <1>4 DEF WellTyped
  <2>2. \A f \in DOMAIN endpoints' : endpoints'[f] \in Endpoint
    BY <2>1
  <2>3. \A f \in DOMAIN endpoints' :
             endpoints'[f] \in [url : Url, owner : Pipeline \cup {"user"},
                               status : {"enabled", "disabled", "deleted"}]
    BY <2>2 DEF Endpoint
  <2>4. \A q \in Pipeline : /\ store'[q].secret \in DOMAIN endpoints' \cup {None}
                            /\ store'[q].sheet \in DOMAIN spreadsheets' \cup {None}
    BY <1>1, <1>4, NamesFit
  <2>5. QED
    BY <1>1, <1>3, <2>1, <2>3, <2>4 DEF WellTyped, ResourcesTyped
<1>6. \A q \in Pipeline : Rests(q) /\ Outside(q) /\ Remembers(q)
  <2>1. \A q \in Pipeline : Rests(q)
    BY <1>1 DEF Rests
  <2>2. \A q \in Pipeline : Remembers(q)
    BY <1>1, <1>3, UsedGrows
  <2>3. \A q \in Pipeline : EndpointsRest(q)
    BY <1>4 DEF EndpointsRest, Owned
  <2>4. \A q \in Pipeline : SheetsRest(q) /\ SchemaRests(q)
    BY <1>1 DEF SheetsRest, SheetsOwned, SchemaRests
  <2>5. QED
    BY <2>1, <2>2, <2>3, <2>4 DEF Outside
<1>7. QED
  BY <1>5, <1>6, GoodRests

-----------------------------------------------------------------------------
(* The invariant.                                                          *)

LEMMA InvStarts == ResourcesInit => Inv
<1> SUFFICES ASSUME ResourcesInit
             PROVE  Inv
  OBVIOUS
<1>1. PICK u \in Url : endpoints = <<[url |-> u, owner |-> "user", status |-> "enabled"]>>
  BY DEF ResourcesInit
<1>2. /\ endpoints \in Seq(Endpoint) /\ Len(endpoints) = 1 /\ DOMAIN endpoints = {1}
      /\ endpoints[1] \in Endpoint /\ endpoints[1].owner = "user"
  BY <1>1 DEF Endpoint
<1>3. /\ spreadsheets = <<>> /\ spreadsheets \in Seq(Spreadsheet) /\ Len(spreadsheets) = 0
      /\ DOMAIN spreadsheets = {}
  BY DEF ResourcesInit
<1>4. /\ NoRecord \in Record /\ NoHook \in Hook
      /\ NoCall \in [config : Record, source : BOOLEAN, dest : BOOLEAN]
      /\ 0 \in 0 .. MaxAttempts /\ 0 < MaxAttempts /\ 1 <= MaxCreated + 1 /\ 0 <= MaxCreated
  BY ResourcesAssumption DEF NoRecord, NoHook, NoCall, Record, Hook, None
<1>5. /\ store \in [Pipeline -> Record] /\ setup \in [Pipeline -> Record]
      /\ source \in [Pipeline -> [Slot -> Hook]] /\ dest \in [Pipeline -> [Slot -> Hook]]
      /\ attempts \in [Pipeline -> 0 .. MaxAttempts]
      /\ teardown \in [Pipeline -> [config : Record, source : BOOLEAN, dest : BOOLEAN]]
      /\ used \in [Pipeline -> SUBSET Url]
      /\ workflow \in [Pipeline -> {"none", "setup", "running", "teardown", "done", "failed"}]
  BY <1>4 DEF ResourcesInit
<1>6. \A p \in Pipeline : store[p].secret = None /\ store[p].sheet = None
  BY DEF ResourcesInit, NoRecord
<1>7. endpoints[1] \in [url : Url, owner : Pipeline \cup {"user"},
                        status : {"enabled", "disabled", "deleted"}]
  BY <1>2 DEF Endpoint
<1>8. ResourcesTyped
  BY <1>2, <1>3, <1>5, <1>6, <1>7 DEF ResourcesTyped, ResourcesInit
<1>9. WellTyped
  BY <1>2, <1>3, <1>4, <1>8 DEF WellTyped
<1>10. ASSUME NEW p \in Pipeline
       PROVE  Good(p)
  <2>1. /\ Owned(p) = {} /\ SheetsOwned(p) = {} /\ p \notin schemas
        /\ store[p] = NoRecord /\ workflow[p] = "none" /\ attempts[p] = 0 /\ setup[p] = NoRecord
        /\ \A s \in Slot : source[p][s] = NoHook /\ dest[p][s] = NoHook
        /\ teardown[p] = NoCall /\ used[p] = {}
    BY <1>2, <1>3, ResourcesAssumption DEF ResourcesInit, Owned, SheetsOwned
  <2>2. Staged(p)
    BY <1>4, <2>1 DEF Staged, NoRecord
  <2>3. Attempted(p) /\ Hooked(p) /\ Teared(p)
    BY <2>1 DEF Attempted, Hooked, Teared, NoRecord, NoHook, NoCall, Slot
  <2>4. EndpointsKept(p) /\ SheetsKept(p) /\ SchemaKept(p) /\ Ready(p)
    BY <2>1 DEF EndpointsKept, SheetsKept, SchemaKept, Ready
  <2>5. QED
    BY <2>2, <2>3, <2>4 DEF Good
<1>11. QED
  BY <1>9, <1>10 DEF Inv

LEMMA InvSteps == Inv /\ [ResourcesNext]_resources => Inv'
<1> SUFFICES ASSUME Inv, [ResourcesNext]_resources
             PROVE  Inv'
  OBVIOUS
<1>1. CASE \E e \in DOMAIN endpoints : Disable(e)
  BY <1>1, DisableStep
<1>2. ASSUME NEW p \in Pipeline, NEW url \in Url \cup {None},
             CreatePipeline(p, url) \/ UpdatePipeline(p, url)
      PROVE  Inv'
  BY <1>2, CreateStep, UpdateStep
<1>3. ASSUME NEW p \in Pipeline, DeletePipeline(p) \/ DeleteStray(p)
      PROVE  Inv'
  BY <1>3, DeleteStep, DeleteStrayStep
<1>4. ASSUME NEW p \in Pipeline,
             BeginSetup(p) \/ SetupTimeout(p) \/ SetupFails(p) \/ EndSetup(p) \/ LateEnds(p)
      PROVE  Inv'
  BY <1>4, BeginSetupStep, SetupTimeoutStep, SetupFailsStep, EndSetupStep, LateEndsStep
<1>5. ASSUME NEW p \in Pipeline, NEW s \in Slot,
             SourceLists(p, s) \/ SourceCreates(p, s) \/ SheetsCreates(p, s) \/ DestPrepares(p, s)
      PROVE  Inv'
  BY <1>5, SourceListsStep, SourceCreatesStep, SheetsCreatesStep, DestPreparesStep
<1>6. ASSUME NEW p \in Pipeline,
             BeginTeardown(p) \/ TeardownSource(p) \/ TeardownDest(p) \/ TeardownFails(p)
             \/ EndTeardown(p)
      PROVE  Inv'
  BY <1>6, BeginTeardownStep, TeardownSourceStep, TeardownDestStep, TeardownFailsStep,
     EndTeardownStep
<1>7. CASE UNCHANGED resources
  <2>1. /\ UNCHANGED <<store, workflow, attempts, setup, source, dest, teardown, outside, used,
                       trouble>>
        /\ UNCHANGED <<endpoints, spreadsheets, schemas>>
    BY <1>7 DEF resources, outside
  <2>2. WellTyped'
    BY <2>1 DEF Inv, WellTyped, ResourcesTyped
  <2>3. \A q \in Pipeline : Rests(q) /\ Outside(q) /\ Remembers(q)
    BY <2>1, OutsideSame, UsedGrows DEF Rests
  <2>4. QED
    BY <2>2, <2>3, GoodRests DEF Inv
<1>8. QED
  BY <1>1, <1>2, <1>3, <1>4, <1>5, <1>6, <1>7 DEF ResourcesNext

\* The invariant holds in every reachable state.
THEOREM InvHolds == ResourcesSpec => []Inv
<1>1. QED
  BY InvStarts, InvSteps, PTL DEF ResourcesSpec

(***************************************************************************)
(* A pipeline whose setup has ended finds its destination in place and     *)
(* holds the secret of its endpoint (drainActivity's setup hooks and the   *)
(* write-back of what they report).                                        *)
(***************************************************************************)
THEOREM RunningPipelinesAreReady == ResourcesSpec => []RunningIsReady
<1>1. Inv => RunningIsReady
  <2> SUFFICES ASSUME Inv
               PROVE  RunningIsReady
    OBVIOUS
  <2> USE DEF Inv, Good
  <2>1. SetupIsReady
    <3>1. SUFFICES ASSUME NEW p \in Pipeline, workflow[p] = "running", Unspoilt(p, {"timeout"})
                   PROVE  IF Sheets(p)
                          THEN /\ store[p].sheet # None
                               /\ spreadsheets[store[p].sheet].ready
                               /\ ~spreadsheets[store[p].sheet].gone
                          ELSE p \in schemas
      BY DEF SetupIsReady
    <3>2. <<p, "timeout">> \notin trouble
      BY <3>1 DEF Unspoilt
    <3>3. CASE ~Sheets(p)
      BY <3>1, <3>2, <3>3 DEF Ready
    <3>4. CASE Sheets(p)
      <4>1. store[p].sheet # None
        BY <3>1, <3>2, <3>4 DEF Ready
      <4>2. store[p].sheet \in SheetsOwned(p) /\ spreadsheets[store[p].sheet].ready
        BY <4>1 DEF Staged
      <4>3. ~spreadsheets[store[p].sheet].gone
        BY <3>1, <4>2 DEF SheetsKept
      <4>4. QED
        BY <3>4, <4>1, <4>2, <4>3
    <3>5. QED
      BY <3>3, <3>4
  <2>2. SecretMatches
    BY DEF SecretMatches, EndpointsKept, Smooth, Owned
  <2>3. QED
    BY <2>1, <2>2 DEF RunningIsReady, WellTyped
<1>2. QED
  BY <1>1, InvHolds, PTL

(***************************************************************************)
(* A deletion that was not disturbed leaves neither endpoint, spreadsheet  *)
(* nor schema (pipelineTeardown and the two connectors' teardown).         *)
(***************************************************************************)
THEOREM DeletionLeavesNothing == ResourcesSpec => []NothingLeft
<1>1. Inv => NothingLeft
  <2> SUFFICES ASSUME Inv, NEW p \in Pipeline, workflow[p] = "done", Unspoilt(p, Faults), Alone(p)
               PROVE  ~LeftOver(p)
    BY DEF NothingLeft
  <2> USE DEF Inv, Good
  <2>1. \A e \in Owned(p) : ~Enabled(e)
    BY DEF EndpointsKept
  <2>2. \A i \in SheetsOwned(p) : spreadsheets[i].gone
    BY DEF SheetsKept
  <2>3. p \notin schemas
    BY DEF SchemaKept
  <2>4. QED
    BY <2>1, <2>2, <2>3 DEF LeftOver, Owned, SheetsOwned
<1>2. QED
  BY <1>1, InvHolds, PTL

\* What a step may take away outside.
LEMMA Taken ==
    ASSUME Inv, ResourcesNext
    PROVE  /\ \/ \A e \in DOMAIN endpoints :
                    endpoints'[e].status = "deleted" => endpoints[e].status = "deleted"
              \/ \E p \in Pipeline : TeardownSource(p)
           /\ \/ /\ \A i \in DOMAIN spreadsheets : spreadsheets'[i].gone => spreadsheets[i].gone
                 /\ schemas \subseteq schemas'
              \/ \E p \in Pipeline : TeardownDest(p)
<1> DEFINE E == \A e \in DOMAIN endpoints :
                   endpoints'[e].status = "deleted" => endpoints[e].status = "deleted"
           S == /\ \A i \in DOMAIN spreadsheets : spreadsheets'[i].gone => spreadsheets[i].gone
                /\ schemas \subseteq schemas'
<1>0. /\ endpoints \in Seq(Endpoint) /\ spreadsheets \in Seq(Spreadsheet)
      /\ DOMAIN endpoints = 1 .. Len(endpoints) /\ Len(endpoints) \in Nat
      /\ DOMAIN spreadsheets = 1 .. Len(spreadsheets) /\ Len(spreadsheets) \in Nat
      /\ \A e \in DOMAIN endpoints : endpoints[e] \in Endpoint
      /\ \A i \in DOMAIN spreadsheets : spreadsheets[i] \in Spreadsheet
  BY DEF Inv, WellTyped
<1>1. endpoints' = endpoints => E
  OBVIOUS
<1>2. spreadsheets' = spreadsheets /\ schemas' = schemas => S
  OBVIOUS
<1>3. UNCHANGED outside => E /\ S
  BY DEF outside
<1>4. ASSUME NEW e \in DOMAIN endpoints, Disable(e)
      PROVE  E /\ S
  <2>1. /\ endpoints' = [endpoints EXCEPT ![e].status = "disabled"]
        /\ spreadsheets' = spreadsheets /\ schemas' = schemas
    BY <1>4 DEF Disable
  <2>2. /\ endpoints'[e].status = "disabled"
        /\ \A f \in DOMAIN endpoints \ {e} : endpoints'[f] = endpoints[f]
    BY <1>0, <2>1 DEF Endpoint
  <2>3. QED
    BY <1>2, <2>1, <2>2
<1>5. ASSUME NEW p \in Pipeline, NEW s \in Slot, SourceCreates(p, s)
      PROVE  E /\ S
  <2>1. /\ \E new : endpoints' = Append(endpoints, new)
        /\ spreadsheets' = spreadsheets /\ schemas' = schemas
    BY <1>5 DEF SourceCreates
  <2>2. QED
    BY <1>0, <1>2, <2>1
<1>6. ASSUME NEW p \in Pipeline, NEW s \in Slot, SheetsCreates(p, s)
      PROVE  E /\ S
  <2>1. /\ \E new : spreadsheets' = Append(spreadsheets, new)
        /\ endpoints' = endpoints /\ schemas' = schemas
    BY <1>6 DEF SheetsCreates
  <2>2. QED
    BY <1>0, <1>1, <2>1
<1>7. ASSUME NEW p \in Pipeline, NEW s \in Slot, DestPrepares(p, s)
      PROVE  E /\ S
  <2> DEFINE m == dest[p][s].made
  <2>1. /\ endpoints' = endpoints
        /\ \/ /\ spreadsheets' = [spreadsheets EXCEPT ![m].ready = TRUE] /\ schemas' = schemas
           \/ spreadsheets' = spreadsheets /\ schemas' = schemas \cup {p}
    BY <1>7 DEF DestPrepares
  <2>2. CASE spreadsheets' = [spreadsheets EXCEPT ![m].ready = TRUE] /\ schemas' = schemas
    <3>1. \A i \in DOMAIN spreadsheets : spreadsheets'[i].gone = spreadsheets[i].gone
      BY <1>0, <2>2 DEF Spreadsheet
    <3>2. QED
      BY <1>1, <2>1, <2>2, <3>1
  <2>3. CASE spreadsheets' = spreadsheets /\ schemas' = schemas \cup {p}
    BY <1>1, <2>1, <2>3
  <2>4. QED
    BY <2>1, <2>2, <2>3
<1>8. ASSUME NEW p \in Pipeline, TeardownSource(p)
      PROVE  S
  BY <1>2, <1>8 DEF TeardownSource
<1>9. ASSUME NEW p \in Pipeline, TeardownDest(p)
      PROVE  E
  BY <1>1, <1>9 DEF TeardownDest
<1>10. ASSUME NEW p \in Pipeline, NEW url \in Url \cup {None},
              CreatePipeline(p, url) \/ UpdatePipeline(p, url)
       PROVE  E /\ S
  <2>1. UNCHANGED outside
    BY <1>10 DEF CreatePipeline, UpdatePipeline, outside
  <2>2. QED
    BY <1>3, <2>1
<1>11. ASSUME NEW p \in Pipeline,
              \/ DeletePipeline(p) \/ DeleteStray(p)
              \/ BeginSetup(p) \/ SetupTimeout(p) \/ SetupFails(p) \/ EndSetup(p) \/ LateEnds(p)
              \/ BeginTeardown(p) \/ TeardownFails(p) \/ EndTeardown(p)
       PROVE  E /\ S
  <2>1. UNCHANGED outside
    BY <1>11 DEF DeletePipeline, DeleteStray, BeginSetup, SetupTimeout, SetupFails,
       EndSetup,
       LateEnds, BeginTeardown, TeardownFails, EndTeardown, outside
  <2>2. QED
    BY <1>3, <2>1
<1>12. ASSUME NEW p \in Pipeline, NEW s \in Slot, SourceLists(p, s)
       PROVE  E /\ S
  <2>1. UNCHANGED outside
    BY <1>12 DEF SourceLists, outside
  <2>2. QED
    BY <1>3, <2>1
<1> HIDE DEF E, S
<1>13. (E \/ \E p \in Pipeline : TeardownSource(p)) /\ (S \/ \E p \in Pipeline : TeardownDest(p))
  BY <1>4, <1>5, <1>6, <1>7, <1>8, <1>9, <1>10, <1>11, <1>12 DEF ResourcesNext
<1>14. QED
  BY <1>13 DEF E, S

(***************************************************************************)
(* A teardown deletes an endpoint of this software at one of the           *)
(* pipeline's own URLs, the pipeline's own spreadsheet, its own schema.    *)
(***************************************************************************)
THEOREM TeardownsTakeTheirOwn == ResourcesSpec => TeardownTouchesOwn
<1> DEFINE Own ==
             \A p \in Pipeline :
               /\ \A e \in DOMAIN endpoints :
                     endpoints'[e].status = "deleted" /\ endpoints[e].status # "deleted" =>
                       /\ endpoints[e].owner # "user"
                       /\ \E q \in Pipeline :
                             workflow[q] = "teardown" /\ endpoints[e].url \in used[q]
               /\ \A i \in DOMAIN spreadsheets :
                     spreadsheets'[i].gone /\ ~spreadsheets[i].gone =>
                       workflow[spreadsheets[i].owner] = "teardown"
               /\ p \in schemas \ schemas' => workflow[p] = "teardown"
<1>1. ASSUME Inv, NEW q \in Pipeline, TeardownSource(q), NEW e \in DOMAIN endpoints,
             endpoints'[e].status = "deleted", endpoints[e].status # "deleted"
      PROVE  /\ endpoints[e].owner # "user" /\ workflow[q] = "teardown"
             /\ endpoints[e].url \in used[q]
  <2> DEFINE c == teardown[q].config
             target == ManagedFor(c.url)
  <2>1. /\ c.kept /\ ~teardown[q].source
        /\ endpoints' = IF target = None THEN endpoints
                        ELSE [endpoints EXCEPT ![target].status = "deleted"]
    BY <1>1 DEF TeardownSource
  <2>2. workflow[q] = "teardown" /\ c.url \in used[q]
    BY <1>1, <2>1 DEF Inv, Good, Teared
  <2>3. target # None => Managed(target) /\ endpoints[target].url = c.url
    BY <1>1, ManagedForIs DEF Inv
  <2> HIDE DEF target
  <2>4. target # None /\ e = target
    BY <1>1, <2>1
  <2>5. QED
    BY <2>2, <2>3, <2>4 DEF Managed
<1>2. ASSUME Inv, NEW q \in Pipeline, TeardownDest(q)
      PROVE  /\ \A i \in DOMAIN spreadsheets :
                  spreadsheets'[i].gone /\ ~spreadsheets[i].gone =>
                    workflow[spreadsheets[i].owner] = "teardown"
             /\ schemas \ schemas' \subseteq {q} /\ workflow[q] = "teardown"
  <2> DEFINE m == teardown[q].config.sheet
  <2>1. workflow[q] = "teardown"
    BY <1>2 DEF TeardownDest, Inv, Good, Teared
  <2>2. CASE Sheets(q)
    <3>1. /\ m \in SheetsOwned(q) /\ schemas' = schemas
          /\ spreadsheets' = [spreadsheets EXCEPT ![m].gone = TRUE]
      BY <1>2, <2>2 DEF TeardownDest, Inv, Good, Teared
    <3>2. \A i \in DOMAIN spreadsheets \ {m} : spreadsheets'[i] = spreadsheets[i]
      BY <3>1
    <3>3. QED
      BY <2>1, <3>1, <3>2 DEF SheetsOwned
  <2>3. CASE ~Sheets(q)
    BY <1>2, <2>1, <2>3 DEF TeardownDest
  <2>4. QED
    BY <2>2, <2>3
<1>3. Inv /\ [ResourcesNext]_resources => [Own]_resources
  <2>1. SUFFICES ASSUME Inv, ResourcesNext
                 PROVE  Own
    OBVIOUS
  <2>2. \A e \in DOMAIN endpoints :
           endpoints'[e].status = "deleted" /\ endpoints[e].status # "deleted" =>
             /\ endpoints[e].owner # "user"
             /\ \E q \in Pipeline : workflow[q] = "teardown" /\ endpoints[e].url \in used[q]
    BY <1>1, <2>1, Taken
  <2>3. /\ \A i \in DOMAIN spreadsheets :
              spreadsheets'[i].gone /\ ~spreadsheets[i].gone =>
                workflow[spreadsheets[i].owner] = "teardown"
        /\ \A p \in Pipeline : p \in schemas \ schemas' => workflow[p] = "teardown"
    BY <1>2, <2>1, Taken
  <2>4. QED
    BY <2>2, <2>3
<1> HIDE DEF Own
<1>4. ResourcesSpec => [][Own]_resources
  BY <1>3, InvHolds, PTL DEF ResourcesSpec
<1>5. QED
  BY <1>4 DEF Own, TeardownTouchesOwn
-----------------------------------------------------------------------------
(***************************************************************************)
(* The workflow of one pipeline, for every set of events, batch size,      *)
(* threshold and number of pages.                                          *)
(***************************************************************************)

\* Operations in flight count against the threshold as well: both loops test
\* it before they start one, so together they overshoot by one at most.
OperationsBounded ==
    /\ operationCount + (IF live = "sync" THEN 1 ELSE 0)
                      + (IF backfill \in {"announce", "child"} THEN 1 ELSE 0)
           <= ContinueAsNewThreshold + 1
    /\ main \in {"announceSetup", "setup"} => operationCount = 0 /\ live = "off"

\* A batch is held only while its sync is in flight, and a sync is in flight
\* only in the main loop (a cancelled or failed workflow drops it there).
BatchInFlight ==
    /\ live # "sync" => batch = <<>>
    /\ Active /\ main # "parallel" => live # "sync"

\* The child never is behind the state its parent holds.
ChildAhead == backfill = "child" => childState >= syncState

\* TypeOK in the three parts that the actions disturb separately.
PlacesOK ==
    /\ main \in {"announceSetup", "setup", "initialBackfill", "parallel",
                 "announcePause", "paused", "announceResume",
                 "announceTeardown", "teardown", "ended", "failed"}
    /\ live \in {"off", "wait", "sync", "returned"}
    /\ reconcile \in {"off", "wait", "backfill", "returned"}
    /\ backfill \in {"off", "announce", "child", "conclude"}
    /\ write \in Statuses \cup {NoStatus}
    /\ status \in Statuses \cup {Gone}
    /\ paused \in BOOLEAN
    /\ acked \subseteq WebhookEvents

SequencesOK ==
    /\ inputQueue \in Seq(Events) /\ batch \in Seq(Events)
    /\ accepted \in Seq(Events) /\ synced \in Seq(Events)

NumbersOK ==
    /\ syncState \in 0..Pages /\ stored \in 0..Pages
    /\ state \in [setupComplete : BOOLEAN, backfilling : BOOLEAN,
                  backfillCount : Nat, teardown : BOOLEAN]
    /\ operationCount \in Nat
    /\ childState \in 0..Pages
    /\ toggles \in Nat

TypeInv == PlacesOK /\ SequencesOK /\ NumbersOK /\ OperationsBounded

\* The assumption, constant by constant.
LEMMA WorkflowParameters ==
    /\ LiveEventBatchSize \in Nat \ {0} /\ ContinueAsNewThreshold \in Nat \ {0}
    /\ Pages \in Nat \ {0}
BY WorkflowAssumption DEF WorkflowAssumption

-----------------------------------------------------------------------------
(* The queue *)

\* Splitting the queue gives two sequences of events whose concatenation is it.
LEMMA SpliceSplits ==
    ASSUME inputQueue \in Seq(Events)
    PROVE  /\ NextBatch \in Seq(Events) /\ RestOfQueue \in Seq(Events)
           /\ inputQueue = NextBatch \o RestOfQueue
<1> DEFINE n == Len(inputQueue)
<1>1. n \in Nat /\ BatchLength \in 0..n
  BY WorkflowParameters, LenProperties DEF BatchLength
<1>2. inputQueue = SubSeq(inputQueue, 1, n)
  BY SubSeqFull
<1>3. /\ NextBatch \in Seq(Events)
      /\ RestOfQueue \in Seq(Events)
  BY <1>1, SubSeqProperties DEF NextBatch, RestOfQueue
<1>4. NextBatch \o RestOfQueue = SubSeq(inputQueue, 1, n)
  <2> DEFINE k == BatchLength
  <2>1. 1 \in 1 .. n+1 /\ k \in 1-1 .. n /\ n \in k .. n
    BY <1>1
  <2>2. SubSeq(inputQueue, 1, k) \o SubSeq(inputQueue, k+1, n) = SubSeq(inputQueue, 1, n)
    BY <2>1, ConcatAdjacentSubSeq
  <2> QED BY <2>2 DEF NextBatch, RestOfQueue
<1> QED BY <1>2, <1>3, <1>4

-----------------------------------------------------------------------------
(* Types *)

\* Every coroutine stays at one of its awaits, every status is a status.
LEMMA PlacesStep == PlacesOK /\ [Next]_vars => PlacesOK'
<1> SUFFICES ASSUME PlacesOK, [Next]_vars PROVE PlacesOK'
  OBVIOUS
<1>1. CASE \E e \in Events : SourceInput(e)
  BY <1>1
     DEF SourceInput, PlacesOK, coroutines, locals, storage, history
<1>2. CASE \E e \in WebhookEvents : IngestWebhook(e)
  BY <1>2
     DEF IngestWebhook, PlacesOK, coroutines, locals, storage, history
<1>3. CASE \E value \in BOOLEAN : SetPaused(value)
  BY <1>3
     DEF SetPaused, PlacesOK, coroutines, locals, storage, history
<1>4. CASE Cancel
  BY <1>4
     DEF Cancel, EmitStatus, DerivePipelineStatus, Statuses, PlacesOK, coroutines, locals, storage, history
<1>5. CASE DeleteStopped
  BY <1>5
     DEF DeleteStopped, PlacesOK, coroutines, locals, storage, history
<1>6. CASE SetupDone
  BY <1>6
     DEF SetupDone, RunBackfill, EmitStatus, DerivePipelineStatus, Statuses, PlacesOK, coroutines, locals, storage, history
<1>7. CASE TeardownDone
  BY <1>7
     DEF TeardownDone, PlacesOK, coroutines, locals, storage, history
<1>8. CASE MainAnnounced
  BY <1>8
     DEF MainAnnounced, StatusWritten, Over, PlacesOK, coroutines, locals, storage, history
<1>9. CASE ResumeAnnounced
  BY <1>9
     DEF ResumeAnnounced, StatusWritten, MainLoop, DerivePipelineStatus, Statuses, Over, PlacesOK, coroutines, locals, storage, history
<1>10. CASE BackfillAnnounced
  BY <1>10
     DEF BackfillAnnounced, StatusWritten, Over, PlacesOK, coroutines, locals, storage, history
<1>11. CASE BackfillConcluded
  BY <1>11
     DEF BackfillConcluded, StatusWritten, MainLoop, DerivePipelineStatus, Statuses, Over, PlacesOK, coroutines, locals, storage, history
<1>12. CASE BackfillStep
  BY <1>12
     DEF BackfillStep, PlacesOK, coroutines, locals, storage, history
<1>13. CASE BackfillDone
  BY <1>13
     DEF BackfillDone, EmitStatus, DerivePipelineStatus, Statuses, PlacesOK, coroutines, locals, storage, history
<1>14. CASE LiveWakes
  BY <1>14
     DEF LiveWakes, PlacesOK, coroutines, locals, storage, history
<1>15. CASE ReconcileReturns
  BY <1>15
     DEF ReconcileReturns, PlacesOK, coroutines, locals, storage, history
<1>16. CASE Join
  BY <1>16
     DEF Join, MainLoop, DerivePipelineStatus, Statuses, PlacesOK, coroutines, locals, storage, history
<1>17. CASE Resume
  BY <1>17
     DEF Resume, DerivePipelineStatus, Statuses, PlacesOK, coroutines, locals, storage, history
<1>18. CASE LiveSynced
  BY <1>18
     DEF LiveSynced, PlacesOK, coroutines, locals, storage, history
<1>19. CASE ReconcileDue
  BY <1>19
     DEF ReconcileDue, RunBackfill, EmitStatus, DerivePipelineStatus, Statuses, PlacesOK, coroutines, locals, storage, history
<1>20. CASE SyncAttemptLost
  BY <1>20
     DEF SyncAttemptLost, PlacesOK, coroutines, locals, storage, history
<1>21. CASE Fail
  BY <1>21
     DEF Fail, PlacesOK, coroutines, locals, storage, history
<1>22. CASE UNCHANGED vars
  BY <1>22
     DEF vars, PlacesOK, coroutines, locals, storage, history
<1> QED
  BY <1>1, <1>2, <1>3, <1>4, <1>5, <1>6, <1>7, <1>8, <1>9, <1>10, <1>11,
     <1>12, <1>13, <1>14, <1>15, <1>16, <1>17, <1>18, <1>19, <1>20, <1>21, <1>22
     DEF Next, Coroutines, StatusAnswers

\* The queue, the batch and the histories stay sequences of events.
LEMMA SequencesStep == SequencesOK /\ [Next]_vars => SequencesOK'
<1> SUFFICES ASSUME SequencesOK, [Next]_vars PROVE SequencesOK'
  OBVIOUS
<1>1. CASE \E e \in Events : SourceInput(e)
  <2> PICK e \in Events : SourceInput(e) BY <1>1
  <2> QED BY AppendProperties DEF SourceInput, SequencesOK
<1>2. CASE \E e \in WebhookEvents : IngestWebhook(e)
  BY <1>2
     DEF IngestWebhook, SequencesOK, coroutines, locals, storage, history
<1>3. CASE \E value \in BOOLEAN : SetPaused(value)
  BY <1>3
     DEF SetPaused, SequencesOK, coroutines, locals, storage, history
<1>4. CASE Cancel
  BY <1>4
     DEF Cancel, SequencesOK, coroutines, locals, storage, history
<1>5. CASE DeleteStopped
  BY <1>5
     DEF DeleteStopped, SequencesOK, coroutines, locals, storage, history
<1>6. CASE SetupDone
  BY <1>6
     DEF SetupDone, RunBackfill, SequencesOK, coroutines, locals, storage, history
<1>7. CASE TeardownDone
  BY <1>7
     DEF TeardownDone, SequencesOK, coroutines, locals, storage, history
<1>8. CASE MainAnnounced
  BY <1>8
     DEF MainAnnounced, StatusWritten, SequencesOK, coroutines, locals, storage, history
<1>9. CASE ResumeAnnounced
  BY <1>9
     DEF ResumeAnnounced, StatusWritten, MainLoop, SequencesOK, coroutines, locals, storage, history
<1>10. CASE BackfillAnnounced
  BY <1>10
     DEF BackfillAnnounced, StatusWritten, SequencesOK, coroutines, locals, storage, history
<1>11. CASE BackfillConcluded
  BY <1>11
     DEF BackfillConcluded, StatusWritten, MainLoop, SequencesOK, coroutines, locals, storage, history
<1>12. CASE BackfillStep
  BY <1>12
     DEF BackfillStep, SequencesOK, coroutines, locals, storage, history
<1>13. CASE BackfillDone
  BY <1>13
     DEF BackfillDone, SequencesOK, coroutines, locals, storage, history
<1>14. CASE LiveWakes
  <2>1. inputQueue' \in Seq(Events) /\ batch' \in Seq(Events)
    BY <1>14, SpliceSplits, Zenon DEF LiveWakes, SequencesOK
  <2> QED BY <1>14, <2>1 DEF LiveWakes, SequencesOK, history
<1>15. CASE ReconcileReturns
  BY <1>15
     DEF ReconcileReturns, SequencesOK, coroutines, locals, storage, history
<1>16. CASE Join
  BY <1>16
     DEF Join, MainLoop, Carried, SequencesOK, coroutines, locals, storage, history
<1>17. CASE Resume
  BY <1>17
     DEF Resume, SequencesOK, coroutines, locals, storage, history
<1>18. CASE LiveSynced
  BY <1>18, ConcatProperties, EmptySeq DEF LiveSynced, SequencesOK
<1>19. CASE ReconcileDue
  BY <1>19
     DEF ReconcileDue, RunBackfill, SequencesOK, coroutines, locals, storage, history
<1>20. CASE SyncAttemptLost
  BY <1>20
     DEF SyncAttemptLost, SequencesOK, coroutines, locals, storage, history
<1>21. CASE Fail
  BY <1>21
     DEF Fail, SequencesOK, coroutines, locals, storage, history
<1>22. CASE UNCHANGED vars
  BY <1>22
     DEF vars, SequencesOK, coroutines, locals, storage, history
<1> QED
  BY <1>1, <1>2, <1>3, <1>4, <1>5, <1>6, <1>7, <1>8, <1>9, <1>10, <1>11,
     <1>12, <1>13, <1>14, <1>15, <1>16, <1>17, <1>18, <1>19, <1>20, <1>21, <1>22
     DEF Next, Coroutines, StatusAnswers

\* Checkpoints stay within the pages of a backfill, and what is in flight has
\* room under the threshold.
LEMMA NumbersStep ==
    NumbersOK /\ OperationsBounded /\ [Next]_vars => NumbersOK' /\ OperationsBounded'
<1> SUFFICES ASSUME NumbersOK, OperationsBounded, [Next]_vars
             PROVE  NumbersOK' /\ OperationsBounded'
  OBVIOUS
<1> USE WorkflowParameters
<1>1. CASE \E e \in Events : SourceInput(e)
  BY <1>1
     DEF SourceInput, NumbersOK, OperationsBounded, coroutines, locals, storage, history
<1>2. CASE \E e \in WebhookEvents : IngestWebhook(e)
  BY <1>2
     DEF IngestWebhook, NumbersOK, OperationsBounded, coroutines, locals, storage, history
<1>3. CASE \E value \in BOOLEAN : SetPaused(value)
  BY <1>3
     DEF SetPaused, NumbersOK, OperationsBounded, coroutines, locals, storage, history
<1>4. CASE Cancel
  BY <1>4
     DEF Cancel, NumbersOK, OperationsBounded, coroutines, locals, storage, history
<1>5. CASE DeleteStopped
  BY <1>5
     DEF DeleteStopped, NumbersOK, OperationsBounded, coroutines, locals, storage, history
<1>6. CASE SetupDone
  <2> DEFINE done == [state EXCEPT !.setupComplete = TRUE]
  <2>1. done \in [setupComplete : BOOLEAN, backfilling : BOOLEAN,
                  backfillCount : Nat, teardown : BOOLEAN]
    BY DEF NumbersOK
  <2>2. state' = [done EXCEPT !.backfilling = TRUE] /\ backfill' = "announce"
    BY <1>6 DEF SetupDone, RunBackfill
  <2>3. state' \in [setupComplete : BOOLEAN, backfilling : BOOLEAN,
                    backfillCount : Nat, teardown : BOOLEAN]
    BY <2>1, <2>2
  <2>4. /\ main = "setup" /\ main' = "initialBackfill"
        /\ UNCHANGED <<live, syncState, operationCount, childState, stored, toggles>>
    BY <1>6 DEF SetupDone, storage, history
  <2>5. OperationsBounded'
    BY <2>2, <2>4 DEF OperationsBounded
  <2> QED BY <2>3, <2>4, <2>5 DEF NumbersOK
<1>7. CASE TeardownDone
  BY <1>7
     DEF TeardownDone, NumbersOK, OperationsBounded, coroutines, locals, storage, history
<1>8. CASE MainAnnounced
  BY <1>8
     DEF MainAnnounced, StatusWritten, Active, NumbersOK, OperationsBounded, coroutines, locals, storage, history
<1>9. CASE ResumeAnnounced
  BY <1>9
     DEF ResumeAnnounced, StatusWritten, MainLoop, Active, NumbersOK, OperationsBounded, coroutines, locals, storage, history
<1>10. CASE BackfillAnnounced
  BY <1>10
     DEF BackfillAnnounced, StatusWritten, Active, NumbersOK, OperationsBounded, coroutines, locals, storage, history
<1>11. CASE BackfillConcluded
  BY <1>11
     DEF BackfillConcluded, StatusWritten, MainLoop, Active, NumbersOK, OperationsBounded, coroutines, locals, storage, history
<1>12. CASE BackfillStep
  <2>1. EndingState \in 0..Pages BY DEF EndingState, NumbersOK
  <2> QED BY <1>12, <2>1
     DEF BackfillStep, NumbersOK, OperationsBounded, coroutines, locals, history
<1>13. CASE BackfillDone
  <2>1. EndingState \in 0..Pages BY DEF EndingState, NumbersOK
  <2>2. state' \in [setupComplete : BOOLEAN, backfilling : BOOLEAN,
                    backfillCount : Nat, teardown : BOOLEAN]
    <3>1. state.backfillCount + 1 \in Nat
      BY DEF NumbersOK
    <3>2. state' = [state EXCEPT !.backfilling = FALSE,
                                 !.backfillCount = state.backfillCount + 1]
      BY <1>13 DEF BackfillDone
    <3>3. state \in [setupComplete : BOOLEAN, backfilling : BOOLEAN,
                     backfillCount : Nat, teardown : BOOLEAN]
      BY DEF NumbersOK
    <3> QED BY <3>1, <3>2, <3>3
  <2>3. /\ operationCount' = operationCount + 1 /\ backfill = "child" /\ backfill' = "conclude"
        /\ main \in {"initialBackfill", "parallel"} /\ UNCHANGED <<main, live>>
    BY <1>13 DEF BackfillDone, InBackfill
  <2>4. OperationsBounded'
    BY <2>3 DEF OperationsBounded, NumbersOK
  <2> QED BY <1>13, <2>1, <2>2, <2>3, <2>4 DEF BackfillDone, NumbersOK, history
<1>14. CASE LiveWakes
  BY <1>14
     DEF LiveWakes, LiveReady, RunInterrupted, NumbersOK, OperationsBounded, coroutines, locals, storage, history
<1>15. CASE ReconcileReturns
  BY <1>15
     DEF ReconcileReturns, NumbersOK, OperationsBounded, coroutines, locals, storage, history
<1>16. CASE Join
  BY <1>16
     DEF Join, MainLoop, Carried, JoinReady, NumbersOK, OperationsBounded, coroutines, locals, storage, history
<1>17. CASE Resume
  BY <1>17
     DEF Resume, NumbersOK, OperationsBounded, coroutines, locals, storage, history
<1>18. CASE LiveSynced
  BY <1>18
     DEF LiveSynced, EmptySyncState, NumbersOK, OperationsBounded, coroutines, locals, storage, history
<1>19. CASE ReconcileDue
  <2>1. operationCount < ContinueAsNewThreshold
    BY <1>19 DEF ReconcileDue, Quiet, ReconcileReady, RunInterrupted, NumbersOK
  <2>2. state' \in [setupComplete : BOOLEAN, backfilling : BOOLEAN,
                    backfillCount : Nat, teardown : BOOLEAN]
    BY <1>19 DEF ReconcileDue, RunBackfill, NumbersOK
  <2>3. OperationsBounded'
    BY <1>19, <2>1 DEF ReconcileDue, RunBackfill, OperationsBounded, NumbersOK
  <2> QED BY <1>19, <2>2, <2>3 DEF ReconcileDue, NumbersOK, storage, history
<1>20. CASE SyncAttemptLost
  BY <1>20
     DEF SyncAttemptLost, EndingState, EmptySyncState, NumbersOK, OperationsBounded, coroutines, locals, storage, history
<1>21. CASE Fail
  BY <1>21
     DEF Fail, Over, NumbersOK, OperationsBounded, coroutines, locals, storage, history
<1>22. CASE UNCHANGED vars
  BY <1>22
     DEF vars, NumbersOK, OperationsBounded, coroutines, locals, storage, history
<1> QED
  BY <1>1, <1>2, <1>3, <1>4, <1>5, <1>6, <1>7, <1>8, <1>9, <1>10, <1>11,
     <1>12, <1>13, <1>14, <1>15, <1>16, <1>17, <1>18, <1>19, <1>20, <1>21, <1>22
     DEF Next, Coroutines, StatusAnswers

\* The three parts hold initially.
LEMMA TypeInit == Init => TypeInv
<1> SUFFICES ASSUME Init PROVE TypeInv
  OBVIOUS
<1>1. PlacesOK BY DEF Init, PlacesOK, Statuses
<1>2. SequencesOK BY EmptySeq DEF Init, SequencesOK
<1>3. NumbersOK /\ OperationsBounded
  BY WorkflowParameters DEF Init, NumbersOK, OperationsBounded, EmptySyncState
<1> QED BY <1>1, <1>2, <1>3 DEF TypeInv

\* And give the type invariant of the module.
LEMMA TypeInvGives == TypeInv => TypeOK
<1> SUFFICES ASSUME TypeInv PROVE TypeOK
  OBVIOUS
<1>1. operationCount \in 0..ContinueAsNewThreshold + 1
  BY WorkflowParameters DEF TypeInv, NumbersOK, OperationsBounded
<1> QED BY <1>1 DEF TypeInv, TypeOK, PlacesOK, SequencesOK, NumbersOK

\* Types, and the number of operations of one run of the workflow: it exceeds
\* the threshold by one at most.
THEOREM WorkflowTypes == Spec => []TypeOK
<1>1. TypeInv /\ [Next]_vars => TypeInv'
  BY PlacesStep, SequencesStep, NumbersStep DEF TypeInv
<1> QED BY <1>1, TypeInit, TypeInvGives, PTL DEF Spec

-----------------------------------------------------------------------------
(* No event is lost *)

QueueInv == EventsInOrder /\ BatchInFlight

\* The batch is taken from the front of the queue when none is held, and joins
\* the synced events before it is dropped.
LEMMA QueueStep == SequencesOK /\ QueueInv /\ [Next]_vars => QueueInv'
<1> SUFFICES ASSUME SequencesOK, QueueInv, [Next]_vars PROVE QueueInv'
  OBVIOUS
<1>1. CASE \E e \in Events : SourceInput(e)
  <2> PICK e \in Events : SourceInput(e) BY <1>1
  <2>1. /\ inputQueue' = inputQueue \o <<e>> /\ accepted' = accepted \o <<e>>
        /\ <<e>> \in Seq(Events)
    BY AppendIsConcat DEF SourceInput, SequencesOK
  <2>2. accepted' = synced \o batch \o inputQueue'
    <3> DEFINE taken == synced \o batch
    <3>1. taken \in Seq(Events) /\ inputQueue \in Seq(Events)
      BY ConcatProperties DEF SequencesOK
    <3> HIDE DEF taken
    <3>2. taken \o (inputQueue \o <<e>>) = (taken \o inputQueue) \o <<e>>
      BY <2>1, <3>1, ConcatAssociative
    <3> USE DEF taken
    <3> QED BY <2>1, <3>2 DEF QueueInv, EventsInOrder
  <2> QED BY <2>2 DEF SourceInput, QueueInv, EventsInOrder, BatchInFlight, Active, coroutines
<1>2. CASE \E e \in WebhookEvents : IngestWebhook(e)
  BY <1>2
     DEF IngestWebhook, QueueInv, EventsInOrder, BatchInFlight, Active, coroutines, locals, storage, history
<1>3. CASE \E value \in BOOLEAN : SetPaused(value)
  BY <1>3
     DEF SetPaused, QueueInv, EventsInOrder, BatchInFlight, Active, coroutines, locals, storage, history
<1>4. CASE Cancel
  BY <1>4
     DEF Cancel, QueueInv, EventsInOrder, BatchInFlight, Active, coroutines, locals, storage, history
<1>5. CASE DeleteStopped
  BY <1>5
     DEF DeleteStopped, QueueInv, EventsInOrder, BatchInFlight, Active, coroutines, locals, storage, history
<1>6. CASE SetupDone
  BY <1>6
     DEF SetupDone, RunBackfill, QueueInv, EventsInOrder, BatchInFlight, Active, coroutines, locals, storage, history
<1>7. CASE TeardownDone
  BY <1>7
     DEF TeardownDone, QueueInv, EventsInOrder, BatchInFlight, Active, coroutines, locals, storage, history
<1>8. CASE MainAnnounced
  BY <1>8
     DEF MainAnnounced, StatusWritten, QueueInv, EventsInOrder, BatchInFlight, Active, coroutines, locals, storage, history
<1>9. CASE ResumeAnnounced
  BY <1>9
     DEF ResumeAnnounced, StatusWritten, MainLoop, QueueInv, EventsInOrder, BatchInFlight, Active, coroutines, locals, storage, history
<1>10. CASE BackfillAnnounced
  BY <1>10
     DEF BackfillAnnounced, StatusWritten, QueueInv, EventsInOrder, BatchInFlight, Active, coroutines, locals, storage, history
<1>11. CASE BackfillConcluded
  BY <1>11
     DEF BackfillConcluded, StatusWritten, MainLoop, QueueInv, EventsInOrder, BatchInFlight, Active, coroutines, locals, storage, history
<1>12. CASE BackfillStep
  BY <1>12
     DEF BackfillStep, QueueInv, EventsInOrder, BatchInFlight, Active, coroutines, locals, storage, history
<1>13. CASE BackfillDone
  BY <1>13
     DEF BackfillDone, QueueInv, EventsInOrder, BatchInFlight, Active, coroutines, locals, storage, history
<1>14. CASE LiveWakes
  <2>1. CASE UNCHANGED <<inputQueue, batch>>
    BY <1>14, <2>1 DEF LiveWakes, LiveReady, QueueInv, EventsInOrder, BatchInFlight, Active, history
  <2>2. CASE batch' = NextBatch /\ inputQueue' = RestOfQueue /\ live' = "sync"
    <3>1. batch = <<>> BY <1>14 DEF LiveWakes, LiveReady, QueueInv, BatchInFlight
    <3>2. synced \o batch = synced BY <3>1, ConcatEmptySeq DEF SequencesOK
    <3>3. inputQueue = batch' \o inputQueue'
      BY <2>2, SpliceSplits DEF SequencesOK
    <3>4. synced \o (batch' \o inputQueue') = synced \o batch' \o inputQueue'
      <4>1. /\ synced \in Seq(Events) /\ NextBatch \in Seq(Events)
            /\ RestOfQueue \in Seq(Events)
        BY SpliceSplits DEF SequencesOK
      <4>2. synced \o (NextBatch \o RestOfQueue) = synced \o NextBatch \o RestOfQueue
        BY <4>1, ConcatAssociative
      <4> QED BY <2>2, <4>2
    <3>5. accepted = synced \o batch' \o inputQueue'
      BY <3>2, <3>3, <3>4 DEF QueueInv, EventsInOrder
    <3> QED BY <1>14, <2>2, <3>5 DEF LiveWakes, LiveReady, QueueInv, EventsInOrder, BatchInFlight, Active, history
  <2> QED BY <1>14, <2>1, <2>2 DEF LiveWakes
<1>15. CASE ReconcileReturns
  BY <1>15
     DEF ReconcileReturns, QueueInv, EventsInOrder, BatchInFlight, Active, coroutines, locals, storage, history
<1>16. CASE Join
  BY <1>16
     DEF Join, MainLoop, Carried, JoinReady, QueueInv, EventsInOrder, BatchInFlight, Active, coroutines, locals, storage, history
<1>17. CASE Resume
  BY <1>17
     DEF Resume, ResumeReady, QueueInv, EventsInOrder, BatchInFlight, Active, coroutines, locals, storage, history
<1>18. CASE LiveSynced
  <2>1. synced \o batch \in Seq(Events) BY ConcatProperties DEF SequencesOK
  <2>2. synced' \o batch' = synced \o batch
    BY <1>18, <2>1, ConcatEmptySeq DEF LiveSynced
  <2> QED BY <1>18, <2>2 DEF LiveSynced, QueueInv, EventsInOrder, BatchInFlight, Active
<1>19. CASE ReconcileDue
  BY <1>19
     DEF ReconcileDue, RunBackfill, QueueInv, EventsInOrder, BatchInFlight, Active, coroutines, locals, storage, history
<1>20. CASE SyncAttemptLost
  BY <1>20
     DEF SyncAttemptLost, QueueInv, EventsInOrder, BatchInFlight, Active, coroutines, locals, storage, history
<1>21. CASE Fail
  BY <1>21
     DEF Fail, QueueInv, EventsInOrder, BatchInFlight, Active, coroutines, locals, storage, history
<1>22. CASE UNCHANGED vars
  BY <1>22
     DEF vars, QueueInv, EventsInOrder, BatchInFlight, Active, coroutines, locals, storage, history
<1> QED
  BY <1>1, <1>2, <1>3, <1>4, <1>5, <1>6, <1>7, <1>8, <1>9, <1>10, <1>11,
     <1>12, <1>13, <1>14, <1>15, <1>16, <1>17, <1>18, <1>19, <1>20, <1>21, <1>22
     DEF Next, Coroutines, StatusAnswers

\* No event is lost, repeated or reordered between its signal and its sync.
THEOREM WorkflowKeepsEvents == Spec => []EventsInOrder
<1>1. Init => SequencesOK /\ QueueInv
  <2>1. <<>> \o <<>> \o <<>> = <<>> BY EmptySeq, ConcatEmptySeq
  <2> QED BY <2>1, TypeInit DEF Init, TypeInv, QueueInv, EventsInOrder, BatchInFlight, Active
<1> QED BY <1>1, SequencesStep, QueueStep, PTL DEF Spec, QueueInv

-----------------------------------------------------------------------------
(* The checkpoint advances *)

\* A request accounts for no fewer pages than the one before it, so the child
\* stays ahead of the state its parent keeps.
LEMMA ChildStep ==
    NumbersOK /\ ChildAhead /\ [Next]_vars =>
        /\ ChildAhead'
        /\ syncState' >= syncState
        /\ backfill = "announce" /\ backfill' = "child" => childState' >= syncState
<1> SUFFICES ASSUME NumbersOK, ChildAhead, [Next]_vars
             PROVE  /\ ChildAhead'
                    /\ syncState' >= syncState
                    /\ backfill = "announce" /\ backfill' = "child" => childState' >= syncState
  OBVIOUS
<1> USE WorkflowParameters
<1>1. CASE \E e \in Events : SourceInput(e)
  BY <1>1
     DEF SourceInput, NumbersOK, ChildAhead, coroutines, locals, storage, history
<1>2. CASE \E e \in WebhookEvents : IngestWebhook(e)
  BY <1>2
     DEF IngestWebhook, NumbersOK, ChildAhead, coroutines, locals, storage, history
<1>3. CASE \E value \in BOOLEAN : SetPaused(value)
  BY <1>3
     DEF SetPaused, NumbersOK, ChildAhead, coroutines, locals, storage, history
<1>4. CASE Cancel
  BY <1>4
     DEF Cancel, NumbersOK, ChildAhead, coroutines, locals, storage, history
<1>5. CASE DeleteStopped
  BY <1>5
     DEF DeleteStopped, NumbersOK, ChildAhead, coroutines, locals, storage, history
<1>6. CASE SetupDone
  BY <1>6
     DEF SetupDone, RunBackfill, NumbersOK, ChildAhead, coroutines, locals, storage, history
<1>7. CASE TeardownDone
  BY <1>7
     DEF TeardownDone, NumbersOK, ChildAhead, coroutines, locals, storage, history
<1>8. CASE MainAnnounced
  BY <1>8
     DEF MainAnnounced, StatusWritten, NumbersOK, ChildAhead, coroutines, locals, storage, history
<1>9. CASE ResumeAnnounced
  BY <1>9
     DEF ResumeAnnounced, StatusWritten, MainLoop, NumbersOK, ChildAhead, coroutines, locals, storage, history
<1>10. CASE BackfillAnnounced
  BY <1>10
     DEF BackfillAnnounced, StatusWritten, NumbersOK, ChildAhead, coroutines, locals, storage, history
<1>11. CASE BackfillConcluded
  BY <1>11
     DEF BackfillConcluded, StatusWritten, MainLoop, NumbersOK, ChildAhead, coroutines, locals, storage, history
<1>12. CASE BackfillStep
  <2>1. EndingState \in Nat /\ EndingState >= syncState
    BY <1>12 DEF BackfillStep, InBackfill, EndingState, NumbersOK, ChildAhead
  <2>2. childState' = EndingState
    BY <1>12 DEF BackfillStep, NumbersOK
  <2> QED BY <1>12, <2>1, <2>2 DEF BackfillStep, ChildAhead, NumbersOK, coroutines, locals
<1>13. CASE BackfillDone
  <2>1. EndingState \in Nat /\ EndingState >= syncState
    BY <1>13 DEF BackfillDone, InBackfill, EndingState, NumbersOK, ChildAhead
  <2> QED BY <1>13, <2>1 DEF BackfillDone, InBackfill, ChildAhead
<1>14. CASE LiveWakes
  BY <1>14
     DEF LiveWakes, NumbersOK, ChildAhead, coroutines, locals, storage, history
<1>15. CASE ReconcileReturns
  BY <1>15
     DEF ReconcileReturns, NumbersOK, ChildAhead, coroutines, locals, storage, history
<1>16. CASE Join
  BY <1>16
     DEF Join, MainLoop, Carried, NumbersOK, ChildAhead, coroutines, locals, storage, history
<1>17. CASE Resume
  BY <1>17
     DEF Resume, NumbersOK, ChildAhead, coroutines, locals, storage, history
<1>18. CASE LiveSynced
  BY <1>18
     DEF LiveSynced, NumbersOK, ChildAhead, coroutines, locals, storage, history
<1>19. CASE ReconcileDue
  BY <1>19
     DEF ReconcileDue, RunBackfill, NumbersOK, ChildAhead, coroutines, locals, storage, history
<1>20. CASE SyncAttemptLost
  BY <1>20
     DEF SyncAttemptLost, NumbersOK, ChildAhead, coroutines, locals, storage, history
<1>21. CASE Fail
  BY <1>21
     DEF Fail, NumbersOK, ChildAhead, coroutines, locals, storage, history
<1>22. CASE UNCHANGED vars
  BY <1>22
     DEF vars, NumbersOK, ChildAhead, coroutines, locals, storage, history
<1> QED
  BY <1>1, <1>2, <1>3, <1>4, <1>5, <1>6, <1>7, <1>8, <1>9, <1>10, <1>11,
     <1>12, <1>13, <1>14, <1>15, <1>16, <1>17, <1>18, <1>19, <1>20, <1>21, <1>22
     DEF Next, Coroutines, StatusAnswers

\* The checkpoint the workflow keeps, across its runs too, never goes backwards.
THEOREM WorkflowCheckpointAdvances == Spec => SyncStateAdvances
<1>1. Init => NumbersOK /\ ChildAhead
  BY TypeInit DEF Init, TypeInv, ChildAhead
<1>2. TypeInv /\ ChildAhead /\ [Next]_vars => TypeInv' /\ ChildAhead'
  BY PlacesStep, SequencesStep, NumbersStep, ChildStep DEF TypeInv
<1>3. TypeInv /\ ChildAhead /\ [Next]_vars =>
        [/\ syncState' >= syncState
         /\ backfill = "announce" /\ backfill' = "child" => childState' >= syncState]_vars
  BY ChildStep DEF TypeInv
<1> QED BY <1>1, <1>2, <1>3, TypeInit, PTL DEF Spec, SyncStateAdvances

=============================================================================
