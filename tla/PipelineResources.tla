------------------------- MODULE PipelineResources -------------------------
(***************************************************************************)
(* What a pipeline creates outside the service and what its deletion takes *)
(* away: the record in the store, the webhook endpoint at Stripe, and the  *)
(* spreadsheet or the Postgres schema at the destination.                  *)
(*                                                                         *)
(* The setup activity snapshots the record, lets the engine run the setup  *)
(* hooks of both connectors side by side, and writes back what they report *)
(* when both have ended.  An attempt that fails is retried.  A hook that   *)
(* exceeds the engine's limit of 30 s ends like one that has nothing to    *)
(* report, and a hook nobody listens to any more still runs to its end,    *)
(* since neither has a yield before its last statement.  Deleting the      *)
(* pipeline cancels the workflow at once, whatever its setup is doing, and *)
(* tears down what the record names.                                       *)
(***************************************************************************)
EXTENDS Integers, FiniteSets, SequencesExt

CONSTANTS
    Pipeline,
    OnSheets,       \* the pipelines that write to Google Sheets, the others to Postgres
    Url,            \* webhook URLs
    MaxAttempts,    \* retryPolicy.maximumAttempts
    MaxFaults,      \* bound: kinds of disturbance, summed over the pipelines
    MaxCreated      \* bound: endpoints and spreadsheets ever created, each

ASSUME ResourcesAssumption ==
    /\ OnSheets \subseteq Pipeline /\ "user" \notin Pipeline
    /\ Url # {}
    /\ {MaxAttempts, MaxFaults, MaxCreated} \subseteq Nat \ {0}

VARIABLES
    store,          \* the record of each pipeline
    workflow,       \* where its workflow is
    attempts,       \* attempts of the current activity so far
    setup,          \* the config the current setup attempt works from
    source,         \* the source's setup hooks: the awaited one and a late one
    dest,           \* the destination's, likewise
    teardown,       \* the current teardown attempt
    endpoints,      \* at Stripe, oldest first; the first one is a user's own
    spreadsheets,   \* at Google, oldest first
    schemas,        \* the pipelines whose Postgres schema is set up
    used,           \* the URLs each pipeline has had so far
    trouble         \* what went wrong so far, and for which pipeline

resources == <<store, workflow, attempts, setup, source, dest, teardown,
          endpoints, spreadsheets, schemas, used, trouble>>

outside == <<endpoints, spreadsheets, schemas>>

None     == 0
NoRecord == [url |-> None, secret |-> None, sheet |-> None, kept |-> FALSE]
NoHook   == [at |-> "off", url |-> None, made |-> None]
NoCall   == [config |-> NoRecord, source |-> FALSE, dest |-> FALSE]
Slot     == {"awaited", "late"}

Exists(p)  == store[p].kept
Sheets(p)  == p \in OnSheets
Faults     == {"failed", "timeout", "cancelled", "patched", "disabled"}

Trouble(p, what) ==
    /\ trouble' = trouble \cup {<<p, what>>}
    /\ Cardinality(trouble') <= MaxFaults

-----------------------------------------------------------------------------
(* The accounts at Stripe and Google.                                      *)

AnyEndpoint(e) == e > 0
Enabled(e)  == endpoints[e].status = "enabled"
Managed(e)  == endpoints[e].owner # "user"

\* listWebhookEndpoints returns the newest first and find takes the first match
ManagedFor(url) ==
    LET known == {e \in DOMAIN endpoints : /\ Managed(e) /\ endpoints[e].url = url
                                           /\ endpoints[e].status # "deleted"}
    IN  IF known = {} THEN None ELSE Max(known)

ResourcesInit ==
    /\ store = [p \in Pipeline |-> NoRecord]
    /\ workflow = [p \in Pipeline |-> "none"]
    /\ attempts = [p \in Pipeline |-> 0]
    /\ setup = [p \in Pipeline |-> NoRecord]
    /\ source = [p \in Pipeline |-> [s \in Slot |-> NoHook]]
    /\ dest = [p \in Pipeline |-> [s \in Slot |-> NoHook]]
    /\ teardown = [p \in Pipeline |-> NoCall]
    /\ \E u \in Url : endpoints = <<[url |-> u, owner |-> "user", status |-> "enabled"]>>
    /\ spreadsheets = <<>> /\ schemas = {}
    /\ used = [p \in Pipeline |-> {}]
    /\ trouble = {}

\* external: Stripe disables an endpoint that keeps failing
Disable(e) ==
    /\ Enabled(e) /\ Managed(e)
    /\ endpoints' = [endpoints EXCEPT ![e].status = "disabled"]
    /\ Trouble(endpoints[e].owner, "disabled")
    /\ UNCHANGED <<store, workflow, attempts, setup, source, dest, teardown,
                   spreadsheets, schemas, used>>

-----------------------------------------------------------------------------
(* The service's API.                                                      *)

\* pipelines.create: the record is stored before the workflow is started
CreatePipeline(p, url) ==
    /\ workflow[p] = "none" /\ ~Exists(p)
    /\ store' = [store EXCEPT ![p] = [NoRecord EXCEPT !.url = url, !.kept = TRUE]]
    /\ workflow' = [workflow EXCEPT ![p] = "setup"]
    /\ used' = [used EXCEPT ![p] = @ \cup ({url} \ {None})]
    /\ UNCHANGED <<attempts, setup, source, dest, teardown, outside, trouble>>

\* pipelines.update: the source's config is replaced as a whole
UpdatePipeline(p, url) ==
    /\ Exists(p) /\ url # store[p].url
    /\ store' = [store EXCEPT ![p].url = url, ![p].secret = None]
    /\ used' = [used EXCEPT ![p] = @ \cup ({url} \ {None})]
    /\ Trouble(p, "patched")
    /\ UNCHANGED <<workflow, attempts, setup, source, dest, teardown, outside>>

Cancellable(p) == workflow[p] \in {"setup", "running"}

\* pipelines.delete: cancels the workflow; a setup attempt in progress goes on
\* but its result is no longer waited for
DeletePipeline(p) ==
    /\ Exists(p) /\ Cancellable(p)
    /\ workflow' = [workflow EXCEPT ![p] = "teardown"]
    /\ attempts' = [attempts EXCEPT ![p] = 0]
    /\ IF setup[p].kept THEN Trouble(p, "cancelled") ELSE UNCHANGED trouble
    /\ UNCHANGED <<store, setup, source, dest, teardown, outside, used>>

\* the workflow has ended: the record is removed directly
DeleteStray(p) ==
    /\ Exists(p) /\ workflow[p] = "failed"
    /\ store' = [store EXCEPT ![p] = NoRecord]
    /\ UNCHANGED <<workflow, attempts, setup, source, dest, teardown, outside, trouble, used>>

-----------------------------------------------------------------------------
(* The setup activity.                                                     *)

BeginSetup(p) ==
    /\ workflow[p] = "setup" /\ ~setup[p].kept
    /\ setup' = [setup EXCEPT ![p] = store[p]]
    /\ source' = [source EXCEPT ![p]["awaited"] =
           [at |-> "list", url |-> store[p].url, made |-> None]]
    /\ dest' = [dest EXCEPT ![p]["awaited"] =
           [at |-> IF Sheets(p) /\ store[p].sheet = None THEN "create" ELSE "prepare",
            url |-> None, made |-> store[p].sheet]]
    /\ UNCHANGED <<store, workflow, attempts, teardown, outside, trouble, used>>

\* source setup: an enabled managed endpoint is kept, secret or no secret
SourceLists(p, s) ==
    LET h == source[p][s]
        found == ManagedFor(h.url)
    IN  /\ h.at = "list"
        /\ source' = [source EXCEPT ![p][s].at =
               IF h.url = None THEN "end"
               ELSE IF found # None /\ Enabled(found) THEN "end" ELSE "create"]
        /\ UNCHANGED <<store, workflow, attempts, setup, dest, teardown, outside, trouble, used>>

SourceCreates(p, s) ==
    LET h == source[p][s]
    IN  /\ h.at = "create" /\ Len(endpoints) <= MaxCreated
        /\ endpoints' = Append(endpoints,
               [url |-> h.url, owner |-> p, status |-> "enabled"])
        /\ source' = [source EXCEPT ![p][s].at = "end", ![p][s].made = Len(endpoints) + 1]
        /\ UNCHANGED <<store, workflow, attempts, setup, dest, teardown,
                       spreadsheets, schemas, trouble, used>>

\* destination setup, Sheets: a new spreadsheet when the config names none
SheetsCreates(p, s) ==
    /\ dest[p][s].at = "create" /\ Len(spreadsheets) < MaxCreated
    /\ spreadsheets' = Append(spreadsheets, [owner |-> p, ready |-> FALSE, gone |-> FALSE])
    /\ dest' = [dest EXCEPT ![p][s].at = "prepare", ![p][s].made = Len(spreadsheets) + 1]
    /\ UNCHANGED <<store, workflow, attempts, setup, source, teardown,
                   endpoints, schemas, trouble, used>>

\* the tabs, or the schema and its tables
DestPrepares(p, s) ==
    /\ dest[p][s].at = "prepare"
    /\ dest' = [dest EXCEPT ![p][s].at = "end"]
    /\ IF Sheets(p)
       THEN /\ ~spreadsheets[dest[p][s].made].gone
            /\ spreadsheets' = [spreadsheets EXCEPT ![dest[p][s].made].ready = TRUE]
            /\ UNCHANGED schemas
       ELSE schemas' = schemas \cup {p} /\ UNCHANGED spreadsheets
    /\ UNCHANGED <<store, workflow, attempts, setup, source, teardown, endpoints, trouble, used>>

Ended(h) == h.at \in {"off", "end"}

\* a late hook has ended or thrown: nobody hears of it
LateEnds(p) ==
    /\ \/ /\ source[p]["late"].at # "off" /\ UNCHANGED dest
          /\ source' = [source EXCEPT ![p]["late"] = NoHook]
       \/ /\ dest[p]["late"].at # "off" /\ UNCHANGED source
          /\ dest' = [dest EXCEPT ![p]["late"] = NoHook]
    /\ UNCHANGED <<store, workflow, attempts, setup, teardown, outside, trouble, used>>

\* nobody listens to the awaited hook any more (bound: one late hook each)
Abandoned(hooks) ==
    [hooks EXCEPT !["late"] = IF Ended(hooks["awaited"]) THEN @ ELSE hooks["awaited"],
                  !["awaited"] = NoHook]
CanAbandon(hooks) == Ended(hooks["awaited"]) \/ Ended(hooks["late"])

\* withSetupTimeout: the hook counts as ended without a message
SetupTimeout(p) ==
    /\ setup[p].kept
    /\ \/ /\ ~Ended(source[p]["awaited"]) /\ CanAbandon(source[p])
          /\ source' = [source EXCEPT ![p] = Abandoned(@)] /\ UNCHANGED dest
       \/ /\ ~Ended(dest[p]["awaited"]) /\ CanAbandon(dest[p])
          /\ dest' = [dest EXCEPT ![p] = Abandoned(@)] /\ UNCHANGED source
    /\ Trouble(p, "timeout")
    /\ UNCHANGED <<store, workflow, attempts, setup, teardown, outside, used>>

\* out of attempts the activity fails, and with it the workflow
Failed(p) ==
    /\ attempts' = [attempts EXCEPT ![p] = @ + 1]
    /\ workflow' = [workflow EXCEPT ![p] = IF attempts[p] + 1 = MaxAttempts THEN "failed" ELSE @]

\* a hook throws: merge closes the other without waiting, the attempt fails.
\* Nobody counts the attempts of an activity whose workflow was cancelled.
SetupFails(p) ==
    /\ setup[p].kept
    /\ CanAbandon(source[p]) /\ CanAbandon(dest[p])
    /\ \/ /\ ~Ended(source[p]["awaited"])
          /\ source' = [source EXCEPT ![p]["awaited"] = NoHook]
          /\ dest' = [dest EXCEPT ![p] = Abandoned(@)]
       \/ /\ ~Ended(dest[p]["awaited"])
          /\ dest' = [dest EXCEPT ![p]["awaited"] = NoHook]
          /\ source' = [source EXCEPT ![p] = Abandoned(@)]
    /\ setup' = [setup EXCEPT ![p] = NoRecord]
    /\ IF workflow[p] = "setup" THEN Failed(p) ELSE UNCHANGED <<attempts, workflow>>
    /\ Trouble(p, "failed")
    /\ UNCHANGED <<store, teardown, outside, used>>

\* What the hooks that ended in time reported replaces the source's and the
\* destination's config.  The source reports when it has something to add: the
\* account, if it was not known, or the secret of an endpoint it created, if
\* the config had none.
WithControls(record, p, account) ==
    LET made   == source[p]["awaited"].made
        secret == IF setup[p].secret = None THEN made ELSE setup[p].secret
        reports == source[p]["awaited"].at = "end" /\ (account \/ secret # setup[p].secret)
        created == dest[p]["awaited"].at = "end" /\ setup[p].sheet = None
    IN  [record EXCEPT
            !.url    = IF reports THEN setup[p].url ELSE @,
            !.secret = IF reports THEN secret ELSE @,
            !.sheet  = IF created THEN dest[p]["awaited"].made ELSE @]

FirstHooksEnded(p) == Ended(source[p]["awaited"]) \/ Ended(dest[p]["awaited"])
HooksEnded(p) == Ended(source[p]["awaited"]) /\ Ended(dest[p]["awaited"])

EndSetup(p) ==
    /\ setup[p].kept /\ HooksEnded(p)
    /\ \E account \in BOOLEAN :
          store' = [store EXCEPT ![p] = IF Exists(p) THEN WithControls(@, p, account) ELSE @]
    /\ setup' = [setup EXCEPT ![p] = NoRecord]
    /\ source' = [source EXCEPT ![p]["awaited"] = NoHook]
    /\ dest' = [dest EXCEPT ![p]["awaited"] = NoHook]
    /\ workflow' = [workflow EXCEPT ![p] = IF @ = "setup" THEN "running" ELSE @]
    /\ attempts' = [attempts EXCEPT ![p] = IF workflow[p] = "setup" THEN 0 ELSE @]
    /\ UNCHANGED <<teardown, outside, used, trouble>>

-----------------------------------------------------------------------------
(* The teardown activity.                                                  *)

BeginTeardown(p) ==
    /\ workflow[p] = "teardown" /\ Exists(p) /\ ~teardown[p].config.kept
    /\ teardown' = [teardown EXCEPT ![p] =
           [config |-> store[p], source |-> store[p].url = None, dest |-> FALSE]]
    /\ UNCHANGED <<store, workflow, attempts, setup, source, dest, outside, trouble, used>>

\* the managed endpoint with this pipeline's URL, if there is one
TeardownSource(p) ==
    LET target == ManagedFor(teardown[p].config.url)
    IN  /\ teardown[p].config.kept /\ ~teardown[p].source
        /\ endpoints' = IF target = None THEN endpoints
                        ELSE [endpoints EXCEPT ![target].status = "deleted"]
        /\ teardown' = [teardown EXCEPT ![p].source = TRUE]
        /\ UNCHANGED <<store, workflow, attempts, setup, source, dest,
                       spreadsheets, schemas, trouble, used>>

\* the spreadsheet the record names, or the schema with all its tables
TeardownDest(p) ==
    LET sheet == teardown[p].config.sheet
    IN  /\ teardown[p].config.kept /\ ~teardown[p].dest
        /\ IF Sheets(p)
           THEN /\ sheet # None /\ ~spreadsheets[sheet].gone
                /\ spreadsheets' = [spreadsheets EXCEPT ![sheet].gone = TRUE]
                /\ UNCHANGED schemas
           ELSE schemas' = schemas \ {p} /\ UNCHANGED spreadsheets
        /\ teardown' = [teardown EXCEPT ![p].dest = TRUE]
        /\ UNCHANGED <<store, workflow, attempts, setup, source, dest, endpoints, trouble, used>>

\* a spreadsheet the record does not name, or that an earlier attempt deleted
NothingToDelete(p) ==
    LET sheet == teardown[p].config.sheet
    IN  Sheets(p) /\ (IF sheet = None THEN TRUE ELSE spreadsheets[sheet].gone)

OneTornDown(p) == teardown[p].source \/ teardown[p].dest
TornDown(p) == teardown[p].source /\ teardown[p].dest

TeardownFails(p) ==
    /\ teardown[p].config.kept /\ ~TornDown(p)
    /\ teardown' = [teardown EXCEPT ![p] = NoCall]
    /\ Failed(p)
    /\ IF ~teardown[p].dest /\ NothingToDelete(p) THEN UNCHANGED trouble ELSE Trouble(p, "failed")
    /\ UNCHANGED <<store, setup, source, dest, outside, used>>

\* the record goes last
EndTeardown(p) ==
    /\ TornDown(p)
    /\ teardown' = [teardown EXCEPT ![p] = NoCall]
    /\ store' = [store EXCEPT ![p] = NoRecord]
    /\ workflow' = [workflow EXCEPT ![p] = "done"]
    /\ UNCHANGED <<attempts, setup, source, dest, outside, trouble, used>>

ResourcesNext ==
    \/ \E e \in DOMAIN endpoints : Disable(e)
    \/ \E p \in Pipeline :
          \/ \E url \in Url \cup {None} : CreatePipeline(p, url) \/ UpdatePipeline(p, url)
          \/ DeletePipeline(p) \/ DeleteStray(p)
          \/ BeginSetup(p) \/ SetupTimeout(p) \/ SetupFails(p) \/ EndSetup(p) \/ LateEnds(p)
          \/ \E s \in Slot : \/ SourceLists(p, s) \/ SourceCreates(p, s)
                             \/ SheetsCreates(p, s) \/ DestPrepares(p, s)
          \/ BeginTeardown(p) \/ TeardownSource(p) \/ TeardownDest(p)
          \/ TeardownFails(p) \/ EndTeardown(p)

ResourcesSpec == ResourcesInit /\ [][ResourcesNext]_resources

-----------------------------------------------------------------------------
(* Correctness.                                                            *)

Record == [url : Url \cup {None}, secret : 0 .. MaxCreated + 1, sheet : 0 .. MaxCreated,
           kept : BOOLEAN]
Hook == [at : {"off", "list", "create", "prepare", "end"}, url : Url \cup {None},
         made : 0 .. MaxCreated + 1]

\* The state is well typed: a secret is that of an endpoint, a spreadsheet id
\* that of a spreadsheet, and no activity is attempted more than MaxAttempts times.
ResourcesTyped ==
    /\ store \in [Pipeline -> Record]
    /\ workflow \in [Pipeline -> {"none", "setup", "running", "teardown", "done", "failed"}]
    /\ attempts \in [Pipeline -> 0 .. MaxAttempts]
    /\ setup \in [Pipeline -> Record]
    /\ source \in [Pipeline -> [Slot -> Hook]] /\ dest \in [Pipeline -> [Slot -> Hook]]
    /\ teardown \in [Pipeline -> [config : Record, source : BOOLEAN, dest : BOOLEAN]]
    /\ \A e \in DOMAIN endpoints :
          endpoints[e] \in [url : Url, owner : Pipeline \cup {"user"},
                           status : {"enabled", "disabled", "deleted"}]
    /\ \A i \in DOMAIN spreadsheets :
          spreadsheets[i] \in [owner : Pipeline, ready : BOOLEAN, gone : BOOLEAN]
    /\ \A p \in Pipeline :
          /\ store[p].secret \in DOMAIN endpoints \cup {None}
          /\ store[p].sheet \in DOMAIN spreadsheets \cup {None}
    /\ schemas \subseteq Pipeline
    /\ used \in [Pipeline -> SUBSET Url]
    /\ trouble \subseteq Pipeline \X Faults

Unspoilt(p, faults) == trouble \cap ({p} \X faults) = {}
Alone(p) == \A q \in Pipeline \ {p} : used[p] \cap used[q] = {}

\* A workflow past its setup writes to a destination that is set up: the record
\* names a spreadsheet that has its tabs, or the schema has its tables.  Failed
\* attempts, their late hooks and concurrent updates do not matter; a hook that
\* exceeded the engine's time limit does, since it counts as ended.
SetupIsReady ==
    \A p \in Pipeline :
        workflow[p] = "running" /\ Unspoilt(p, {"timeout"}) =>
            IF Sheets(p)
            THEN /\ store[p].sheet # None
                 /\ spreadsheets[store[p].sheet].ready /\ ~spreadsheets[store[p].sheet].gone
            ELSE p \in schemas

\* Past its setup, a pipeline whose endpoint Stripe delivers to holds the secret
\* of that endpoint, whichever way the setups of pipelines with the same URL
\* interleave.  It needs every hook to have ended in time and at the first
\* attempt: the secret of an endpoint is told once, to the attempt that created it.
SecretMatches ==
    \A p \in Pipeline :
        workflow[p] = "running" /\ Unspoilt(p, {"timeout", "failed", "patched"}) =>
            \A e \in DOMAIN endpoints :
                endpoints[e].owner = p /\ Enabled(e) => store[p].secret = e

LeftOver(p) ==
    \/ \E e \in DOMAIN endpoints : endpoints[e].owner = p /\ Enabled(e)
    \/ \E i \in DOMAIN spreadsheets : spreadsheets[i].owner = p /\ ~spreadsheets[i].gone
    \/ p \in schemas

\* A deletion that was not disturbed leaves nothing: when the record is gone the
\* endpoint, the spreadsheet or schema of the pipeline are gone too.
NothingLeft ==
    \A p \in Pipeline :
        workflow[p] = "done" /\ Unspoilt(p, Faults) /\ Alone(p) => ~LeftOver(p)

\* "Teardown always cleans up all managed resources": not when an attempt of
\* the setup failed, timed out or was cut off by the deletion itself.
TeardownCleansUp == \A p \in Pipeline : workflow[p] = "done" => ~LeftOver(p)

\* A teardown takes only what is the pipeline's: an endpoint it deletes was
\* created by this software for the pipeline's own URL, a spreadsheet it deletes
\* or a schema it drops is the pipeline's, whatever failed before.
TeardownTouchesOwn ==
    [][\A p \in Pipeline :
        /\ \A e \in DOMAIN endpoints :
              endpoints'[e].status = "deleted" /\ endpoints[e].status # "deleted" =>
                  /\ endpoints[e].owner # "user"
                  /\ \E q \in Pipeline : workflow[q] = "teardown" /\ endpoints[e].url \in used[q]
        /\ \A i \in DOMAIN spreadsheets :
              spreadsheets'[i].gone /\ ~spreadsheets[i].gone =>
                  workflow[spreadsheets[i].owner] = "teardown"
        /\ p \in schemas \ schemas' => workflow[p] = "teardown"]_resources

\* A pipeline that runs can do its work: its destination is there and it can
\* verify what its endpoint sends.
RunningIsReady == ResourcesTyped /\ SetupIsReady /\ SecretMatches
=============================================================================
