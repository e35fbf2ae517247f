------------------------------ MODULE Supabase ------------------------------
(***************************************************************************)
(* Stripe sync inside a Supabase project.  A client on the user's machine  *)
(* installs and uninstalls it through the Management API; the setup edge   *)
(* function migrates the schema and manages the webhook endpoint; pg_cron  *)
(* invokes the worker function, which reads a few pages, keeps a           *)
(* checkpoint per stream in _sync_state and returns.                       *)
(*                                                                         *)
(* Nothing serialises them.  A function outlives the client that has lost  *)
(* its answer, two workers may run at once, and a worker may still be at   *)
(* work when the schema is dropped under it and created again.             *)
(***************************************************************************)
EXTENDS Integers, FiniteSets, SequencesExt

CONSTANTS
    Worker,         \* invocations of the worker function that may overlap
    Instance,       \* invocations of the setup function that may overlap
    Migrations,     \* how many; the last one creates _sync_state
    Given,          \* the sets of optional secrets that installs come with
    MaxObjects,     \* bound: objects ever created at Stripe
    MaxVersion,     \* bound: versions of an object
    MaxCalls,       \* bound: installs and uninstalls the user starts
    MaxHooks,       \* bound: webhook endpoints ever created
    MaxFaults       \* bound: failing steps, lost answers and killed functions

\* optional secrets: those that an uninstall deletes, and those it does not
Purged == {"MANAGEMENT_API_URL"}
Spared == {"RATE_LIMIT", "SYNC_INTERVAL"}

ASSUME SupabaseAssumption ==
    /\ {Migrations, MaxObjects, MaxVersion, MaxCalls, MaxHooks} \subseteq Nat \ {0}
    /\ MaxFaults \in Nat
    /\ Worker # {} /\ Instance # {} /\ 0 \notin Instance
    /\ Given \subseteq SUBSET (Purged \cup Spared)

VARIABLES
    version,        \* Stripe: the version of each object, 0 before its creation
    events,         \* Stripe: objects whose last event is not delivered yet
    hooks,          \* Stripe: the managed webhook endpoints, oldest first
    db,             \* the schema and all it holds
    project,        \* the project: edge functions, secrets, vault, cron job, queue
    client,         \* the call of the user's client in progress, or the last one
    fn,             \* the instances of the setup function
    worker,         \* the invocations of the worker function
    faults          \* disturbances so far

vars == <<version, events, hooks, db, project, client, fn, worker, faults>>
stripe == <<version, events>>

Object    == 1 .. MaxObjects
Functions == {"stripe-setup", "stripe-webhook", "stripe-worker"}
Created   == Cardinality({o \in Object : version[o] > 0})

\* a checkpoint: the stream is accounted for up to an object, except for those left
NoState == [upto |-> 0, left |-> {}]

NoSchema == [there |-> FALSE, comment |-> "none", table |-> FALSE, applied |-> {},
             tables |-> FALSE, rows |-> [o \in Object |-> 0], state |-> NoState,
             generation |-> 0, foreign |-> FALSE]

NoProject  == [functions |-> {}, key |-> FALSE, options |-> {}, secret |-> 0,
               vault |-> 0, cron |-> FALSE, queue |-> FALSE]
NoInstance == [op |-> "none", at |-> "off", empty |-> FALSE, pending |-> {}, hook |-> 0]
NoWorker   == [at |-> "off", upto |-> 0, left |-> {}, generation |-> 0]

\* a schema created anew holds nothing, not even its comment
Fresh   == [NoSchema EXCEPT !.there = TRUE, !.generation = db.generation + 1]
Dropped == [NoSchema EXCEPT !.generation = db.generation]
Ensured == IF db.there THEN db ELSE Fresh
Commented(d, text) == IF d.there THEN [d EXCEPT !.comment = text] ELSE d

HasStateTable == Migrations \in db.applied

\* some call of the client is disturbed, or nobody's
Fault ==
    /\ faults < MaxFaults /\ faults' = faults + 1

Init ==
    /\ version = [o \in Object |-> 0]
    /\ events = {} /\ hooks = <<>>
    /\ db = NoSchema /\ project = NoProject
    /\ client = [op |-> "none", at |-> "idle", calls |-> 0, instance |-> 0,
                 result |-> "none", faulted |-> FALSE, quiet |-> TRUE]
    /\ fn = [i \in Instance |-> NoInstance]
    /\ worker = [w \in Worker |-> NoWorker]
    /\ faults = 0

-----------------------------------------------------------------------------
(* external: Stripe.                                                       *)

Change(o) ==
    /\ version[o] < MaxVersion
    /\ \A earlier \in 1 .. o - 1 : version[earlier] > 0
    /\ version' = [version EXCEPT ![o] = @ + 1]
    /\ events' = IF \E h \in DOMAIN hooks : hooks[h] = "enabled" THEN events \cup {o} ELSE events
    /\ UNCHANGED <<hooks, db, project, client, fn, worker, faults>>

\* Stripe disables an endpoint whose deliveries keep failing
Disable(h) ==
    /\ hooks[h] = "enabled"
    /\ hooks' = [hooks EXCEPT ![h] = "disabled"]
    /\ Fault
    /\ UNCHANGED <<stripe, db, project, client, fn, worker>>

\* The webhook function hands the source {body, signature}, the source reads
\* headers['stripe-signature']: every delivery and every retry ends in a 400.
RejectEvent(o) ==
    /\ o \in events /\ "stripe-webhook" \in project.functions
    /\ events' = events \ {o}
    /\ UNCHANGED <<version, hooks, db, project, client, fn, worker, faults>>

-----------------------------------------------------------------------------
(* The client: install.                                                    *)

Idle == client.at = "idle"
Quiet == \A i \in Instance : fn[i].op = "none"

Called(op, at) == [client EXCEPT !.op = op, !.at = at, !.calls = @ + 1, !.instance = 0,
                                 !.result = "none", !.faulted = FALSE, !.quiet = Quiet]
Ended(result) == [client EXCEPT !.at = "idle", !.instance = 0, !.result = result]
Disturbed(c)  == [c EXCEPT !.faulted = TRUE]

InstallBegins ==
    /\ Idle /\ client.calls < MaxCalls
    /\ client' = Called("install", "deploy")
    /\ db' = Commented(Ensured, "installing")
    /\ UNCHANGED <<stripe, hooks, project, fn, worker, faults>>

\* the API key, and the options that the user gives; others stay as they were
SecretsSet(given, functions) ==
    [project EXCEPT !.key = TRUE, !.options = @ \cup given, !.functions = functions]

\* secrets first, then the functions one by one: a failure leaves some of them
InstallDeploys ==
    /\ client.op = "install" /\ client.at = "deploy"
    /\ \E given \in Given : project' = SecretsSet(given, Functions)
    /\ client' = [client EXCEPT !.at = "invoke"]
    /\ UNCHANGED <<stripe, hooks, db, fn, worker, faults>>

Invoke(i, op, at) == fn' = [fn EXCEPT ![i] = [NoInstance EXCEPT !.op = op, !.at = at]]

InstallInvokes ==
    /\ client.op = "install" /\ client.at = "invoke"
    /\ "stripe-setup" \in project.functions
    /\ \E i \in Instance :
        /\ fn[i].op = "none" /\ Invoke(i, "post", "look")
        /\ client' = [client EXCEPT !.at = "wait", !.instance = i]
    /\ UNCHANGED <<stripe, hooks, db, project, worker, faults>>

\* setupPgCronJob: one script, one transaction, with this client's own secret; it
\* creates the queue stripe_sync_work too, which nothing uses or drops
InstallSchedules ==
    /\ client.op = "install" /\ client.at = "schedule"
    /\ project' = [project EXCEPT !.cron = TRUE, !.vault = client.calls, !.queue = TRUE]
    /\ client' = [client EXCEPT !.at = "mark"]
    /\ UNCHANGED <<stripe, hooks, db, fn, worker, faults>>

\* the first invocation of the worker, right after, is one pg_cron makes too
InstallMarks ==
    /\ client.op = "install" /\ client.at = "mark" /\ db.there
    /\ db' = Commented(db, "installed")
    /\ client' = Ended("installed")
    /\ UNCHANGED <<stripe, hooks, project, fn, worker, faults>>

CannotGoOn == \/ client.at = "invoke" /\ "stripe-setup" \notin project.functions
              \/ client.at = "mark" /\ ~db.there

InstallFails ==
    /\ client.op = "install" /\ client.at \in {"deploy", "invoke", "schedule", "mark"}
    /\ \/ CannotGoOn /\ client' = Ended("failed") /\ UNCHANGED <<project, faults>>
       \/ /\ Fault /\ client' = Disturbed(Ended("failed"))
          /\ \/ UNCHANGED project
             \/ /\ client.at = "deploy"
                /\ \E given \in Given :
                     project' = SecretsSet(given, project.functions \cup {"stripe-setup"})
    /\ db' = Commented(db, "install-error")
    /\ UNCHANGED <<stripe, hooks, fn, worker>>

-----------------------------------------------------------------------------
(* The client: uninstall, and the answers of the setup function.           *)

\* without the function the call is a 404, and that is a failure as any other
UninstallBegins ==
    /\ Idle /\ client.calls < MaxCalls
    /\ IF "stripe-setup" \in project.functions
       THEN \E i \in Instance :
              /\ fn[i].op = "none" /\ Invoke(i, "delete", "unhook")
              /\ client' = [Called("uninstall", "wait") EXCEPT !.instance = i]
              /\ db' = Commented(db, "uninstalling")
       ELSE /\ client' = [Called("uninstall", "idle") EXCEPT !.result = "failed"]
            /\ db' = Commented(db, "uninstall-error")
            /\ UNCHANGED fn
    /\ UNCHANGED <<stripe, hooks, project, worker, faults>>

Errored == IF client.op = "install" THEN "install-error" ELSE "uninstall-error"
AnsweredOK == IF client.op = "install" THEN [client EXCEPT !.at = "schedule", !.instance = 0]
                                       ELSE Ended("uninstalled")

Awaited(i) == client.at = "wait" /\ client.instance = i

\* the last step of an instance, and what its client makes of the answer
Answer(i, ok) ==
    /\ fn' = [fn EXCEPT ![i] = NoInstance]
    /\ IF Awaited(i)
       THEN IF ok THEN client' = AnsweredOK /\ UNCHANGED db
                  ELSE client' = Ended("failed") /\ db' = Commented(db, Errored)
       ELSE UNCHANGED <<client, db>>

\* fetch rejects; the instance goes on
LoseAnswer ==
    /\ client.at = "wait" /\ Fault
    /\ client' = Disturbed(Ended("failed"))
    /\ db' = Commented(db, Errored)
    /\ UNCHANGED <<stripe, hooks, project, fn, worker>>

\* a statement fails or the platform stops the instance
InstanceFails(i) ==
    /\ fn[i].op # "none" /\ Fault
    /\ fn' = [fn EXCEPT ![i] = NoInstance]
    /\ IF Awaited(i) THEN /\ client' = Disturbed(Ended("failed"))
                          /\ db' = Commented(db, Errored)
                     ELSE /\ client' = Disturbed(client) /\ UNCHANGED db
    /\ UNCHANGED <<stripe, hooks, project, worker>>

-----------------------------------------------------------------------------
(* POST /setup: migrations.                                                *)

At(i, op, at) == fn[i].op = op /\ fn[i].at = at
Step(i, at)   == fn' = [fn EXCEPT ![i].at = at]

\* an empty _migrations table is taken for the rest of a failed attempt
SetupLooks(i) ==
    /\ At(i, "post", "look")
    /\ db' = Ensured
    /\ LET empty == db.table /\ db.applied = {}
       IN  fn' = [fn EXCEPT ![i].empty = empty, ![i].at = IF empty THEN "reset" ELSE "table"]
    /\ UNCHANGED <<stripe, hooks, project, client, worker, faults>>

SetupResets(i) ==
    /\ At(i, "post", "reset")
    /\ db' = Fresh
    /\ Step(i, "table")
    /\ UNCHANGED <<stripe, hooks, project, client, worker, faults>>

\* Mutant: a schema with some migrations counts as migrated.
PendingUnlessSome(applied)  == IF applied = {} THEN 1 .. Migrations ELSE {}
Pending(applied)            == (1 .. Migrations) \ applied

SetupReadsApplied(i) ==
    /\ At(i, "post", "table")
    /\ IF db.there
       THEN /\ db' = [db EXCEPT !.table = TRUE]
            /\ fn' = [fn EXCEPT ![i].pending = Pending(db.applied), ![i].at = "migrate"]
            /\ UNCHANGED client
       ELSE Answer(i, FALSE)
    /\ UNCHANGED <<stripe, hooks, project, worker, faults>>

\* one transaction each; a migration somebody else has recorded violates its key
SetupMigrates(i) ==
    /\ At(i, "post", "migrate") /\ fn[i].pending # {}
    /\ LET m == Min(fn[i].pending)
       IN  IF db.table /\ m \notin db.applied
           THEN /\ db' = [db EXCEPT !.applied = @ \cup {m}]
                /\ fn' = [fn EXCEPT ![i].pending = @ \ {m}]
                /\ UNCHANGED client
           ELSE Answer(i, FALSE)
    /\ UNCHANGED <<stripe, hooks, project, worker, faults>>

\* "Clear stale sync state so the new install starts fresh"
SetupClears(i) ==
    /\ At(i, "post", "migrate") /\ fn[i].pending = {}
    /\ db' = [db EXCEPT !.state = NoState]
    /\ Step(i, "list")
    /\ UNCHANGED <<stripe, hooks, project, client, worker, faults>>

-----------------------------------------------------------------------------
(* POST /setup: the webhook endpoint and its secret.                       *)

Live == {h \in DOMAIN hooks : hooks[h] # "deleted"}

SetupLists(i) ==
    /\ At(i, "post", "list")
    /\ IF Live # {} /\ hooks[Max(Live)] = "enabled"
       THEN fn' = [fn EXCEPT ![i].at = "store"]
       ELSE fn' = [fn EXCEPT ![i].at = "hook", ![i].hook = IF Live = {} THEN 0 ELSE Max(Live)]
    /\ UNCHANGED <<stripe, hooks, db, project, client, worker, faults>>

\* the endpoint it has seen is replaced; its secret is told only now
SetupMakesHook(i) ==
    /\ At(i, "post", "hook") /\ Len(hooks) < MaxHooks
    /\ LET old == fn[i].hook
       IN  IF old # 0 /\ hooks[old] = "deleted"
           THEN Answer(i, FALSE) /\ UNCHANGED hooks
           ELSE /\ hooks' = Append(IF old = 0 THEN hooks
                                   ELSE [hooks EXCEPT ![old] = "deleted"], "enabled")
                /\ fn' = [fn EXCEPT ![i].hook = Len(hooks) + 1, ![i].at = "store"]
                /\ UNCHANGED <<client, db>>
    /\ UNCHANGED <<stripe, project, worker, faults>>

SetupStoresSecret(i) ==
    /\ At(i, "post", "store")
    /\ project' = [project EXCEPT !.secret = IF fn[i].hook = 0 THEN @ ELSE fn[i].hook]
    /\ Answer(i, TRUE)
    /\ UNCHANGED <<stripe, hooks, worker, faults>>

-----------------------------------------------------------------------------
(* DELETE /setup.                                                          *)

\* what fails here is only logged: some of it is left behind
Leaves(some) == IF some THEN Fault /\ client' = Disturbed(client)
                        ELSE UNCHANGED <<faults, client>>

\* without the API key the function cannot reach Stripe and refuses
SetupUnhooks(i) ==
    /\ At(i, "delete", "unhook")
    /\ IF project.key
       THEN /\ \E left \in SUBSET Live :
                /\ Leaves(left # {})
                /\ hooks' = [h \in DOMAIN hooks |-> IF h \in Live \ left THEN "deleted" ELSE hooks[h]]
            /\ Step(i, "unschedule") /\ UNCHANGED db
       ELSE Answer(i, FALSE) /\ UNCHANGED <<hooks, faults>>
    /\ UNCHANGED <<stripe, project, worker>>

SetupUnschedules(i) ==
    /\ At(i, "delete", "unschedule")
    /\ \E left \in {FALSE, project.cron} :
        Leaves(left) /\ project' = [project EXCEPT !.cron = left]
    /\ Step(i, "vault")
    /\ UNCHANGED <<stripe, hooks, db, worker>>

SetupForgetsSecret(i) ==
    /\ At(i, "delete", "vault")
    /\ \E left \in {0, project.vault} :
        Leaves(left # 0) /\ project' = [project EXCEPT !.vault = left]
    /\ Step(i, "drop")
    /\ UNCHANGED <<stripe, hooks, db, worker>>

\* three attempts; all of them failing is InstanceFails
SetupDrops(i) ==
    /\ At(i, "delete", "drop")
    /\ db' = Dropped
    /\ Step(i, "secrets")
    /\ UNCHANGED <<stripe, hooks, project, client, worker, faults>>

SetupPurgesSecrets(i) ==
    /\ At(i, "delete", "secrets")
    /\ \E key \in {FALSE, project.key}, secret \in {0, project.secret},
          url \in SUBSET (project.options \cap Purged) :
        /\ Leaves(key \/ secret # 0 \/ url # {})
        /\ project' = [project EXCEPT !.key = key, !.secret = secret,
                                      !.options = (@ \ Purged) \cup url]
    /\ Step(i, "functions")
    /\ UNCHANGED <<stripe, hooks, db, worker>>

\* the function that is running is among them
SetupPurgesFunctions(i) ==
    /\ At(i, "delete", "functions")
    /\ \E left \in SUBSET project.functions :
        /\ project' = [project EXCEPT !.functions = left]
        /\ IF left = {}
           THEN Answer(i, TRUE) /\ UNCHANGED faults
           ELSE /\ Fault /\ fn' = [fn EXCEPT ![i] = NoInstance]
                /\ client' = Disturbed(IF Awaited(i) THEN AnsweredOK ELSE client)
                /\ UNCHANGED db
    /\ UNCHANGED <<stripe, hooks, worker>>

-----------------------------------------------------------------------------
(* The worker function.                                                    *)

\* what a run has to list: the ranges still open and what is new since
OwedNew == (db.state.upto + 1) .. Created
Owed    == db.state.left \cup OwedNew

\* Authorised by the vault's secret.  The streams' states carry no status, so
\* the debounce never applies and skip_until is never written.
WorkerStarts(w) ==
    /\ worker[w].at = "off"
    /\ project.cron /\ project.vault # 0 /\ project.key
    /\ "stripe-worker" \in project.functions
    /\ HasStateTable
    /\ worker' = [worker EXCEPT ![w] =
                    [at |-> "setup", upto |-> Created, generation |-> db.generation,
                     left |-> Owed]]
    /\ UNCHANGED <<stripe, hooks, db, project, client, fn, faults>>

\* the destination's setup: CREATE SCHEMA IF NOT EXISTS and one table per stream
WorkerPrepares(w) ==
    /\ worker[w].at = "setup"
    /\ db' = [Ensured EXCEPT !.tables = TRUE]
    /\ worker' = [worker EXCEPT ![w].at = "read"]
    /\ UNCHANGED <<stripe, hooks, project, client, fn, faults>>

\* a page is listed and flushed; a flush that fails ends the stream
WorkerWrites(w, o) ==
    /\ worker[w].at = "read" /\ o \in worker[w].left
    /\ IF db.tables
       THEN /\ db' = [db EXCEPT !.rows[o] = version[o]]
            /\ worker' = [worker EXCEPT ![w].left = @ \ {o}, ![w].at = "save"]
       ELSE /\ worker' = [worker EXCEPT ![w] = NoWorker] /\ UNCHANGED db
    /\ UNCHANGED <<stripe, hooks, project, client, fn, faults>>

Saved(w) == [db EXCEPT !.state = [upto |-> worker[w].upto, left |-> worker[w].left],
                       !.foreign = @ \/ worker[w].generation # db.generation]

\* stateStore.set, then the limit of thirty seconds; without the table it throws
WorkerSaves(w) ==
    /\ \/ worker[w].at = "save"
       \/ worker[w].at = "read" /\ worker[w].left = {}
    /\ IF HasStateTable
       THEN /\ db' = Saved(w)
            /\ \/ /\ worker[w].at = "save"
                  /\ worker' = [worker EXCEPT ![w].at = "read"]
               \/ worker' = [worker EXCEPT ![w] = NoWorker]
       ELSE worker' = [worker EXCEPT ![w] = NoWorker] /\ UNCHANGED db
    /\ UNCHANGED <<stripe, hooks, project, client, fn, faults>>

\* killed by the platform, or its connection terminated by an uninstall
WorkerDies(w) ==
    /\ worker[w].at # "off" /\ Fault
    /\ worker' = [worker EXCEPT ![w] = NoWorker]
    /\ UNCHANGED <<stripe, hooks, db, project, client, fn>>

WorkerNext(w) == \/ WorkerPrepares(w) \/ WorkerSaves(w)
                 \/ \E o \in Object : WorkerWrites(w, o)

ClientNext == \/ InstallDeploys \/ InstallInvokes \/ InstallSchedules \/ InstallMarks

InstanceNext(i) ==
    \/ SetupLooks(i) \/ SetupResets(i) \/ SetupReadsApplied(i) \/ SetupMigrates(i)
    \/ SetupClears(i) \/ SetupLists(i) \/ SetupMakesHook(i) \/ SetupStoresSecret(i)
    \/ SetupUnhooks(i) \/ SetupUnschedules(i) \/ SetupForgetsSecret(i)
    \/ SetupDrops(i) \/ SetupPurgesSecrets(i) \/ SetupPurgesFunctions(i)

Next ==
    \/ \E o \in Object : Change(o) \/ RejectEvent(o)
    \/ \E h \in DOMAIN hooks : Disable(h)
    \/ InstallBegins \/ ClientNext \/ InstallFails \/ UninstallBegins \/ LoseAnswer
    \/ \E i \in Instance : InstanceNext(i) \/ InstanceFails(i)
    \/ \E w \in Worker : WorkerStarts(w) \/ WorkerNext(w) \/ WorkerDies(w)

Spec == Init /\ [][Next]_vars

\* pg_cron fires every interval, and what has been started runs on
Fairness ==
    /\ WF_vars(ClientNext) /\ WF_vars(\E o \in Object : RejectEvent(o))
    /\ \A i \in Instance : WF_vars(InstanceNext(i))
    /\ \A w \in Worker : WF_vars(WorkerStarts(w)) /\ WF_vars(WorkerNext(w))

FairSpec == Spec /\ Fairness

-----------------------------------------------------------------------------
(* Properties.                                                             *)

Checkpoint == [upto : 0 .. MaxObjects, left : SUBSET Object]

\* Every variable stays in its range, whatever overlaps with what.
TypeOK ==
    /\ version \in [Object -> 0 .. MaxVersion] /\ events \subseteq Object
    /\ Len(hooks) <= MaxHooks
    /\ \A h \in DOMAIN hooks : hooks[h] \in {"enabled", "disabled", "deleted"}
    /\ db.applied \subseteq 1 .. Migrations /\ db.state \in Checkpoint
    /\ db.rows \in [Object -> 0 .. MaxVersion]
    /\ db.comment \in {"none", "installing", "installed", "install-error",
                       "uninstalling", "uninstall-error"}
    /\ project.functions \subseteq Functions /\ project.vault \in 0 .. MaxCalls
    /\ project.options \subseteq Purged \cup Spared
    /\ client.calls \in 0 .. MaxCalls
    /\ client.at = "wait" <=> client.instance # 0
    /\ \A i \in Instance : fn[i].pending \subseteq 1 .. Migrations
    /\ \A w \in Worker : [upto |-> worker[w].upto, left |-> worker[w].left] \in Checkpoint

\* What a stored checkpoint accounts for is in the tables: two workers that
\* overwrite each other's checkpoints, a reinstall that clears them under a
\* running worker and a migration that resets the schema lose no object.  Only a
\* worker that has outlived the schema it began with can break this.
CheckpointHasRows ==
    db.foreign \/ \A o \in (1 .. db.state.upto) \ db.state.left : db.rows[o] > 0

IsInstalled == db.table /\ db.comment = "installed"

\* Where isInstalled() says yes, everything a sync needs is there: after any
\* history of failed and repeated calls, if no function of an earlier call was
\* still at work when the last one began.
InstalledIsComplete ==
    Idle /\ client.op = "install" /\ client.quiet /\ IsInstalled =>
        /\ db.applied = 1 .. Migrations
        /\ project.functions = Functions /\ project.key
        /\ project.cron /\ project.vault # 0 /\ Live # {}

\* An install that nothing disturbs goes through, whatever the failed calls
\* before it left behind. An uninstall fails only without what it needs, which no
\* install has put there or an earlier uninstall has deleted: the function it calls,
\* or the API key.
CallsGoThrough ==
    Idle /\ client.quiet /\ ~client.faulted /\ client.result = "failed" =>
        client.op = "uninstall" /\ (~project.key \/ "stripe-setup" \notin project.functions)

Uninstalled == Idle /\ client.result = "uninstalled" /\ client.quiet /\ ~client.faulted

\* An uninstall that nothing disturbs takes away the schema with its comment, the
\* functions, the cron job, its vault secret, the webhook endpoints and the secrets,
\* except for RATE_LIMIT and SYNC_INTERVAL; the queue stays too, and a running worker
\* may create an empty schema again.
UninstallCleans ==
    Uninstalled =>
        /\ project.functions = {} /\ ~project.cron /\ project.vault = 0
        /\ ~project.key /\ project.secret = 0 /\ project.options \subseteq Spared
        /\ \A h \in DOMAIN hooks : hooks[h] = "deleted"
        /\ ~db.table /\ db.comment = "none"

\* What the name of the end-to-end test "should uninstall cleanly" says: nothing that
\* an install has put into the project is left. (Refuted: two secrets and the queue.)
UninstallLeavesNothing == Uninstalled => project = NoProject

Settled == Idle /\ client.op = "install" /\ client.quiet /\ IsInstalled /\ ~db.foreign

\* What the end-to-end test "should receive customer.updated webhook" expects: an
\* update of a synced object reaches its row.
UpdatesArrive ==
    \A o \in Object : (Settled /\ db.rows[o] < version[o])
                        ~> (db.rows[o] = version[o] \/ ~Settled)

\* What the two commands promise where nothing disturbs them: an install goes
\* through and is complete, an uninstall goes through while it has what it needs and
\* leaves no more behind than two secrets and the queue.
CallsKeepPromises == TypeOK /\ InstalledIsComplete /\ CallsGoThrough /\ UninstallCleans
=============================================================================
