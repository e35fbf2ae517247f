---------------------------- MODULE SupabaseProofs ----------------------------
(***************************************************************************)
(* Proofs about Supabase, for every number of workers, instances,          *)
(* migrations and objects, and for whatever fails.                         *)
(***************************************************************************)
EXTENDS Supabase, FiniteSetTheorems, SequenceTheorems, WellFoundedInduction, TLAPS

FnAt     == {"off", "look", "reset", "table", "migrate", "list", "hook", "store", "unhook",
             "unschedule", "vault", "drop", "secrets", "functions"}
Comments == {"none", "installing", "installed", "install-error", "uninstalling",
             "uninstall-error"}

ClientRecord == [op : {"none", "install", "uninstall"},
                 at : {"idle", "deploy", "invoke", "wait", "schedule", "mark"},
                 calls : 0 .. MaxCalls, instance : Instance \cup {0},
                 result : {"none", "installed", "uninstalled", "failed"},
                 faulted : BOOLEAN, quiet : BOOLEAN]
Database     == [there : BOOLEAN, comment : Comments, table : BOOLEAN,
                 applied : SUBSET (1 .. Migrations), tables : BOOLEAN,
                 rows : [Object -> 0 .. MaxVersion], state : Checkpoint,
                 generation : Nat, foreign : BOOLEAN]
Options      == Purged \cup Spared
Deployment   == [functions : SUBSET Functions, key : BOOLEAN, options : SUBSET Options,
                 secret : Nat, vault : 0 .. MaxCalls, cron : BOOLEAN, queue : BOOLEAN]
SetupCall    == [op : {"none", "post", "delete"}, at : FnAt, empty : BOOLEAN,
                 pending : SUBSET (1 .. Migrations), hook : Nat]
WorkerCall   == [at : {"off", "setup", "read", "save"}, upto : 0 .. MaxObjects,
                 left : SUBSET Object, generation : Nat]

\* A client waits for an instance, or for none.
Sound(c) ==
    /\ c \in ClientRecord
    /\ c.at = "wait" <=> c.instance # 0
    /\ c.op = "none" <=> c.calls = 0
    /\ c.op = "none" => c.at = "idle" /\ c.result = "none"

WellTyped ==
    /\ version \in [Object -> 0 .. MaxVersion] /\ events \in SUBSET Object
    /\ hooks \in Seq({"enabled", "disabled", "deleted"}) /\ Len(hooks) <= MaxHooks
    /\ db \in Database
    /\ project \in Deployment
    /\ Sound(client)
    /\ fn \in [Instance -> SetupCall]
    /\ worker \in [Worker -> WorkerCall]
    /\ faults \in Nat

\* A schema that is not there holds nothing.
Hollow ==
    ~db.there => ~db.table /\ ~db.tables /\ db.applied = {} /\ db.comment = "none"

-----------------------------------------------------------------------------
\* What a checkpoint accounts for exists.
Known(c) == c.upto <= Created /\ c.left \subseteq 1 .. c.upto

\* What it accounts for is in the tables.
Covered(c) == \A o \in (1 .. c.upto) \ c.left : db.rows[o] > 0

Covers ==
    /\ {o \in Object : version[o] > 0} = 1 .. Created
    /\ Known(db.state)
    /\ ~db.foreign => Covered(db.state)
    /\ \A w \in Worker : worker[w].at # "off" =>
          /\ Known(worker[w]) /\ worker[w].generation <= db.generation
          /\ db.there /\ ~db.foreign /\ worker[w].generation = db.generation =>
                Covered(worker[w])

-----------------------------------------------------------------------------
Migrated == db.table /\ db.applied = 1 .. Migrations

\* Nothing runs but what the call waits for.
Alone == \A i \in Instance : fn[i].op # "none" => Awaited(i)

\* POST /setup of an install with nobody else at work.
Posted(f) ==
    /\ f.op = "post"
    /\ f.at = "migrate" => db.table /\ f.pending = (1 .. Migrations) \ db.applied
    /\ f.at \in {"list", "hook", "store"} => Migrated
    /\ f.at = "hook" => f.hook \in Live \cup {0}
    /\ f.at = "store" => Live # {}

\* An install has not been given up.
Under == client.at # "idle" \/ client.result = "installed"

InstallKept ==
    /\ client.result \in {"none", "installed", "failed"}
    /\ client.result = "failed" => client.faulted
    /\ client.result # "installed" => db.comment # "installed"
    /\ Under => db.there
    /\ Under /\ client.at # "deploy" => project.functions = Functions /\ project.key
    /\ client.at = "wait" => Posted(fn[client.instance])
    /\ client.at \in {"schedule", "mark"} \/ client.result = "installed" => Migrated /\ Live # {}
    /\ client.at = "mark" \/ client.result = "installed" => project.cron /\ project.vault # 0

\* What an uninstall leaves of a project: nothing but two secrets and the queue.
Bare(p) ==
    /\ p.functions = {} /\ ~p.cron /\ p.vault = 0
    /\ ~p.key /\ p.secret = 0 /\ p.options \subseteq Spared

\* DELETE /setup of an uninstall that nothing has disturbed, with nobody else at work.
Deleting(f) ==
    /\ f.at # "unhook" => Live = {}
    /\ f.at \in {"vault", "drop", "secrets", "functions"} => ~project.cron
    /\ f.at \in {"drop", "secrets", "functions"} => project.vault = 0
    /\ f.at \in {"secrets", "functions"} => ~db.table /\ db.comment = "none"
    /\ f.at = "functions" => ~project.key /\ project.secret = 0 /\ project.options \subseteq Spared

UninstallKept ==
    /\ client.at \in {"idle", "wait"} /\ client.result # "installed"
    /\ client.result = "failed" =>
          client.faulted \/ ~project.key \/ "stripe-setup" \notin project.functions
    /\ client.at = "wait" =>
          /\ fn[client.instance].op = "delete"
          /\ ~client.faulted => Deleting(fn[client.instance])
    /\ client.result = "uninstalled" /\ ~client.faulted =>
          Bare(project) /\ Live = {} /\ ~db.table /\ db.comment = "none"

\* A quiet call runs alone, except for an instance that outlives the call that
\* has been told it failed.
Promised ==
    /\ ~(client.faulted /\ client.result = "failed") => Alone
    /\ client.at # "idle" => client.result = "none"
    /\ client.op = "install" => InstallKept
    /\ client.op = "uninstall" => UninstallKept

Kept == client.quiet => Promised

Inv == WellTyped /\ Hollow /\ Covers /\ Kept

-----------------------------------------------------------------------------
(* Numbers, sets and records.                                              *)

\* The bounds are numbers, and no instance is called 0.
LEMMA Sizes ==
    /\ Migrations \in Nat \ {0} /\ MaxObjects \in Nat \ {0} /\ MaxVersion \in Nat \ {0}
    /\ MaxCalls \in Nat \ {0} /\ MaxHooks \in Nat \ {0} /\ MaxFaults \in Nat
    /\ 0 \notin Instance
BY SupabaseAssumption DEF SupabaseAssumption

\* A nonempty set of natural numbers has a least element.
LEMMA HasLeast ==
    ASSUME NEW T \in SUBSET Nat, T # {}
    PROVE  Min(T) \in T
<1>1. PICK t : t \in T
  OBVIOUS
<1>2. PICK d \in T : \A c \in T : <<c, d>> \notin OpToRel(<, Nat)
  BY <1>1, WFMin, NatLessThanWellFounded
<1>3. d \in Nat /\ \A c \in T : c \in Nat /\ ~(c < d)
  BY <1>2 DEF OpToRel
<1>4. \A c \in T : d =< c
  BY <1>3
<1> QED BY <1>4 DEF Min

\* A nonempty set of numbers up to n has a greatest one.
LEMMA HasGreatest ==
    ASSUME NEW n \in Nat, NEW T \in SUBSET (1 .. n), T # {}
    PROVE  Max(T) \in T
<1> DEFINE D == {x \in Nat : n - x \in T}
<1>1. PICK t \in T : t \in 1 .. n
  OBVIOUS
<1>2. n - t \in D
  BY <1>1
<1>3. PICK d \in D : \A c \in D : <<c, d>> \notin OpToRel(<, Nat)
  BY <1>2, WFMin, NatLessThanWellFounded
<1>4. d \in Nat /\ n - d \in T /\ \A c \in D : ~(c < d)
  BY <1>3 DEF OpToRel
<1>5. ASSUME NEW h \in T
      PROVE  n - d >= h
  <2>1. h \in 1 .. n /\ n - h \in Nat /\ n - (n - h) = h
    OBVIOUS
  <2>2. n - h \in D
    BY <2>1
  <2> QED BY <1>4, <2>1, <2>2
<1> QED BY <1>4, <1>5 DEF Max

\* What is given is an option, and a project has its types.
LEMMA GivenAre == \A given \in Given : given \in SUBSET Options
BY SupabaseAssumption DEF SupabaseAssumption, Options

LEMMA ProjectIs ==
    ASSUME NEW p \in Deployment
    PROVE  /\ p.functions \in SUBSET Functions /\ p.options \in SUBSET Options
           /\ p.key \in BOOLEAN /\ p.cron \in BOOLEAN /\ p.queue \in BOOLEAN
           /\ p.secret \in Nat /\ p.vault \in 0 .. MaxCalls
BY DEF Deployment

\* The steps that change more than one of its fields.
LEMMA ProjectMoves ==
    ASSUME NEW p \in Deployment, NEW functions \in SUBSET Functions,
           NEW options \in SUBSET Options, NEW key \in BOOLEAN, NEW secret \in Nat,
           NEW vault \in 0 .. MaxCalls
    PROVE  /\ [p EXCEPT !.key = key, !.options = options, !.functions = functions] \in Deployment
           /\ [p EXCEPT !.key = key, !.secret = secret, !.options = options] \in Deployment
           /\ [p EXCEPT !.cron = TRUE, !.vault = vault, !.queue = TRUE] \in Deployment
<1> DEFINE Sets == SUBSET Functions
           Opts == SUBSET Options
           Vaults == 0 .. MaxCalls
<1>1. Deployment = [functions : Sets, key : BOOLEAN, options : Opts, secret : Nat,
                    vault : Vaults, cron : BOOLEAN, queue : BOOLEAN]
  BY DEF Deployment
<1>2. functions \in Sets /\ options \in Opts /\ vault \in Vaults /\ TRUE \in BOOLEAN
  OBVIOUS
<1> HIDE DEF Sets, Opts, Vaults
<1> QED BY <1>1, <1>2

\* The schema that is not there.
LEMMA NoSchemaIs == NoSchema \in Database
<1> DEFINE none == [o \in Object |-> 0]
<1>1. none \in [Object -> 0 .. MaxVersion] /\ NoState \in Checkpoint
  BY Sizes DEF NoState, Checkpoint
<1> HIDE DEF none
<1>2. NoSchema = [there |-> FALSE, comment |-> "none", table |-> FALSE, applied |-> {},
                  tables |-> FALSE, rows |-> none, state |-> NoState,
                  generation |-> 0, foreign |-> FALSE]
  BY Zenon DEF NoSchema, none
<1>3. {} \in SUBSET (1 .. Migrations) /\ 0 \in Nat /\ "none" \in Comments
  BY DEF Comments
<1> QED BY <1>1, <1>2, <1>3 DEF Database

\* The empty schema and what becomes of the schema as a whole.
LEMMA SchemasAre ==
    ASSUME db \in Database
    PROVE  /\ Fresh \in Database /\ Dropped \in Database /\ Ensured \in Database
           /\ Fresh.there /\ Fresh.comment = "none" /\ ~Fresh.table /\ Fresh.applied = {}
           /\ Fresh.state = NoState /\ ~Fresh.foreign /\ Fresh.generation = db.generation + 1
           /\ ~Dropped.there /\ Dropped.comment = "none" /\ ~Dropped.table
           /\ Dropped.applied = {} /\ Dropped.state = NoState /\ ~Dropped.foreign
           /\ Dropped.generation = db.generation
           /\ Ensured.there
<1>1. NoSchema \in Database
  BY NoSchemaIs
<1>2. /\ Fresh = [NoSchema EXCEPT !.there = TRUE, !.generation = db.generation + 1]
      /\ Dropped = [NoSchema EXCEPT !.generation = db.generation]
      /\ db.generation \in Nat
  BY DEF Fresh, Dropped, Database
<1>3. Fresh \in Database /\ Dropped \in Database
  <2>1. db.generation + 1 \in Nat
    BY <1>2
  <2> QED BY <1>1, <1>2, <2>1 DEF Database
<1>4. /\ Fresh.there /\ Fresh.comment = "none" /\ ~Fresh.table /\ Fresh.applied = {}
      /\ Fresh.state = NoState /\ ~Fresh.foreign /\ Fresh.generation = db.generation + 1
  BY <1>2 DEF NoSchema
<1>5. /\ ~Dropped.there /\ Dropped.comment = "none" /\ ~Dropped.table
      /\ Dropped.applied = {} /\ Dropped.state = NoState /\ ~Dropped.foreign
      /\ Dropped.generation = db.generation
  BY <1>2 DEF NoSchema
<1>6. Ensured \in Database /\ Ensured.there
  BY <1>3, <1>4 DEF Ensured, Database
<1> QED BY <1>3, <1>4, <1>5, <1>6

\* What it is to write a comment: the schema keeps all the rest.
SameBut(d, c) ==
    /\ (d.there <=> c.there) /\ (d.table <=> c.table) /\ d.applied = c.applied
    /\ (d.tables <=> c.tables) /\ d.rows = c.rows /\ d.state = c.state
    /\ d.generation = c.generation /\ (d.foreign <=> c.foreign)

\* A comment changes a comment, and only where there is a schema.
LEMMA CommentIs ==
    ASSUME NEW d \in Database, NEW text \in Comments
    PROVE  /\ Commented(d, text) \in Database
           /\ SameBut(Commented(d, text), d)
           /\ Commented(d, text).comment = IF d.there THEN text ELSE d.comment
           /\ ~d.there => Commented(d, text) = d
BY DEF Commented, Database, SameBut

\* The client's record when a call begins, and when it ends.
Begun(c, op, at) ==
    /\ c.op = op /\ c.at = at /\ c.calls = client.calls + 1
    /\ c.result = "none" /\ ~c.faulted /\ (c.quiet <=> Quiet)

EndedAs(c, result) ==
    /\ c.at = "idle" /\ c.instance = 0 /\ c.result = result
    /\ c.op = client.op /\ c.calls = client.calls /\ c.quiet = client.quiet

\* A call that begins.
LEMMA CallIs ==
    ASSUME client \in ClientRecord, client.calls < MaxCalls,
           NEW op \in {"install", "uninstall"}, NEW at \in {"deploy", "wait", "idle"}
    PROVE  /\ Called(op, at) \in ClientRecord /\ Begun(Called(op, at), op, at)
           /\ Called(op, at).instance = 0
<1> DEFINE q == Quiet
<1>1. Called(op, at) = [client EXCEPT !.op = op, !.at = at, !.calls = client.calls + 1,
           !.instance = 0, !.result = "none", !.faulted = FALSE, !.quiet = q]
  BY Zenon DEF Called, q
<1>2. q \in BOOLEAN
  BY Zenon DEF Quiet, q
<1> HIDE DEF q
<1>3. client.calls + 1 \in 0 .. MaxCalls
  <2>1. client.calls \in 0 .. MaxCalls
    BY DEF ClientRecord
  <2> QED BY <2>1, Sizes
<1>4. Called(op, at) \in ClientRecord
  BY <1>1, <1>2, <1>3 DEF ClientRecord
<1>5. /\ Called(op, at).op = op /\ Called(op, at).at = at
      /\ Called(op, at).calls = client.calls + 1 /\ Called(op, at).result = "none"
      /\ ~Called(op, at).faulted /\ Called(op, at).instance = 0
      /\ Called(op, at).quiet = q
  BY <1>1 DEF ClientRecord
<1>6. Called(op, at).quiet <=> Quiet
  BY <1>5, Zenon DEF q
<1> QED BY <1>4, <1>5, <1>6 DEF Begun

\* A call that ends keeps its place in the history.
LEMMA EndIs ==
    ASSUME Sound(client), NEW result \in {"installed", "uninstalled", "failed"}
    PROVE  /\ client.at # "idle" =>
                Sound(Ended(result)) /\ Sound(Disturbed(Ended(result)))
           /\ EndedAs(Ended(result), result) /\ EndedAs(Disturbed(Ended(result)), result)
           /\ Ended(result).faulted = client.faulted /\ Disturbed(Ended(result)).faulted
<1> DEFINE e == Ended(result)
<1>1. /\ e \in ClientRecord /\ EndedAs(e, result) /\ e.faulted = client.faulted
      /\ client.at # "idle" => e.op # "none" /\ client.op # "none"
  BY DEF Sound, Ended, ClientRecord, EndedAs
<1>2. /\ Disturbed(e) \in ClientRecord /\ EndedAs(Disturbed(e), result)
      /\ Disturbed(e).faulted
  BY <1>1 DEF Disturbed, ClientRecord, EndedAs
<1> QED BY <1>1, <1>2 DEF Sound, EndedAs

\* A call that is disturbed goes on.
LEMMA DisturbedIs ==
    ASSUME Sound(client)
    PROVE  /\ Sound(Disturbed(client)) /\ Disturbed(client).faulted
           /\ Disturbed(client).op = client.op /\ Disturbed(client).at = client.at
           /\ Disturbed(client).instance = client.instance
           /\ Disturbed(client).result = client.result
           /\ Disturbed(client).quiet = client.quiet
BY DEF Sound, Disturbed, ClientRecord

\* The instances after one of them has taken a step.
LEMMA FnPut ==
    ASSUME fn \in [Instance -> SetupCall], NEW i \in Instance, NEW f \in SetupCall,
           fn' = [fn EXCEPT ![i] = f]
    PROVE  /\ fn' \in [Instance -> SetupCall]
           /\ fn'[i] = f /\ \A j \in Instance \ {i} : fn'[j] = fn[j]
OBVIOUS

\* The workers after one of them has taken a step.
LEMMA WorkerPut ==
    ASSUME worker \in [Worker -> WorkerCall], NEW w \in Worker, NEW c \in WorkerCall,
           worker' = [worker EXCEPT ![w] = c]
    PROVE  /\ worker' \in [Worker -> WorkerCall]
           /\ worker'[w] = c /\ \A v \in Worker \ {w} : worker'[v] = worker[v]
OBVIOUS

\* An instance answers, and its client, if it still waits, goes on or ends.
LEMMA AnswerIs ==
    ASSUME WellTyped, NEW i \in Instance, NEW ok \in BOOLEAN, Answer(i, ok)
    PROVE  /\ fn' \in [Instance -> SetupCall] /\ Sound(client')
           /\ fn'[i] = NoInstance /\ \A j \in Instance \ {i} : fn'[j] = fn[j]
           /\ db' \in Database /\ SameBut(db', db)
           /\ ~Awaited(i) => UNCHANGED <<client, db>>
           /\ Awaited(i) /\ ok => client' = AnsweredOK /\ UNCHANGED db
           /\ Awaited(i) /\ ~ok => client' = Ended("failed") /\ db' = Commented(db, Errored)
<1>1. NoInstance \in SetupCall
  BY DEF NoInstance, SetupCall, FnAt
<1>2. /\ fn' \in [Instance -> SetupCall]
      /\ fn'[i] = NoInstance /\ \A j \in Instance \ {i} : fn'[j] = fn[j]
  BY <1>1, FnPut DEF Answer, WellTyped
<1>3. /\ ~Awaited(i) => UNCHANGED <<client, db>>
      /\ Awaited(i) /\ ok => client' = AnsweredOK /\ UNCHANGED db
      /\ Awaited(i) /\ ~ok => client' = Ended("failed") /\ db' = Commented(db, Errored)
  BY Zenon DEF Answer
<1>4. client.at # "idle" => Sound(AnsweredOK)
  <2>1. CASE client.op = "install"
    BY <2>1 DEF AnsweredOK, WellTyped, Sound, ClientRecord
  <2>2. CASE client.op # "install"
    BY <2>2, EndIs DEF AnsweredOK, WellTyped
  <2> QED BY <2>1, <2>2
<1>5. Sound(client')
  BY <1>3, <1>4, EndIs DEF WellTyped, Awaited
<1>6. Errored \in Comments
  BY DEF Errored, Comments
<1>7. db' \in Database /\ SameBut(db', db)
  BY <1>3, <1>6, CommentIs DEF WellTyped, SameBut
<1> QED BY <1>2, <1>3, <1>5, <1>7

\* The answer of an instance that has left something behind.
LEMMA HalfAnswerIs ==
    ASSUME WellTyped, NEW i \in Instance,
           client' = Disturbed(IF Awaited(i) THEN AnsweredOK ELSE client)
    PROVE  Sound(client') /\ client'.quiet = client.quiet
<1> Sound(client) /\ client \in ClientRecord
  BY DEF WellTyped, Sound
<1>1. CASE Awaited(i)
  <2>1. CASE client.op = "install"
    BY <1>1, <2>1, Sizes DEF AnsweredOK, Disturbed, Sound, ClientRecord
  <2>2. CASE client.op # "install"
    BY <1>1, <2>2, EndIs DEF AnsweredOK, EndedAs, Awaited
  <2> QED BY <2>1, <2>2
<1>2. CASE ~Awaited(i)
  BY <1>2, DisturbedIs
<1> QED BY <1>1, <1>2

\* What is counted.
LEMMA CreatedIs ==
    /\ IsFiniteSet({o \in Object : version[o] > 0}) /\ Created \in 0 .. MaxObjects
<1>1. IsFiniteSet(Object) /\ Cardinality(Object) = MaxObjects
  BY FS_Interval, Sizes DEF Object
<1>2. {o \in Object : version[o] > 0} \in SUBSET Object
  OBVIOUS
<1>3. /\ IsFiniteSet({o \in Object : version[o] > 0})
      /\ Cardinality({o \in Object : version[o] > 0}) <= MaxObjects
  BY <1>1, <1>2, FS_Subset
<1>4. Cardinality({o \in Object : version[o] > 0}) \in Nat
  BY <1>3, FS_CardinalityType
<1> QED BY <1>3, <1>4, Sizes DEF Created

\* A checkpoint is saved, and the schema keeps the rest.
LEMMA SavedIs ==
    ASSUME db \in Database, NEW w \in Worker, worker[w] \in WorkerCall
    PROVE  /\ Saved(w) \in Database
           /\ Saved(w).state = [upto |-> worker[w].upto, left |-> worker[w].left]
           /\ Saved(w).foreign <=> (db.foreign \/ worker[w].generation # db.generation)
           /\ Saved(w).there = db.there /\ Saved(w).comment = db.comment
           /\ Saved(w).table = db.table /\ Saved(w).applied = db.applied
           /\ Saved(w).rows = db.rows /\ Saved(w).generation = db.generation
<1> DEFINE c == [upto |-> worker[w].upto, left |-> worker[w].left]
           f == db.foreign \/ worker[w].generation # db.generation
<1>1. Saved(w) = [db EXCEPT !.state = c, !.foreign = f]
  BY Zenon DEF Saved, c, f
<1>2. c \in Checkpoint
  BY DEF WorkerCall, Checkpoint
<1>3. f \in BOOLEAN
  BY Zenon DEF f
<1>4. f <=> (db.foreign \/ worker[w].generation # db.generation)
  BY Zenon DEF f
<1> HIDE DEF c, f
<1>5. /\ Saved(w) \in Database /\ Saved(w).state = c /\ Saved(w).foreign = f
      /\ Saved(w).there = db.there /\ Saved(w).comment = db.comment
      /\ Saved(w).table = db.table /\ Saved(w).applied = db.applied
      /\ Saved(w).rows = db.rows /\ Saved(w).generation = db.generation
  BY <1>1, <1>2, <1>3 DEF Database
<1> QED BY <1>4, <1>5, Zenon DEF c

-----------------------------------------------------------------------------
(* Types.                                                                  *)

\* The parts of the state, each of its type.
LEMMA PartsAre ==
    ASSUME WellTyped
    PROVE  /\ db \in Database /\ project \in Deployment /\ Sound(client) /\ faults \in Nat
           /\ client \in ClientRecord /\ client.calls \in 0 .. MaxCalls
           /\ version \in [Object -> 0 .. MaxVersion] /\ events \in SUBSET Object
           /\ hooks \in Seq({"enabled", "disabled", "deleted"})
           /\ Len(hooks) \in Nat /\ Len(hooks) <= MaxHooks /\ DOMAIN hooks = 1 .. Len(hooks)
           /\ \A h \in DOMAIN hooks : hooks[h] \in {"enabled", "disabled", "deleted"}
           /\ \A i \in Instance : fn[i] \in SetupCall
           /\ \A w \in Worker : worker[w] \in WorkerCall
<1>1. /\ hooks \in Seq({"enabled", "disabled", "deleted"}) /\ Len(hooks) <= MaxHooks
      /\ DOMAIN hooks = 1 .. Len(hooks) /\ Len(hooks) \in Nat
      /\ \A h \in DOMAIN hooks : hooks[h] \in {"enabled", "disabled", "deleted"}
  BY LenProperties, ElementOfSeq DEF WellTyped
<1>2. client.calls \in 0 .. MaxCalls
  BY DEF WellTyped, Sound, ClientRecord
<1> QED BY <1>1, <1>2, Sizes DEF WellTyped, Sound

\* Stripe.
LEMMA StripeTypes ==
    ASSUME WellTyped,
           \/ \E o \in Object : Change(o) \/ RejectEvent(o)
           \/ \E h \in DOMAIN hooks : Disable(h)
    PROVE  WellTyped'
<1> /\ version \in [Object -> 0 .. MaxVersion] /\ events \in SUBSET Object /\ faults \in Nat
    /\ hooks \in Seq({"enabled", "disabled", "deleted"})
    /\ Len(hooks) \in Nat /\ Len(hooks) <= MaxHooks /\ DOMAIN hooks = 1 .. Len(hooks)
  BY PartsAre
<1>1. ASSUME NEW o \in Object, Change(o)
      PROVE  WellTyped'
  <2>1. version[o] \in 0 .. MaxVersion /\ version[o] < MaxVersion
    BY <1>1 DEF Change
  <2>2. version[o] + 1 \in 0 .. MaxVersion
    BY <2>1, Sizes
  <2>3. version' \in [Object -> 0 .. MaxVersion] /\ events' \in SUBSET Object
    BY <1>1, <2>2 DEF Change
  <2> QED BY <1>1, <2>3 DEF Change, WellTyped, Sound
<1>2. ASSUME NEW o \in Object, RejectEvent(o)
      PROVE  WellTyped'
  BY <1>2 DEF RejectEvent, WellTyped, Sound
<1>3. ASSUME NEW h \in DOMAIN hooks, Disable(h)
      PROVE  WellTyped'
  <2>1. /\ hooks' = [hooks EXCEPT ![h] = "disabled"]
        /\ UNCHANGED <<version, events, db, project, client, fn, worker>>
        /\ faults' = faults + 1
    BY <1>3 DEF Disable, Fault, stripe
  <2>2. hooks' \in Seq({"enabled", "disabled", "deleted"}) /\ Len(hooks') = Len(hooks)
    BY <2>1, ExceptSeq
  <2>3. Len(hooks') <= MaxHooks /\ faults' \in Nat
    BY <2>1, <2>2, Sizes
  <2> QED BY <2>1, <2>2, <2>3 DEF WellTyped, Sound
<1> QED BY <1>1, <1>2, <1>3

\* Secrets are added to those there are.
LEMMA SecretsAre ==
    ASSUME WellTyped, NEW given \in Given, NEW functions \in SUBSET Functions
    PROVE  /\ SecretsSet(given, functions) \in Deployment
           /\ SecretsSet(given, functions).functions = functions
           /\ SecretsSet(given, functions).key
<1> project \in Deployment
  BY PartsAre
<1> DEFINE options == project.options \cup given
<1>1. options \in SUBSET Options /\ project.secret \in Nat /\ project.vault \in 0 .. MaxCalls
  BY ProjectIs, GivenAre
<1>2. SecretsSet(given, functions) =
        [project EXCEPT !.key = TRUE, !.options = options, !.functions = functions]
  BY DEF SecretsSet
<1> HIDE DEF options
<1>3. SecretsSet(given, functions) \in Deployment
  <2>1. TRUE \in BOOLEAN
    OBVIOUS
  <2>2. [project EXCEPT !.key = TRUE, !.options = options, !.functions = functions] \in Deployment
    BY <1>1, <2>1, ProjectMoves
  <2> QED BY <1>2, <2>2
<1>4. /\ SecretsSet(given, functions).functions = functions
      /\ SecretsSet(given, functions).key
  BY <1>2 DEF Deployment
<1> QED BY <1>3, <1>4

\* The client's steps.
LEMMA ClientTypes ==
    ASSUME WellTyped,
           \/ InstallBegins \/ ClientNext \/ InstallFails \/ UninstallBegins \/ LoseAnswer
    PROVE  WellTyped'
<1> /\ db \in Database /\ project \in Deployment /\ Sound(client) /\ faults \in Nat
    /\ client \in ClientRecord /\ client.calls \in 0 .. MaxCalls
  BY PartsAre
<1>1. CASE InstallBegins
  <2>1. /\ client' = Called("install", "deploy") /\ db' = Commented(Ensured, "installing")
        /\ UNCHANGED <<version, events, hooks, project, fn, worker, faults>>
        /\ client.calls < MaxCalls
    BY <1>1 DEF InstallBegins, stripe
  <2>2. client' \in ClientRecord /\ Begun(client', "install", "deploy") /\ client'.instance = 0
    BY <2>1, CallIs
  <2>3. Sound(client')
    BY <2>2 DEF Sound, Begun
  <2>4. db' \in Database
    BY <2>1, SchemasAre, CommentIs DEF Comments
  <2> QED BY <2>1, <2>3, <2>4 DEF WellTyped
<1>2. CASE InstallDeploys
  <2>1. Sound(client')
    BY <1>2 DEF InstallDeploys, Sound, ClientRecord
  <2>2. PICK given \in Given : project' = SecretsSet(given, Functions)
    BY <1>2 DEF InstallDeploys
  <2>3. Functions \in SUBSET Functions /\ TRUE \in BOOLEAN
    OBVIOUS
  <2>4. project' \in Deployment
    BY <2>2, <2>3, SecretsAre
  <2> QED BY <1>2, <2>1, <2>4 DEF InstallDeploys, stripe, WellTyped
<1>3. CASE InstallInvokes
  <2>1. PICK i \in Instance :
          /\ Invoke(i, "post", "look")
          /\ client' = [client EXCEPT !.at = "wait", !.instance = i]
    BY <1>3 DEF InstallInvokes
  <2>2. client.op = "install"
    BY <1>3 DEF InstallInvokes
  <2>3. Sound(client')
    BY <2>1, <2>2, Sizes DEF Sound, ClientRecord
  <2>4. fn' \in [Instance -> SetupCall]
    BY <2>1 DEF Invoke, NoInstance, SetupCall, FnAt, WellTyped
  <2> QED BY <1>3, <2>3, <2>4 DEF InstallInvokes, stripe, WellTyped
<1>4. CASE InstallSchedules
  <2>1. Sound(client')
    BY <1>4 DEF InstallSchedules, Sound, ClientRecord
  <2>2. project' = [project EXCEPT !.cron = TRUE, !.vault = client.calls, !.queue = TRUE]
    BY <1>4 DEF InstallSchedules
  <2>3. project' \in Deployment
    BY <2>2, ProjectIs, ProjectMoves
  <2> QED BY <1>4, <2>1, <2>3 DEF InstallSchedules, stripe, WellTyped
<1>5. CASE InstallMarks
  <2>1. Sound(client') /\ db' \in Database
    BY <1>5, EndIs, CommentIs DEF InstallMarks, Comments
  <2> QED BY <1>5, <2>1 DEF InstallMarks, stripe, WellTyped
<1>6. CASE InstallFails
  <2>1. Sound(client') /\ db' \in Database
    BY <1>6, EndIs, CommentIs DEF InstallFails, Comments
  <2>2. project' \in Deployment
    <3>1. project \in Deployment
      BY DEF WellTyped
    <3>2. \/ UNCHANGED project
          \/ \E given \in Given :
                project' = SecretsSet(given, project.functions \cup {"stripe-setup"})
      BY <1>6 DEF InstallFails
    <3>3. project.functions \cup {"stripe-setup"} \in SUBSET Functions
      BY <3>1, ProjectIs DEF Functions
    <3> QED BY <3>1, <3>2, <3>3, SecretsAre
  <2>3. faults' \in Nat
    BY <1>6 DEF InstallFails, Fault
  <2> QED BY <1>6, <2>1, <2>2, <2>3 DEF InstallFails, stripe, WellTyped
<1>7. CASE UninstallBegins
  <2>1. client.calls < MaxCalls /\ UNCHANGED <<version, events, hooks, project, worker, faults>>
    BY <1>7 DEF UninstallBegins, stripe
  <2>2. CASE "stripe-setup" \in project.functions
    <3>1. PICK i \in Instance :
            /\ Invoke(i, "delete", "unhook")
            /\ client' = [Called("uninstall", "wait") EXCEPT !.instance = i]
            /\ db' = Commented(db, "uninstalling")
      BY <1>7, <2>2 DEF UninstallBegins
    <3> DEFINE c == Called("uninstall", "wait")
    <3>2. c \in ClientRecord /\ c.op = "uninstall" /\ c.at = "wait" /\ c.calls = client.calls + 1
      BY <2>1, CallIs DEF Begun
    <3>3. client' = [c EXCEPT !.instance = i]
      BY <3>1
    <3> HIDE DEF c
    <3>4. Sound(client')
      BY <3>2, <3>3, Sizes DEF Sound, ClientRecord
    <3>5. fn' \in [Instance -> SetupCall]
      BY <3>1 DEF Invoke, NoInstance, SetupCall, FnAt, WellTyped
    <3>6. db' \in Database
      BY <3>1, CommentIs DEF Comments
    <3> QED BY <2>1, <3>4, <3>5, <3>6 DEF WellTyped
  <2>3. CASE "stripe-setup" \notin project.functions
    <3> DEFINE c == Called("uninstall", "idle")
    <3>1. /\ client' = [c EXCEPT !.result = "failed"]
          /\ db' = Commented(db, "uninstall-error") /\ UNCHANGED fn
      BY <1>7, <2>3 DEF UninstallBegins
    <3>2. /\ c \in ClientRecord /\ c.op = "uninstall" /\ c.at = "idle"
          /\ c.calls = client.calls + 1 /\ c.instance = 0
      BY <2>1, CallIs DEF Begun
    <3> HIDE DEF c
    <3>3. Sound(client')
      BY <3>1, <3>2 DEF Sound, ClientRecord
    <3>4. db' \in Database
      BY <3>1, CommentIs DEF Comments
    <3> QED BY <2>1, <3>1, <3>3, <3>4 DEF WellTyped
  <2> QED BY <2>2, <2>3
<1>8. CASE LoseAnswer
  <2>1. Sound(client') /\ db' \in Database
    BY <1>8, EndIs, CommentIs DEF LoseAnswer, Comments, Errored
  <2>2. faults' \in Nat
    BY <1>8 DEF LoseAnswer, Fault
  <2> QED BY <1>8, <2>1, <2>2 DEF LoseAnswer, stripe, WellTyped
<1> QED BY <1>1, <1>2, <1>3, <1>4, <1>5, <1>6, <1>7, <1>8 DEF ClientNext

\* One instance's step at a time: what it leaves of the others.
LEMMA StepPut ==
    ASSUME WellTyped, NEW i \in Instance, NEW at \in FnAt, Step(i, at)
    PROVE  /\ fn' \in [Instance -> SetupCall]
           /\ fn'[i] = [fn[i] EXCEPT !.at = at]
           /\ \A j \in Instance \ {i} : fn'[j] = fn[j]
<1>1. [fn[i] EXCEPT !.at = at] \in SetupCall
  BY PartsAre DEF SetupCall
<1>2. fn' = [fn EXCEPT ![i] = [fn[i] EXCEPT !.at = at]]
  BY DEF Step
<1> QED BY <1>1, <1>2, FnPut DEF WellTyped

\* POST /setup.
LEMMA PostTypes ==
    ASSUME WellTyped, NEW i \in Instance,
           \/ SetupLooks(i) \/ SetupResets(i) \/ SetupReadsApplied(i) \/ SetupMigrates(i)
           \/ SetupClears(i) \/ SetupLists(i) \/ SetupMakesHook(i) \/ SetupStoresSecret(i)
    PROVE  WellTyped'
<1> /\ db \in Database /\ project \in Deployment /\ Sound(client) /\ fn[i] \in SetupCall
    /\ hooks \in Seq({"enabled", "disabled", "deleted"})
    /\ Len(hooks) \in Nat /\ Len(hooks) <= MaxHooks /\ DOMAIN hooks = 1 .. Len(hooks)
  BY PartsAre
<1> fn \in [Instance -> SetupCall]
  BY DEF WellTyped
<1>1. CASE SetupLooks(i)
  <2> DEFINE empty == db.table /\ db.applied = {}
             f == [fn[i] EXCEPT !.empty = empty, !.at = IF empty THEN "reset" ELSE "table"]
  <2>1. empty \in BOOLEAN
    BY DEF Database
  <2>2. fn' = [fn EXCEPT ![i] = f] /\ db' = Ensured
    BY <1>1 DEF SetupLooks
  <2> HIDE DEF empty
  <2>3. f \in SetupCall
    BY <2>1 DEF SetupCall, FnAt
  <2> HIDE DEF f
  <2>4. fn' \in [Instance -> SetupCall] /\ db' \in Database
    BY <2>2, <2>3, FnPut, SchemasAre
  <2> QED BY <1>1, <2>4 DEF SetupLooks, stripe, WellTyped
<1>2. CASE SetupResets(i)
  <2>1. Step(i, "table") /\ db' = Fresh
    BY <1>2 DEF SetupResets
  <2>2. fn' \in [Instance -> SetupCall] /\ db' \in Database
    BY <2>1, StepPut, SchemasAre DEF FnAt
  <2> QED BY <1>2, <2>2 DEF SetupResets, stripe, WellTyped
<1>3. CASE SetupReadsApplied(i)
  <2>1. CASE db.there
    <3> DEFINE f == [fn[i] EXCEPT !.pending = Pending(db.applied), !.at = "migrate"]
    <3>1. db' = [db EXCEPT !.table = TRUE] /\ fn' = [fn EXCEPT ![i] = f] /\ UNCHANGED client
      BY <1>3, <2>1 DEF SetupReadsApplied
    <3>2. f \in SetupCall /\ db' \in Database
      BY <3>1 DEF Pending, SetupCall, FnAt, Database
    <3> HIDE DEF f
    <3>3. fn' \in [Instance -> SetupCall]
      BY <3>1, <3>2, FnPut
    <3> QED BY <1>3, <3>1, <3>2, <3>3 DEF SetupReadsApplied, stripe, WellTyped
  <2>2. CASE ~db.there
    <3>1. Answer(i, FALSE)
      BY <1>3, <2>2 DEF SetupReadsApplied
    <3>2. fn' \in [Instance -> SetupCall] /\ Sound(client') /\ db' \in Database
      BY <3>1, AnswerIs
    <3> QED BY <1>3, <3>2 DEF SetupReadsApplied, stripe, WellTyped
  <2> QED BY <2>1, <2>2
<1>4. CASE SetupMigrates(i)
  <2> DEFINE m == Min(fn[i].pending)
  <2>0. m \in 1 .. Migrations
    <3>1. fn[i].pending \in SUBSET (1 .. Migrations) /\ fn[i].pending # {}
      BY <1>4 DEF SetupMigrates, SetupCall
    <3>2. fn[i].pending \in SUBSET Nat
      BY <3>1, Sizes
    <3>3. m \in fn[i].pending
      BY <3>1, <3>2, HasLeast
    <3> QED BY <3>1, <3>3
  <2> HIDE DEF m
  <2>1. CASE db.table /\ m \notin db.applied
    <3> DEFINE f == [fn[i] EXCEPT !.pending = @ \ {m}]
    <3>1. /\ db' = [db EXCEPT !.applied = @ \cup {m}] /\ fn' = [fn EXCEPT ![i] = f]
          /\ UNCHANGED client
      BY <1>4, <2>1 DEF SetupMigrates, m
    <3>2. f \in SetupCall /\ db' \in Database
      BY <3>1, <2>0 DEF SetupCall, Database
    <3> HIDE DEF f
    <3>3. fn' \in [Instance -> SetupCall]
      BY <3>1, <3>2, FnPut
    <3> QED BY <1>4, <3>1, <3>2, <3>3 DEF SetupMigrates, stripe, WellTyped
  <2>2. CASE ~(db.table /\ m \notin db.applied)
    <3>1. Answer(i, FALSE)
      BY <1>4, <2>2, Zenon DEF SetupMigrates, m
    <3>2. fn' \in [Instance -> SetupCall] /\ Sound(client') /\ db' \in Database
      BY <3>1, AnswerIs
    <3> QED BY <1>4, <3>2 DEF SetupMigrates, stripe, WellTyped
  <2> QED BY <2>1, <2>2
<1>5. CASE SetupClears(i)
  <2>1. Step(i, "list") /\ db' = [db EXCEPT !.state = NoState]
    BY <1>5 DEF SetupClears
  <2>2. NoState \in Checkpoint
    BY Sizes DEF NoState, Checkpoint
  <2>3. fn' \in [Instance -> SetupCall] /\ db' \in Database
    BY <2>1, <2>2, StepPut DEF FnAt, Database
  <2> QED BY <1>5, <2>3 DEF SetupClears, stripe, WellTyped
<1>6. CASE SetupLists(i)
  <2>1. Live \in SUBSET (1 .. Len(hooks))
    BY DEF Live
  <2>2. Live # {} => Max(Live) \in Nat
    <3>1. SUFFICES ASSUME Live # {} PROVE Max(Live) \in Nat
      OBVIOUS
    <3>2. Max(Live) \in Live
      BY <2>1, <3>1, HasGreatest
    <3>3. \A h \in Live : h \in Nat
      BY <2>1
    <3> QED BY <3>2, <3>3, Zenon
  <2> DEFINE old == IF Live = {} THEN 0 ELSE Max(Live)
  <2>3. old \in Nat
    BY <2>2
  <2>4. \/ fn' = [fn EXCEPT ![i].at = "store"]
        \/ fn' = [fn EXCEPT ![i].at = "hook", ![i].hook = old]
    BY <1>6 DEF SetupLists
  <2> HIDE DEF old
  <2>5. fn' \in [Instance -> SetupCall]
    <3> DEFINE f == [fn[i] EXCEPT !.at = "store"]
               g == [fn[i] EXCEPT !.at = "hook", !.hook = old]
    <3>1. f \in SetupCall /\ g \in SetupCall
      BY <2>3 DEF SetupCall, FnAt
    <3>2. fn' = [fn EXCEPT ![i] = f] \/ fn' = [fn EXCEPT ![i] = g]
      BY <2>4
    <3> HIDE DEF f, g
    <3> QED BY <3>1, <3>2
  <2> QED BY <1>6, <2>5 DEF SetupLists, stripe, WellTyped
<1>7. CASE SetupMakesHook(i)
  <2> DEFINE old == fn[i].hook
  <2>1. CASE old # 0 /\ hooks[old] = "deleted"
    <3>1. Answer(i, FALSE) /\ UNCHANGED hooks
      BY <1>7, <2>1 DEF SetupMakesHook
    <3>2. fn' \in [Instance -> SetupCall] /\ Sound(client') /\ db' \in Database
      BY <3>1, AnswerIs
    <3> QED BY <1>7, <3>1, <3>2 DEF SetupMakesHook, stripe, WellTyped
  <2>2. CASE ~(old # 0 /\ hooks[old] = "deleted")
    <3> DEFINE f == [fn[i] EXCEPT !.hook = Len(hooks) + 1, !.at = "store"]
               left == IF old = 0 THEN hooks ELSE [hooks EXCEPT ![old] = "deleted"]
    <3>1. hooks' = Append(left, "enabled") /\ fn' = [fn EXCEPT ![i] = f] /\ UNCHANGED <<client, db>>
      BY <1>7, <2>2 DEF SetupMakesHook
    <3>2. f \in SetupCall
      <4> DEFINE n == Len(hooks) + 1
      <4>1. n \in Nat
        OBVIOUS
      <4> HIDE DEF n
      <4>2. [fn[i] EXCEPT !.hook = n, !.at = "store"] \in SetupCall
        BY <4>1 DEF SetupCall, FnAt
      <4> QED BY <4>2 DEF n
    <3>3. left \in Seq({"enabled", "disabled", "deleted"}) /\ Len(left) = Len(hooks)
      <4>1. old = 0 \/ old \in 1 .. Len(hooks) \/ old \notin 1 .. Len(hooks)
        OBVIOUS
      <4>2. CASE old \in 1 .. Len(hooks)
        <5>1. /\ [hooks EXCEPT ![old] = "deleted"] \in Seq({"enabled", "disabled", "deleted"})
              /\ Len([hooks EXCEPT ![old] = "deleted"]) = Len(hooks)
          BY <4>2, ExceptSeq
        <5> QED BY <5>1
      <4>3. CASE old \notin 1 .. Len(hooks)
        <5>1. [hooks EXCEPT ![old] = "deleted"] = hooks
          BY <4>3
        <5> QED BY <5>1
      <4> QED BY <4>2, <4>3
    <3> HIDE DEF f, left
    <3>4. Len(hooks) < MaxHooks
      BY <1>7 DEF SetupMakesHook
    <3>5. hooks' \in Seq({"enabled", "disabled", "deleted"}) /\ Len(hooks') <= MaxHooks
      BY <3>1, <3>3, <3>4, Sizes, AppendProperties
    <3>6. fn' \in [Instance -> SetupCall]
      BY <3>1, <3>2, FnPut
    <3> QED BY <1>7, <3>1, <3>5, <3>6 DEF SetupMakesHook, stripe, WellTyped
  <2> QED BY <2>1, <2>2
<1>8. CASE SetupStoresSecret(i)
  <2>1. project' \in Deployment
    BY <1>8 DEF SetupStoresSecret, Deployment, SetupCall
  <2>2. fn' \in [Instance -> SetupCall] /\ Sound(client') /\ db' \in Database
    BY <1>8, AnswerIs DEF SetupStoresSecret
  <2> QED BY <1>8, <2>1, <2>2 DEF SetupStoresSecret, stripe, WellTyped
<1> QED BY <1>1, <1>2, <1>3, <1>4, <1>5, <1>6, <1>7, <1>8

\* DELETE /setup, and an instance that fails.
LEMMA DeleteTypes ==
    ASSUME WellTyped, NEW i \in Instance,
           \/ SetupUnhooks(i) \/ SetupUnschedules(i) \/ SetupForgetsSecret(i)
           \/ SetupDrops(i) \/ SetupPurgesSecrets(i) \/ SetupPurgesFunctions(i)
           \/ InstanceFails(i)
    PROVE  WellTyped'
<1> /\ db \in Database /\ project \in Deployment /\ Sound(client) /\ fn[i] \in SetupCall
    /\ hooks \in Seq({"enabled", "disabled", "deleted"}) /\ faults \in Nat
    /\ Len(hooks) \in Nat /\ Len(hooks) <= MaxHooks /\ DOMAIN hooks = 1 .. Len(hooks)
  BY PartsAre
<1> fn \in [Instance -> SetupCall]
  BY DEF WellTyped
<1>0. ASSUME NEW some \in BOOLEAN, Leaves(some)
      PROVE  Sound(client') /\ faults' \in Nat
  BY <1>0, DisturbedIs DEF Leaves, Fault
<1>1. CASE SetupUnhooks(i)
  <2>1. CASE project.key
    <3>1. PICK left \in SUBSET Live :
            /\ Leaves(left # {})
            /\ hooks' = [h \in DOMAIN hooks |-> IF h \in Live \ left THEN "deleted" ELSE hooks[h]]
      BY <1>1, <2>1 DEF SetupUnhooks
    <3>2. Sound(client') /\ faults' \in Nat
      BY <1>0, <3>1, Zenon
    <3>3. /\ hooks' \in Seq({"enabled", "disabled", "deleted"})
          /\ Len(hooks') = Len(hooks)
      <4>1. \A h \in 1 .. Len(hooks) : hooks[h] \in {"enabled", "disabled", "deleted"}
        BY ElementOfSeq
      <4>2. hooks' \in [1 .. Len(hooks) -> {"enabled", "disabled", "deleted"}]
        BY <3>1, <4>1
      <4> QED BY <4>2, IsASeq, LenProperties
    <3>4. Step(i, "unschedule") /\ UNCHANGED <<db, version, events, project, worker>>
      BY <1>1, <2>1 DEF SetupUnhooks, stripe
    <3>5. fn' \in [Instance -> SetupCall]
      BY <3>4, StepPut DEF FnAt
    <3> QED BY <3>2, <3>3, <3>4, <3>5 DEF WellTyped
  <2>2. CASE ~project.key
    <3>1. /\ Answer(i, FALSE)
          /\ UNCHANGED <<hooks, faults, version, events, project, worker>>
      BY <1>1, <2>2 DEF SetupUnhooks, stripe
    <3>2. fn' \in [Instance -> SetupCall] /\ Sound(client') /\ db' \in Database
      BY <3>1, AnswerIs
    <3> QED BY <3>1, <3>2 DEF WellTyped
  <2> QED BY <2>1, <2>2
<1>2. CASE SetupUnschedules(i)
  <2>1. PICK left \in {FALSE, project.cron} :
          Leaves(left) /\ project' = [project EXCEPT !.cron = left]
    BY <1>2 DEF SetupUnschedules
  <2>2. left \in BOOLEAN /\ project' \in Deployment
    BY <2>1 DEF Deployment
  <2>3. Sound(client') /\ faults' \in Nat
    BY <1>0, <2>1, <2>2
  <2>4. fn' \in [Instance -> SetupCall]
    BY <1>2, StepPut DEF SetupUnschedules, FnAt
  <2> QED BY <1>2, <2>2, <2>3, <2>4 DEF SetupUnschedules, stripe, WellTyped
<1>3. CASE SetupForgetsSecret(i)
  <2>1. PICK left \in {0, project.vault} :
          Leaves(left # 0) /\ project' = [project EXCEPT !.vault = left]
    BY <1>3 DEF SetupForgetsSecret
  <2>2. project' \in Deployment
    BY <2>1, Sizes DEF Deployment
  <2>3. Sound(client') /\ faults' \in Nat
    BY <1>0, <2>1, Zenon
  <2>4. fn' \in [Instance -> SetupCall]
    BY <1>3, StepPut DEF SetupForgetsSecret, FnAt
  <2> QED BY <1>3, <2>2, <2>3, <2>4 DEF SetupForgetsSecret, stripe, WellTyped
<1>4. CASE SetupDrops(i)
  <2>1. fn' \in [Instance -> SetupCall] /\ db' \in Database
    BY <1>4, StepPut, SchemasAre DEF SetupDrops, FnAt
  <2> QED BY <1>4, <2>1 DEF SetupDrops, stripe, WellTyped
<1>5. CASE SetupPurgesSecrets(i)
  <2>1. PICK key \in {FALSE, project.key}, secret \in {0, project.secret},
             url \in SUBSET (project.options \cap Purged) :
          /\ Leaves(key \/ secret # 0 \/ url # {})
          /\ project' = [project EXCEPT !.key = key, !.secret = secret,
                                        !.options = (project.options \ Purged) \cup url]
    BY <1>5 DEF SetupPurgesSecrets
  <2>2. key \in BOOLEAN /\ secret \in Nat
    <3>1. project.key \in BOOLEAN /\ project.secret \in Nat
      BY ProjectIs
    <3>2. key \in BOOLEAN
      BY <3>1, Zenon
    <3>3. secret \in Nat
      BY <3>1
    <3> QED BY <3>2, <3>3
  <2>3. project' \in Deployment
    <3> DEFINE options == (project.options \ Purged) \cup url
    <3>1. options \in SUBSET Options
      BY ProjectIs
    <3>2. project' = [project EXCEPT !.key = key, !.secret = secret, !.options = options]
      BY <2>1
    <3> HIDE DEF options
    <3> QED BY <2>2, <3>1, <3>2, ProjectIs, ProjectMoves
  <2> DEFINE some == key \/ secret # 0 \/ url # {}
  <2>4. some \in BOOLEAN /\ Leaves(some)
    BY <2>1, <2>2, Zenon
  <2> HIDE DEF some
  <2>5. Sound(client') /\ faults' \in Nat
    BY <1>0, <2>4
  <2>6. fn' \in [Instance -> SetupCall]
    BY <1>5, StepPut DEF SetupPurgesSecrets, FnAt
  <2> QED BY <1>5, <2>3, <2>5, <2>6 DEF SetupPurgesSecrets, stripe, WellTyped
<1>6. CASE SetupPurgesFunctions(i)
  <2>1. PICK left \in SUBSET project.functions :
          /\ project' = [project EXCEPT !.functions = left]
          /\ IF left = {}
             THEN Answer(i, TRUE) /\ UNCHANGED faults
             ELSE /\ Fault /\ fn' = [fn EXCEPT ![i] = NoInstance]
                  /\ client' = Disturbed(IF Awaited(i) THEN AnsweredOK ELSE client)
                  /\ UNCHANGED db
    BY <1>6 DEF SetupPurgesFunctions
  <2>2. left \in SUBSET Functions
    BY ProjectIs
  <2>3. project' \in Deployment
    BY <2>1, <2>2 DEF Deployment
  <2>4. fn' \in [Instance -> SetupCall] /\ Sound(client') /\ db' \in Database /\ faults' \in Nat
    <3>1. CASE left = {}
      BY <2>1, <3>1, AnswerIs
    <3>2. CASE left # {}
      <4>1. NoInstance \in SetupCall
        BY DEF NoInstance, SetupCall, FnAt
      <4>2. fn' \in [Instance -> SetupCall] /\ db' \in Database /\ faults' \in Nat
        <5>1. /\ fn' = [fn EXCEPT ![i] = NoInstance] /\ UNCHANGED db /\ faults' = faults + 1
          BY <2>1, <3>2 DEF Fault
        <5>2. fn' \in [Instance -> SetupCall]
          BY <4>1, <5>1, FnPut
        <5> QED BY <5>1, <5>2
      <4>3. Sound(client')
        BY <2>1, <3>2, HalfAnswerIs
      <4> QED BY <4>2, <4>3
    <3> QED BY <3>1, <3>2
  <2> QED BY <1>6, <2>1, <2>3, <2>4 DEF SetupPurgesFunctions, stripe, WellTyped
<1>7. CASE InstanceFails(i)
  <2>1. fn' = [fn EXCEPT ![i] = NoInstance] /\ faults' \in Nat
    BY <1>7 DEF InstanceFails, Fault
  <2>2. NoInstance \in SetupCall
    BY DEF NoInstance, SetupCall, FnAt
  <2>3. fn' \in [Instance -> SetupCall]
    BY <2>1, <2>2, FnPut
  <2>4. Sound(client') /\ db' \in Database
    <3>1. CASE Awaited(i)
      BY <1>7, <3>1, EndIs, CommentIs DEF InstanceFails, Comments, Errored, Awaited
    <3>2. CASE ~Awaited(i)
      BY <1>7, <3>2, DisturbedIs DEF InstanceFails
    <3> QED BY <3>1, <3>2
  <2> QED BY <1>7, <2>1, <2>3, <2>4 DEF InstanceFails, stripe, WellTyped
<1> QED BY <1>1, <1>2, <1>3, <1>4, <1>5, <1>6, <1>7

\* The workers.
LEMMA WorkerTypes ==
    ASSUME WellTyped, NEW w \in Worker,
           WorkerStarts(w) \/ WorkerNext(w) \/ WorkerDies(w)
    PROVE  WellTyped'
<1> /\ db \in Database /\ worker[w] \in WorkerCall /\ faults \in Nat
    /\ version \in [Object -> 0 .. MaxVersion]
  BY PartsAre
<1> worker \in [Worker -> WorkerCall]
  BY DEF WellTyped
<1>0. NoWorker \in WorkerCall
  BY Sizes DEF NoWorker, WorkerCall
<1>1. CASE WorkerStarts(w)
  <2> DEFINE c == [at |-> "setup", upto |-> Created, generation |-> db.generation, left |-> Owed]
  <2>1. Created \in 0 .. MaxObjects
    BY CreatedIs
  <2>2. Owed \in SUBSET Object
    <3>1. db.state.upto \in Nat /\ db.state.left \in SUBSET Object
      BY Sizes DEF Database, Checkpoint
    <3>2. OwedNew \in SUBSET Object
      BY <2>1, <3>1, Sizes DEF OwedNew, Object
    <3> QED BY <3>1, <3>2 DEF Owed
  <2>3. c \in WorkerCall
    BY <2>1, <2>2 DEF WorkerCall, Database
  <2>4. worker' = [worker EXCEPT ![w] = c]
    BY <1>1 DEF WorkerStarts
  <2> HIDE DEF c
  <2>5. worker' \in [Worker -> WorkerCall]
    BY <2>3, <2>4, WorkerPut
  <2> QED BY <1>1, <2>5 DEF WorkerStarts, stripe, WellTyped
<1>2. CASE WorkerPrepares(w)
  <2>1. [worker[w] EXCEPT !.at = "read"] \in WorkerCall
    BY DEF WorkerCall
  <2>2. worker' = [worker EXCEPT ![w] = [worker[w] EXCEPT !.at = "read"]]
    BY <1>2 DEF WorkerPrepares
  <2>3. worker' \in [Worker -> WorkerCall]
    BY <2>1, <2>2, WorkerPut
  <2>4. db' \in Database
    BY <1>2, SchemasAre DEF WorkerPrepares, Database
  <2> QED BY <1>2, <2>3, <2>4 DEF WorkerPrepares, stripe, WellTyped
<1>3. ASSUME NEW o \in Object, WorkerWrites(w, o)
      PROVE  WellTyped'
  <2>1. CASE db.tables
    <3> DEFINE c == [worker[w] EXCEPT !.left = @ \ {o}, !.at = "save"]
    <3>1. db' = [db EXCEPT !.rows[o] = version[o]] /\ worker' = [worker EXCEPT ![w] = c]
      BY <1>3, <2>1 DEF WorkerWrites
    <3>2. c \in WorkerCall
      BY DEF WorkerCall
    <3>3. db' \in Database
      <4>1. [db.rows EXCEPT ![o] = version[o]] \in [Object -> 0 .. MaxVersion]
        BY DEF Database
      <4>2. db' = [db EXCEPT !.rows = [db.rows EXCEPT ![o] = version[o]]]
        BY <3>1
      <4> QED BY <4>1, <4>2 DEF Database
    <3> HIDE DEF c
    <3>4. worker' \in [Worker -> WorkerCall]
      BY <3>1, <3>2, WorkerPut
    <3> QED BY <1>3, <3>3, <3>4 DEF WorkerWrites, stripe, WellTyped
  <2>2. CASE ~db.tables
    <3>1. worker' \in [Worker -> WorkerCall] /\ UNCHANGED db
      BY <1>0, <1>3, <2>2, WorkerPut DEF WorkerWrites
    <3> QED BY <1>3, <3>1 DEF WorkerWrites, stripe, WellTyped
  <2> QED BY <2>1, <2>2
<1>4. CASE WorkerSaves(w)
  <2>1. \/ worker' = [worker EXCEPT ![w] = [worker[w] EXCEPT !.at = "read"]]
        \/ worker' = [worker EXCEPT ![w] = NoWorker]
    BY <1>4 DEF WorkerSaves
  <2>2. [worker[w] EXCEPT !.at = "read"] \in WorkerCall
    BY DEF WorkerCall
  <2>3. worker' \in [Worker -> WorkerCall]
    BY <1>0, <2>1, <2>2, WorkerPut
  <2>4. db' \in Database
    <3>1. [upto |-> worker[w].upto, left |-> worker[w].left] \in Checkpoint
      BY DEF WorkerCall, Checkpoint
    <3>2. Saved(w) \in Database
      BY <3>1, SavedIs
    <3> QED BY <1>4, <3>2 DEF WorkerSaves
  <2> QED BY <1>4, <2>3, <2>4 DEF WorkerSaves, stripe, WellTyped
<1>5. CASE WorkerDies(w)
  <2>1. worker' \in [Worker -> WorkerCall]
    BY <1>0, <1>5, WorkerPut DEF WorkerDies
  <2> QED BY <1>5, <2>1 DEF WorkerDies, Fault, stripe, WellTyped
<1> QED BY <1>1, <1>2, <1>3, <1>4, <1>5 DEF WorkerNext

\* Every variable stays in its range.
LEMMA TypesStep == WellTyped /\ [Next]_vars => WellTyped'
<1> SUFFICES ASSUME WellTyped, [Next]_vars PROVE WellTyped'
  OBVIOUS
<1>1. CASE \/ \E o \in Object : Change(o) \/ RejectEvent(o)
           \/ \E h \in DOMAIN hooks : Disable(h)
  BY <1>1, StripeTypes
<1>2. CASE \/ InstallBegins \/ ClientNext \/ InstallFails \/ UninstallBegins \/ LoseAnswer
  BY <1>2, ClientTypes
<1>3. CASE \E i \in Instance : InstanceNext(i) \/ InstanceFails(i)
  BY <1>3, PostTypes, DeleteTypes DEF InstanceNext
<1>4. CASE \E w \in Worker : WorkerStarts(w) \/ WorkerNext(w) \/ WorkerDies(w)
  BY <1>4, WorkerTypes
<1>5. CASE UNCHANGED vars
  BY <1>5 DEF vars, WellTyped
<1> QED BY <1>1, <1>2, <1>3, <1>4, <1>5 DEF Next

-----------------------------------------------------------------------------
(* The schema and the checkpoints.                                         *)

\* What a client or an instance may make of the schema: the rows stay with
\* their generation, and of the checkpoint nothing or everything goes.
Moves ==
    \/ /\ (db'.there <=> db.there) /\ db'.rows = db.rows /\ db'.generation = db.generation
       /\ (db'.foreign <=> db.foreign) /\ db'.state \in {db.state, NoState}
    \/ /\ db'.generation = db.generation + 1
       /\ db'.there /\ db'.state = NoState /\ ~db'.foreign
    \/ /\ db'.generation = db.generation
       /\ ~db'.there /\ db'.state = NoState /\ ~db'.foreign

\* A step that shortens nothing keeps what checkpoints account for.
LEMMA CoversMoves ==
    ASSUME WellTyped, Covers, Moves, UNCHANGED <<version, worker>>
    PROVE  Covers'
<1> /\ db \in Database /\ \A w \in Worker : worker[w] \in WorkerCall
  BY PartsAre
<1>0. db.generation \in Nat /\ Created' = Created
  BY DEF Database, Created
<1>1. ({o \in Object : version[o] > 0} = 1 .. Created)'
  BY <1>0 DEF Covers
<1>2. Known(NoState)' /\ Covered(NoState)'
  <2>1. Created \in Nat
    BY CreatedIs, Sizes
  <2>2. NoState.upto = 0 /\ NoState.left = {}
    BY DEF NoState
  <2> QED BY <1>0, <2>1, <2>2 DEF Known, Covered
<1>3. Known(db.state)'
  <2>1. CASE db'.state = db.state
    BY <1>0, <2>1 DEF Covers, Known
  <2>2. CASE db'.state = NoState
    BY <1>2, <2>2 DEF Known
  <2> QED BY <2>1, <2>2 DEF Moves
<1>4. (~db.foreign => Covered(db.state))'
  <2>1. CASE db'.state = db.state /\ db'.rows = db.rows /\ (db'.foreign <=> db.foreign)
    BY <2>1 DEF Covers, Covered
  <2>2. CASE db'.state = NoState
    BY <1>2, <2>2 DEF Covered
  <2> QED BY <2>1, <2>2 DEF Moves
<1>5. ASSUME NEW w \in Worker, worker[w].at # "off"
      PROVE  /\ Known(worker[w])' /\ worker[w].generation <= db'.generation
             /\ db'.there /\ ~db'.foreign /\ worker[w].generation = db'.generation =>
                   Covered(worker[w])'
  <2>1. Known(worker[w]) /\ worker[w].generation <= db.generation /\ worker[w].generation \in Nat
    BY <1>5 DEF Covers, WorkerCall
  <2>2. Known(worker[w])'
    BY <1>0, <2>1 DEF Known
  <2>3. worker[w].generation <= db'.generation
    BY <1>0, <2>1 DEF Moves
  <2>4. ASSUME db'.there, ~db'.foreign, worker[w].generation = db'.generation
        PROVE  Covered(worker[w])'
    <3>1. db'.rows = db.rows /\ db.there /\ ~db.foreign /\ worker[w].generation = db.generation
      BY <1>0, <2>1, <2>4 DEF Moves
    <3>2. Covered(worker[w])
      BY <1>5, <3>1 DEF Covers
    <3> QED BY <3>1, <3>2 DEF Covered
  <2> QED BY <2>2, <2>3, <2>4
<1> QED BY <1>1, <1>3, <1>4, <1>5 DEF Covers

\* So does every step of a client or an instance.
LEMMA MovesStep ==
    ASSUME WellTyped, Hollow,
           \/ InstallBegins \/ ClientNext \/ InstallFails \/ UninstallBegins \/ LoseAnswer
           \/ \E i \in Instance : InstanceNext(i) \/ InstanceFails(i)
    PROVE  Moves /\ Hollow' /\ UNCHANGED <<version, worker>>
<1> db \in Database
  BY PartsAre
<1> DEFINE Goal == Moves /\ Hollow' /\ UNCHANGED <<version, worker>>
<1>a. ASSUME SameBut(db', db), db.there \/ db' = db
      PROVE  Moves /\ Hollow'
  BY <1>a DEF SameBut, Moves, Hollow
<1>b. ASSUME NEW text \in Comments, db' = Commented(db, text)
      PROVE  Moves /\ Hollow'
  BY <1>a, <1>b, CommentIs
<1>c. ASSUME db' = Ensured \/ db' = Commented(Ensured, "installing")
      PROVE  Moves /\ Hollow'
  <2>1. /\ Ensured \in Database /\ Ensured.there /\ "installing" \in Comments
        /\ db.there => Ensured = db
        /\ ~db.there => Ensured = Fresh
    BY SchemasAre DEF Ensured, Comments
  <2>2. SameBut(db', Ensured)
    <3>1. db' = Ensured \/ SameBut(Commented(Ensured, "installing"), Ensured)
      BY <2>1, CommentIs
    <3> QED BY <1>c, <3>1 DEF SameBut
  <2>3. db'.there
    BY <2>1, <2>2 DEF SameBut
  <2>4. CASE db.there
    BY <2>1, <2>2, <2>3, <2>4 DEF SameBut, Moves, Hollow
  <2>5. CASE ~db.there
    BY <2>1, <2>2, <2>3, <2>5, SchemasAre DEF SameBut, Moves, Hollow
  <2> QED BY <2>4, <2>5
<1>d. ASSUME NEW i \in Instance, NEW ok \in BOOLEAN, Answer(i, ok)
      PROVE  Moves /\ Hollow'
  <2>1. Errored \in Comments
    BY DEF Errored, Comments
  <2>2. UNCHANGED db \/ db' = Commented(db, Errored)
    BY <1>d, AnswerIs
  <2> QED BY <1>a, <1>b, <2>1, <2>2 DEF SameBut
<1>e. UNCHANGED db => Moves /\ Hollow'
  BY <1>a DEF SameBut
<1>1. CASE InstallBegins
  BY <1>1, <1>c DEF InstallBegins, stripe
<1>2. CASE InstallDeploys
  BY <1>2, <1>e DEF InstallDeploys, stripe
<1>3. CASE InstallInvokes
  BY <1>3, <1>e DEF InstallInvokes, stripe
<1>4. CASE InstallSchedules
  BY <1>4, <1>e DEF InstallSchedules, stripe
<1>5. CASE InstallMarks
  BY <1>5, <1>b DEF InstallMarks, stripe, Comments
<1>6. CASE InstallFails
  BY <1>6, <1>b DEF InstallFails, stripe, Comments
<1>7. CASE UninstallBegins
  BY <1>7, <1>b DEF UninstallBegins, stripe, Comments
<1>8. CASE LoseAnswer
  BY <1>8, <1>b DEF LoseAnswer, stripe, Comments, Errored
<1>9. ASSUME NEW i \in Instance, InstanceFails(i)
      PROVE  Goal
  <2>1. UNCHANGED db \/ db' = Commented(db, Errored)
    BY <1>9 DEF InstanceFails
  <2>2. Errored \in Comments
    BY DEF Errored, Comments
  <2> QED BY <1>9, <1>b, <1>e, <2>1, <2>2 DEF InstanceFails, stripe
<1>10. ASSUME NEW i \in Instance, InstanceNext(i)
       PROVE  Goal
  <2>1. CASE SetupLooks(i)
    BY <1>c, <2>1 DEF SetupLooks, stripe
  <2>2. CASE SetupResets(i)
    BY <2>2, SchemasAre DEF SetupResets, stripe, Moves, Hollow
  <2>3. CASE SetupReadsApplied(i)
    <3>1. (db.there /\ db' = [db EXCEPT !.table = TRUE]) \/ Answer(i, FALSE)
      BY <2>3 DEF SetupReadsApplied
    <3>2. CASE db' = [db EXCEPT !.table = TRUE] /\ db.there
      BY <2>3, <3>2 DEF SetupReadsApplied, stripe, Moves, Hollow, Database
    <3> QED BY <1>d, <2>3, <3>1, <3>2 DEF SetupReadsApplied, stripe
  <2>4. CASE SetupMigrates(i)
    <3>1. \/ /\ db.table
             /\ db' = [db EXCEPT !.applied = @ \cup {Min(fn[i].pending)}]
          \/ Answer(i, FALSE)
      BY <2>4 DEF SetupMigrates
    <3>2. CASE db.table /\ db' = [db EXCEPT !.applied = @ \cup {Min(fn[i].pending)}]
      BY <2>4, <3>2 DEF SetupMigrates, stripe, Moves, Hollow, Database
    <3> QED BY <1>d, <2>4, <3>1, <3>2 DEF SetupMigrates, stripe
  <2>5. CASE SetupClears(i)
    BY <2>5 DEF SetupClears, stripe, Moves, Hollow, Database
  <2>6. CASE SetupLists(i)
    BY <1>e, <2>6 DEF SetupLists, stripe
  <2>7. CASE SetupMakesHook(i)
    <3>1. Answer(i, FALSE) \/ UNCHANGED db
      BY <2>7 DEF SetupMakesHook
    <3> QED BY <1>d, <1>e, <2>7, <3>1 DEF SetupMakesHook, stripe
  <2>8. CASE SetupStoresSecret(i)
    BY <1>d, <2>8 DEF SetupStoresSecret, stripe
  <2>9. CASE SetupUnhooks(i)
    <3>1. Answer(i, FALSE) \/ UNCHANGED db
      BY <2>9 DEF SetupUnhooks
    <3> QED BY <1>d, <1>e, <2>9, <3>1 DEF SetupUnhooks, stripe
  <2>10. CASE SetupUnschedules(i)
    BY <1>e, <2>10 DEF SetupUnschedules, stripe
  <2>11. CASE SetupForgetsSecret(i)
    BY <1>e, <2>11 DEF SetupForgetsSecret, stripe
  <2>12. CASE SetupDrops(i)
    <3>1. db' = Dropped /\ UNCHANGED <<version, worker>>
      BY <2>12 DEF SetupDrops, stripe
    <3>2. ~Dropped.tables
      BY DEF Dropped, NoSchema
    <3> QED BY <3>1, <3>2, SchemasAre DEF Moves, Hollow
  <2>13. CASE SetupPurgesSecrets(i)
    BY <1>e, <2>13 DEF SetupPurgesSecrets, stripe
  <2>14. CASE SetupPurgesFunctions(i)
    <3>1. Answer(i, TRUE) \/ UNCHANGED db
      BY <2>14 DEF SetupPurgesFunctions
    <3> QED BY <1>d, <1>e, <2>14, <3>1 DEF SetupPurgesFunctions, stripe
  <2> QED BY <1>10, <2>1, <2>2, <2>3, <2>4, <2>5, <2>6, <2>7, <2>8, <2>9, <2>10,
             <2>11, <2>12, <2>13, <2>14 DEF InstanceNext
<1> QED BY <1>1, <1>2, <1>3, <1>4, <1>5, <1>6, <1>7, <1>8, <1>9, <1>10 DEF ClientNext

\* A new object is the next one.
LEMMA ChangeCovers ==
    ASSUME WellTyped, Covers, NEW o \in Object, Change(o)
    PROVE  Covers'
<1>0. /\ version \in [Object -> 0 .. MaxVersion] /\ version[o] \in Nat
      /\ version' = [version EXCEPT ![o] = version[o] + 1] /\ UNCHANGED <<db, worker>>
      /\ o \in Nat /\ o >= 1 /\ Created \in Nat
  BY PartsAre, CreatedIs, Sizes DEF Change, Object
<1>1. {x \in Object : version[x] > 0} = 1 .. Created
  BY DEF Covers
<1>2. {x \in Object : version'[x] > 0} = {x \in Object : version[x] > 0} \cup {o}
  BY <1>0, Sizes
<1>3. /\ {x \in Object : version'[x] > 0} = 1 .. Created'
      /\ Created' >= Created /\ Created' \in Nat
  <2>1. CASE version[o] > 0
    <3>1. {x \in Object : version'[x] > 0} = {x \in Object : version[x] > 0}
      BY <1>2, <2>1
    <3>2. Created' = Created
      BY <3>1, Zenon DEF Created
    <3> QED BY <1>0, <1>1, <3>1, <3>2
  <2>2. CASE version[o] = 0
    <3>1. o \notin 1 .. Created /\ \A e \in 1 .. o - 1 : e \in 1 .. Created
      <4>1. \A e \in 1 .. o - 1 : e \in Object /\ version[e] > 0
        BY <1>0, Sizes DEF Change, Object
      <4> QED BY <1>1, <2>2, <4>1
    <3>2. Created = o - 1
      <4>1. ~(o <= Created)
        BY <1>0, <3>1
      <4>2. o - 1 <= Created
        BY <1>0, <3>1
      <4> QED BY <1>0, <4>1, <4>2
    <3>3. {x \in Object : version'[x] > 0} = 1 .. o
      BY <1>0, <1>1, <1>2, <3>2
    <3>4. Created' = o
      <4>1. Cardinality(1 .. o) = o
        BY <1>0, FS_Interval
      <4> QED BY <3>3, <4>1, Zenon DEF Created
    <3> QED BY <1>0, <3>2, <3>3, <3>4
  <2> QED BY <1>0, <2>1, <2>2
<1>4. \A c \in Checkpoint \cup WorkerCall : Known(c) => Known(c)'
  <2>1. \A c \in Checkpoint \cup WorkerCall : c.upto \in Nat
    BY Sizes DEF Checkpoint, WorkerCall
  <2> QED BY <1>0, <1>3, <2>1 DEF Known
<1>5. db.state \in Checkpoint /\ \A w \in Worker : worker[w] \in WorkerCall
  BY PartsAre DEF Database
<1>6. Known(db.state)' /\ (~db.foreign => Covered(db.state))'
  <2>1. Known(db.state) => Known(db.state)'
    BY <1>0, <1>4, <1>5 DEF Known
  <2> QED BY <1>0, <2>1 DEF Covers, Covered
<1>7. ASSUME NEW w \in Worker, worker[w].at # "off"
      PROVE  /\ Known(worker[w])' /\ worker[w].generation <= db.generation
             /\ db.there /\ ~db.foreign /\ worker[w].generation = db.generation =>
                   Covered(worker[w])'
  <2>1. Known(worker[w]) => Known(worker[w])'
    BY <1>0, <1>4, <1>5 DEF Known
  <2> QED BY <1>0, <1>7, <2>1 DEF Covers, Covered
<1> QED BY <1>0, <1>3, <1>6, <1>7 DEF Covers

\* A worker takes the checkpoint over, works it off and puts it back.
LEMMA WorkerCovers ==
    ASSUME WellTyped, WellTyped', Hollow, Covers, NEW w \in Worker,
           WorkerStarts(w) \/ WorkerNext(w) \/ WorkerDies(w)
    PROVE  Covers' /\ Hollow'
<1> /\ db \in Database /\ \A v \in Worker : worker[v] \in WorkerCall
    /\ version \in [Object -> 0 .. MaxVersion] /\ worker \in [Worker -> WorkerCall]
  BY PartsAre DEF WellTyped
<1>0. /\ UNCHANGED version /\ Created' = Created /\ Created \in Nat
      /\ db.generation \in Nat /\ db.state.upto \in Nat
      /\ \A o \in Object : db.rows[o] \in Nat
  <2>1. UNCHANGED version
    BY DEF WorkerStarts, WorkerNext, WorkerPrepares, WorkerWrites, WorkerSaves, WorkerDies, stripe
  <2>2. \A o \in Object : db.rows[o] \in 0 .. MaxVersion
    BY DEF Database
  <2> QED BY <2>1, <2>2, CreatedIs, Sizes DEF Created, Database, Checkpoint
<1>1. ({o \in Object : version[o] > 0} = 1 .. Created)'
  BY <1>0 DEF Covers
\* What the others need: their rows stay, and the schema is theirs or it is not.
<1>2. ASSUME \A o \in Object : db.rows[o] > 0 => db'.rows[o] > 0,
             db'.generation = db.generation, db'.there => db.there, db.foreign => db'.foreign,
             NEW v \in Worker, worker[v].at # "off",
             worker'[v].upto = worker[v].upto, worker'[v].generation = worker[v].generation,
             worker'[v].left = worker[v].left
      PROVE  /\ Known(worker[v])' /\ worker'[v].generation <= db'.generation
             /\ db'.there /\ ~db'.foreign /\ worker'[v].generation = db'.generation =>
                   Covered(worker[v])'
  <2>1. Known(worker[v])' /\ worker'[v].generation <= db'.generation
    BY <1>0, <1>2 DEF Covers, Known
  <2>2. ASSUME db'.there, ~db'.foreign, worker'[v].generation = db'.generation
        PROVE  Covered(worker[v])'
    <3>1. Covered(worker[v])
      BY <1>2, <2>2 DEF Covers
    <3>2. \A o \in 1 .. worker[v].upto : o \in Object
      BY Sizes DEF WorkerCall, Object
    <3> QED BY <1>2, <3>1, <3>2 DEF Covered
  <2> QED BY <2>1, <2>2
\* A worker that stops leaves all to the others.
<1>9. ASSUME worker' = [worker EXCEPT ![w] = NoWorker], UNCHANGED db
      PROVE  Covers' /\ Hollow'
  <2>1. /\ worker'[w].at = "off" /\ \A v \in Worker \ {w} : worker'[v] = worker[v]
    BY <1>9 DEF NoWorker
  <2>2. Known(db.state)' /\ (~db.foreign => Covered(db.state))'
    BY <1>0, <1>9 DEF Covers, Known, Covered
  <2>3. ASSUME NEW v \in Worker, worker'[v].at # "off"
        PROVE  /\ Known(worker[v])' /\ worker'[v].generation <= db'.generation
               /\ db'.there /\ ~db'.foreign /\ worker'[v].generation = db'.generation =>
                     Covered(worker[v])'
    BY <1>2, <1>9, <2>1, <2>3
  <2> QED BY <1>1, <1>9, <2>2, <2>3 DEF Covers, Hollow
<1>3. CASE WorkerStarts(w)
  <2>1. /\ worker' = [worker EXCEPT ![w] =
                [at |-> "setup", upto |-> Created, generation |-> db.generation, left |-> Owed]]
        /\ UNCHANGED db /\ worker[w].at = "off"
    BY <1>3 DEF WorkerStarts
  <2>2. /\ worker'[w].upto = Created /\ worker'[w].generation = db.generation
        /\ worker'[w].left = Owed
        /\ \A v \in Worker \ {w} : worker'[v] = worker[v]
    BY <2>1
  <2>3. Known(db.state)
    BY DEF Covers
  <2>4. Owed = db.state.left \cup ((db.state.upto + 1) .. Created)
    BY DEF Owed, OwedNew
  <2>5. Known(worker[w])'
    BY <1>0, <2>2, <2>3, <2>4 DEF Known
  <2>6. ~db.foreign => Covered(worker[w])'
    <3>1. SUFFICES ASSUME ~db.foreign, NEW o \in (1 .. Created) \ Owed
                   PROVE  db.rows[o] > 0
      BY <2>1, <2>2 DEF Covered
    <3>2. o \in (1 .. db.state.upto) \ db.state.left
      BY <1>0, <2>4
    <3> QED BY <3>1, <3>2 DEF Covers, Covered
  <2>7. Known(db.state)' /\ (~db.foreign => Covered(db.state))'
    BY <1>0, <2>1 DEF Covers, Known, Covered
  <2>8. ASSUME NEW v \in Worker, worker'[v].at # "off"
        PROVE  /\ Known(worker[v])' /\ worker'[v].generation <= db'.generation
               /\ db'.there /\ ~db'.foreign /\ worker'[v].generation = db'.generation =>
                     Covered(worker[v])'
    <3>1. CASE v = w
      BY <1>0, <2>1, <2>2, <2>5, <2>6, <3>1
    <3>2. CASE v # w
      BY <1>2, <2>1, <2>2, <2>8, <3>2
    <3> QED BY <3>1, <3>2
  <2> QED BY <1>1, <2>1, <2>7, <2>8 DEF Covers, Hollow
<1>4. CASE WorkerPrepares(w)
  <2>1. /\ worker' = [worker EXCEPT ![w].at = "read"] /\ db' = [Ensured EXCEPT !.tables = TRUE]
        /\ worker[w].at = "setup"
    BY <1>4 DEF WorkerPrepares
  <2>2. \A v \in Worker : /\ worker'[v].upto = worker[v].upto
                          /\ worker'[v].generation = worker[v].generation
                          /\ worker'[v].left = worker[v].left
                          /\ worker'[v].at # "off" => worker[v].at # "off"
    BY <2>1 DEF WorkerCall
  <2>3. CASE db.there
    <3>1. /\ db' = [db EXCEPT !.tables = TRUE]
      BY <2>1, <2>3 DEF Ensured
    <3>2. /\ db'.rows = db.rows /\ db'.generation = db.generation /\ db'.state = db.state
          /\ (db'.foreign <=> db.foreign) /\ db'.there
      BY <2>3, <3>1 DEF Database
    <3>3. Known(db.state)' /\ (~db.foreign => Covered(db.state))'
      BY <1>0, <3>2 DEF Covers, Known, Covered
    <3>4. \A v \in Worker : worker'[v].at # "off" =>
            /\ Known(worker[v])' /\ worker'[v].generation <= db'.generation
            /\ db'.there /\ ~db'.foreign /\ worker'[v].generation = db'.generation =>
                  Covered(worker[v])'
      BY <1>2, <2>2, <2>3, <3>2
    <3> QED BY <1>1, <3>2, <3>3, <3>4 DEF Covers, Hollow
  <2>4. CASE ~db.there
    <3>1. db' = [Fresh EXCEPT !.tables = TRUE]
      BY <2>1, <2>4 DEF Ensured
    <3>2. /\ Fresh \in Database /\ Fresh.there /\ Fresh.state = NoState
          /\ Fresh.generation = db.generation + 1
      BY SchemasAre
    <3>3. /\ db'.there /\ db'.state = NoState /\ db'.generation = db.generation + 1
      BY <3>1, <3>2 DEF Database
    <3>4. Known(db.state)' /\ Covered(db.state)'
      BY <1>0, <3>3 DEF Known, Covered, NoState
    <3>5. ASSUME NEW v \in Worker, worker'[v].at # "off"
          PROVE  /\ Known(worker[v])' /\ worker'[v].generation <= db'.generation
                 /\ worker'[v].generation # db'.generation
      <4>1. Known(worker[v]) /\ worker[v].generation <= db.generation /\ worker[v].generation \in Nat
        BY <2>2, <3>5 DEF Covers, WorkerCall
      <4> QED BY <1>0, <2>2, <3>3, <4>1 DEF Known
    <3> QED BY <1>1, <3>3, <3>4, <3>5 DEF Covers, Hollow
  <2> QED BY <2>3, <2>4
<1>5. ASSUME NEW o \in Object, WorkerWrites(w, o)
      PROVE  Covers' /\ Hollow'
  <2>1. CASE db.tables
    <3>1. /\ db' = [db EXCEPT !.rows[o] = version[o]] /\ worker[w].at = "read"
          /\ worker' = [worker EXCEPT ![w].left = @ \ {o}, ![w].at = "save"]
          /\ o \in worker[w].left
      BY <1>5, <2>1 DEF WorkerWrites
    <3>2. version[o] > 0
      <4>1. o \in 1 .. Created
        <5>1. worker[w].left \in SUBSET (1 .. worker[w].upto) /\ worker[w].upto <= Created
          BY <3>1 DEF Covers, Known
        <5>2. worker[w].upto \in Nat
          BY Sizes DEF WorkerCall
        <5> QED BY <1>0, <3>1, <5>1, <5>2
      <4> QED BY <4>1 DEF Covers
    <3>3. /\ db'.generation = db.generation /\ db'.state = db.state
          /\ (db'.foreign <=> db.foreign) /\ (db'.there <=> db.there)
          /\ (db'.table <=> db.table) /\ (db'.tables <=> db.tables)
          /\ db'.applied = db.applied /\ db'.comment = db.comment
          /\ db'.rows = [db.rows EXCEPT ![o] = version[o]]
      BY <3>1 DEF Database
    <3>4. db'.rows[o] > 0 /\ \A x \in Object : db.rows[x] > 0 => db'.rows[x] > 0
      BY <3>2, <3>3 DEF Database
    <3>5. Known(db.state)' /\ (~db.foreign => Covered(db.state))'
      <4>1. \A x \in 1 .. db.state.upto : x \in Object
        BY Sizes DEF Database, Checkpoint, Object
      <4> QED BY <1>0, <3>3, <3>4, <4>1 DEF Covers, Known, Covered
    <3>6. ASSUME NEW v \in Worker, worker'[v].at # "off"
          PROVE  /\ Known(worker[v])' /\ worker'[v].generation <= db'.generation
                 /\ db'.there /\ ~db'.foreign /\ worker'[v].generation = db'.generation =>
                       Covered(worker[v])'
      <4>1. CASE v # w
        BY <1>2, <3>1, <3>3, <3>4, <3>6, <4>1
      <4>2. CASE v = w
        <5>1. /\ worker'[w].upto = worker[w].upto /\ worker'[w].generation = worker[w].generation
              /\ worker'[w].left = worker[w].left \ {o}
          BY <3>1 DEF WorkerCall
        <5>2. Known(worker[w])' /\ worker'[w].generation <= db'.generation
          BY <1>0, <3>1, <3>3, <5>1 DEF Covers, Known
        <5>3. ASSUME db'.there, ~db'.foreign, worker'[w].generation = db'.generation
              PROVE  Covered(worker[w])'
          <6>1. Covered(worker[w])
            BY <3>1, <3>3, <5>1, <5>3 DEF Covers
          <6>2. \A x \in 1 .. worker[w].upto : x \in Object
            BY Sizes DEF WorkerCall, Object
          <6> QED BY <3>4, <5>1, <6>1, <6>2 DEF Covered
        <5> QED BY <4>2, <5>2, <5>3
      <4> QED BY <4>1, <4>2
    <3> QED BY <1>1, <3>3, <3>5, <3>6 DEF Covers, Hollow
  <2>2. CASE ~db.tables
    BY <1>5, <1>9, <2>2 DEF WorkerWrites
  <2> QED BY <2>1, <2>2
<1>6. CASE WorkerSaves(w)
  <2>1. \/ worker' = [worker EXCEPT ![w].at = "read"] /\ worker[w].at = "save" /\ HasStateTable
        \/ worker' = [worker EXCEPT ![w] = NoWorker]
    BY <1>6 DEF WorkerSaves
  <2>2. worker[w].at # "off"
    BY <1>6 DEF WorkerSaves
  <2>3. CASE HasStateTable
    <3> DEFINE c == [upto |-> worker[w].upto, left |-> worker[w].left]
    <3>1. db' = Saved(w)
      BY <1>6, <2>3 DEF WorkerSaves
    <3>2. /\ db'.state = c /\ (db'.foreign <=> (db.foreign \/ worker[w].generation # db.generation))
          /\ (db'.there <=> db.there) /\ db'.comment = db.comment
          /\ (db'.table <=> db.table) /\ db'.applied = db.applied
          /\ db'.rows = db.rows /\ db'.generation = db.generation
      BY <3>1, SavedIs
    <3>3. db.there
      BY <2>3, Sizes DEF Hollow, HasStateTable
    <3>4. c.upto = worker[w].upto /\ c.left = worker[w].left
      OBVIOUS
    <3> HIDE DEF c
    <3>5. Known(db.state)'
      BY <1>0, <2>2, <3>2, <3>4 DEF Covers, Known
    <3>6. (~db.foreign => Covered(db.state))'
      <4>1. SUFFICES ASSUME ~db'.foreign PROVE Covered(db.state)'
        OBVIOUS
      <4>2. Covered(worker[w])
        BY <2>2, <3>2, <3>3, <4>1 DEF Covers
      <4> QED BY <3>2, <3>4, <4>2 DEF Covered
    <3>7. ASSUME NEW v \in Worker, worker'[v].at # "off"
          PROVE  /\ Known(worker[v])' /\ worker'[v].generation <= db'.generation
                 /\ db'.there /\ ~db'.foreign /\ worker'[v].generation = db'.generation =>
                       Covered(worker[v])'
      <4>1. /\ worker[v].at # "off" /\ worker'[v].upto = worker[v].upto
            /\ worker'[v].generation = worker[v].generation /\ worker'[v].left = worker[v].left
        BY <2>1, <2>2, <3>7 DEF NoWorker, WorkerCall
      <4> QED BY <1>2, <3>2, <4>1
    <3>8. Hollow'
      BY <3>2, <3>3 DEF Hollow
    <3> QED BY <1>1, <3>5, <3>6, <3>7, <3>8 DEF Covers
  <2>4. CASE ~HasStateTable
    BY <1>6, <1>9, <2>4 DEF WorkerSaves
  <2> QED BY <2>3, <2>4
<1>7. CASE WorkerDies(w)
  BY <1>7, <1>9 DEF WorkerDies
<1> QED BY <1>3, <1>4, <1>5, <1>6, <1>7 DEF WorkerNext

\* Every step keeps what the checkpoints account for in the tables.
LEMMA CoversStep ==
    WellTyped /\ Hollow /\ Covers /\ [Next]_vars => Hollow' /\ Covers'
<1> SUFFICES ASSUME WellTyped, Hollow, Covers, [Next]_vars
             PROVE  Hollow' /\ Covers'
  OBVIOUS
<1>0. WellTyped'
  BY TypesStep
<1>1. ASSUME UNCHANGED <<version, db, worker>>
      PROVE  Hollow' /\ Covers'
  BY <1>1 DEF Hollow, Covers, Known, Covered, Created
<1>2. ASSUME NEW o \in Object, Change(o) \/ RejectEvent(o)
      PROVE  Hollow' /\ Covers'
  <2>1. CASE Change(o)
    BY <2>1, ChangeCovers DEF Change, Hollow
  <2>2. CASE RejectEvent(o)
    BY <1>1, <2>2 DEF RejectEvent
  <2> QED BY <1>2, <2>1, <2>2
<1>3. CASE \E h \in DOMAIN hooks : Disable(h)
  BY <1>1, <1>3 DEF Disable, stripe
<1>4. CASE \/ InstallBegins \/ ClientNext \/ InstallFails \/ UninstallBegins \/ LoseAnswer
           \/ \E i \in Instance : InstanceNext(i) \/ InstanceFails(i)
  BY <1>4, MovesStep, CoversMoves
<1>5. CASE \E w \in Worker : WorkerStarts(w) \/ WorkerNext(w) \/ WorkerDies(w)
  BY <1>0, <1>5, WorkerCovers
<1>6. CASE UNCHANGED vars
  BY <1>1, <1>6 DEF vars
<1> QED BY <1>2, <1>3, <1>4, <1>5, <1>6 DEF Next

\* Initially there is nothing.
LEMMA Starts == Init => WellTyped /\ Hollow /\ Covers /\ Kept
<1> SUFFICES ASSUME Init PROVE WellTyped /\ Hollow /\ Covers /\ Kept
  OBVIOUS
<1>1. WellTyped
  <2>1. project \in Deployment
    <3> DEFINE Sets == SUBSET Functions
               Opts == SUBSET Options
               Vaults == 0 .. MaxCalls
    <3>1. {} \in Sets /\ {} \in Opts /\ 0 \in Vaults
      BY Sizes
    <3> HIDE DEF Sets, Opts, Vaults
    <3>2. NoProject \in [functions : Sets, key : BOOLEAN, options : Opts, secret : Nat,
                         vault : Vaults, cron : BOOLEAN, queue : BOOLEAN]
      BY <3>1 DEF NoProject
    <3> QED BY <3>2 DEF Init, Deployment, Sets, Opts, Vaults
  <2>2. fn \in [Instance -> SetupCall]
    BY DEF Init, NoInstance, SetupCall, FnAt
  <2>3. worker \in [Worker -> WorkerCall]
    BY Sizes DEF Init, NoWorker, WorkerCall
  <2>4. Sound(client)
    BY Sizes DEF Init, Sound, ClientRecord
  <2>5. version \in [Object -> 0 .. MaxVersion]
    BY Sizes DEF Init
  <2>6. hooks \in Seq({"enabled", "disabled", "deleted"}) /\ Len(hooks) <= MaxHooks
    BY EmptySeq, Sizes DEF Init
  <2> QED BY <2>1, <2>2, <2>3, <2>4, <2>5, <2>6, NoSchemaIs DEF Init, WellTyped
<1>2. Hollow
  BY DEF Init, Hollow, NoSchema
<1>3. Covers
  <2>1. db.state.upto = 0 /\ db.state.left = {}
    BY DEF Init, NoSchema, NoState
  <2>2. {o \in Object : version[o] > 0} = {} /\ Created = 0
    <3>1. {o \in Object : version[o] > 0} = {}
      BY DEF Init
    <3> QED BY <3>1, FS_EmptySet, Zenon DEF Created
  <2>3. \A w \in Worker : worker[w].at = "off"
    BY DEF Init, NoWorker
  <2> QED BY <2>1, <2>2, <2>3 DEF Covers, Known, Covered
<1>4. Kept
  BY DEF Init, Kept, Promised, Alone, NoInstance
<1> QED BY <1>1, <1>2, <1>3, <1>4

\* No object that a checkpoint accounts for is missing from its table.
THEOREM CheckpointsCover == Spec => []CheckpointHasRows
<1>1. Init => WellTyped /\ Hollow /\ Covers
  BY Starts
<1>2. WellTyped /\ Hollow /\ Covers /\ [Next]_vars => WellTyped' /\ Hollow' /\ Covers'
  BY TypesStep, CoversStep
<1>3. Covers => CheckpointHasRows
  BY DEF Covers, Covered, CheckpointHasRows
<1> QED BY <1>1, <1>2, <1>3, PTL DEF Spec

-----------------------------------------------------------------------------
(* What the two commands promise.                                          *)

\* The fields the promises are about.
LEMMA FieldsAre ==
    ASSUME WellTyped
    PROVE  /\ client.quiet \in BOOLEAN /\ client.faulted \in BOOLEAN
           /\ client.op \in {"none", "install", "uninstall"}
           /\ client.instance \in Instance \cup {0} /\ 0 \notin Instance
           /\ (client.at = "wait" <=> client.instance # 0)
           /\ (client.op = "none" => client.at = "idle")
           /\ (client.op = "none" <=> client.calls = 0)
           /\ db.there \in BOOLEAN /\ db.table \in BOOLEAN
           /\ db.applied \in SUBSET (1 .. Migrations)
           /\ project.key \in BOOLEAN /\ project.cron \in BOOLEAN
           /\ \A i \in Instance : /\ fn[i].pending \in SUBSET (1 .. Migrations)
                                  /\ fn[i].op \in {"none", "post", "delete"}
                                  /\ fn[i].hook \in Nat
<1> /\ db \in Database /\ project \in Deployment /\ Sound(client)
    /\ \A i \in Instance : fn[i] \in SetupCall
  BY PartsAre
<1>1. /\ client.quiet \in BOOLEAN /\ client.faulted \in BOOLEAN
      /\ client.op \in {"none", "install", "uninstall"}
      /\ client.instance \in Instance \cup {0} /\ 0 \notin Instance
      /\ (client.at = "wait" <=> client.instance # 0)
      /\ (client.op = "none" => client.at = "idle")
      /\ (client.op = "none" <=> client.calls = 0)
  BY Sizes DEF Sound, ClientRecord
<1>2. /\ db.there \in BOOLEAN /\ db.table \in BOOLEAN
      /\ db.applied \in SUBSET (1 .. Migrations)
      /\ project.key \in BOOLEAN /\ project.cron \in BOOLEAN
  BY DEF Database, Deployment
<1>3. \A i \in Instance : /\ fn[i].pending \in SUBSET (1 .. Migrations)
                          /\ fn[i].op \in {"none", "post", "delete"}
                          /\ fn[i].hook \in Nat
  BY DEF SetupCall
<1> QED BY <1>1, <1>2, <1>3

\* What Stripe and the workers do breaks no promise.
LEMMA KeptApart ==
    ASSUME Kept, UNCHANGED <<client, fn, project>>, Live' = Live,
           db'.table <=> db.table, db'.applied = db.applied, db'.comment = db.comment,
           db.there => db'.there
    PROVE  Kept'
BY DEF Kept, Promised, Alone, Awaited, InstallKept, Posted, Under, Migrated, UninstallKept, Deleting,
       Bare

\* What Stripe does disturbs no promise.
LEMMA StripeKeeps ==
    ASSUME WellTyped, Kept,
           \/ \E o \in Object : Change(o) \/ RejectEvent(o)
           \/ \E h \in DOMAIN hooks : Disable(h)
    PROVE  Kept'
<1>1. ASSUME NEW o \in Object, Change(o) \/ RejectEvent(o)
      PROVE  Kept'
  <2>1. UNCHANGED <<hooks, db, project, client, fn>>
    BY <1>1 DEF Change, RejectEvent
  <2> QED BY <2>1, KeptApart DEF Live
<1>2. ASSUME NEW h \in DOMAIN hooks, Disable(h)
      PROVE  Kept'
  <2>1. /\ UNCHANGED <<db, project, client, fn>> /\ hooks' = [hooks EXCEPT ![h] = "disabled"]
        /\ hooks[h] = "enabled"
    BY <1>2 DEF Disable
  <2>2. Live' = Live
    BY <2>1 DEF Live
  <2> QED BY <2>1, <2>2, KeptApart
<1> QED BY <1>1, <1>2

\* Workers disturb no promise.
LEMMA WorkersKeep ==
    ASSUME WellTyped, Hollow, Kept, NEW w \in Worker,
           WorkerStarts(w) \/ WorkerNext(w) \/ WorkerDies(w)
    PROVE  Kept'
<1> db \in Database /\ worker[w] \in WorkerCall
  BY PartsAre
<1>1. UNCHANGED <<hooks, project, client, fn>>
  BY DEF WorkerStarts, WorkerNext, WorkerPrepares, WorkerWrites, WorkerSaves, WorkerDies
<1>2. /\ db'.table <=> db.table
      /\ db'.applied = db.applied /\ db'.comment = db.comment
      /\ db.there => db'.there
  <2>1. CASE WorkerPrepares(w)
    <3>1. db' = [Ensured EXCEPT !.tables = TRUE]
      BY <2>1 DEF WorkerPrepares
    <3>2. Fresh \in Database
      BY SchemasAre
    <3>3. CASE db.there
      BY <3>1, <3>3 DEF Ensured, Database
    <3>4. CASE ~db.there
      <4>1. db' = [Fresh EXCEPT !.tables = TRUE]
        BY <3>1, <3>4 DEF Ensured
      <4>2. db'.table = Fresh.table /\ db'.applied = Fresh.applied /\ db'.comment = Fresh.comment
        BY <3>2, <4>1 DEF Database
      <4> QED BY <3>4, <4>2, SchemasAre DEF Hollow
    <3> QED BY <3>3, <3>4
  <2>2. ASSUME NEW o \in Object, WorkerWrites(w, o)
        PROVE  /\ db'.table <=> db.table
               /\ db'.applied = db.applied /\ db'.comment = db.comment
               /\ db.there => db'.there
    <3>1. UNCHANGED db \/ db' = [db EXCEPT !.rows[o] = version[o]]
      BY <2>2 DEF WorkerWrites
    <3> QED BY <3>1 DEF Database
  <2>3. CASE WorkerSaves(w)
    <3>1. UNCHANGED db \/ db' = Saved(w)
      BY <2>3 DEF WorkerSaves
    <3> QED BY <3>1, SavedIs
  <2>4. CASE UNCHANGED db
    BY <2>4
  <2> QED BY <2>1, <2>2, <2>3, <2>4 DEF WorkerStarts, WorkerDies, WorkerNext
<1>3. Live' = Live
  BY <1>1 DEF Live
<1> QED BY <1>1, <1>2, <1>3, KeptApart

\* A quiet install that waits for nobody has nobody at work.
LEMMA NobodyAtWork ==
    ASSUME WellTyped, Kept, client.quiet, client.at \notin {"idle", "wait"}
    PROVE  /\ \A i \in Instance : fn[i].op = "none"
           /\ client.result = "none"
BY DEF Kept, Promised, Alone, Awaited

\* A quiet call that has been disturbed and told it failed promises little.
LEMMA GivenUpKeeps ==
    ASSUME WellTyped, Kept, client.at = "wait",
           EndedAs(client', "failed"), client'.faulted, db' = Commented(db, Errored)
    PROVE  Kept'
<1>1. SUFFICES ASSUME client'.quiet PROVE Promised'
  BY DEF Kept
<1>2. client.quiet /\ client.result = "none"
  BY <1>1 DEF EndedAs, Kept, Promised
<1>3. client.op = "install" => db'.comment # "installed"
  <2>1. SUFFICES ASSUME client.op = "install" PROVE db'.comment # "installed"
    OBVIOUS
  <2>2. db.comment # "installed"
    BY <1>2, <2>1 DEF Kept, Promised, InstallKept
  <2>3. db'.comment = IF db.there THEN Errored ELSE db.comment
    BY PartsAre, CommentIs DEF Comments, Errored
  <2> QED BY <2>1, <2>2, <2>3 DEF Errored
<1> QED BY <1>3 DEF EndedAs, Promised, InstallKept, UninstallKept, Under

\* The client's own steps.
LEMMA ClientKeeps ==
    ASSUME WellTyped, Kept,
           \/ InstallBegins \/ ClientNext \/ InstallFails \/ UninstallBegins \/ LoseAnswer
    PROVE  Kept'
<1> /\ db \in Database /\ project \in Deployment /\ Sound(client)
    /\ client \in ClientRecord /\ client.calls \in 0 .. MaxCalls
  BY PartsAre
<1> /\ client.instance \in Instance \cup {0} /\ 0 \notin Instance
    /\ (client.at = "wait" <=> client.instance # 0)
    /\ (client.op = "none" => client.at = "idle")
    /\ (client.op = "none" <=> client.calls = 0)
  BY FieldsAre
<1>1. CASE InstallBegins
  <2>1. /\ client' = Called("install", "deploy") /\ db' = Commented(Ensured, "installing")
        /\ UNCHANGED <<hooks, project, fn>> /\ client.calls < MaxCalls
    BY <1>1 DEF InstallBegins
  <2>2. Begun(client', "install", "deploy")
    BY <2>1, CallIs
  <2>3. db'.there /\ db'.comment = "installing"
    BY <2>1, SchemasAre, CommentIs DEF SameBut, Comments
  <2> QED BY <2>1, <2>2, <2>3
          DEF Begun, Kept, Promised, Alone, Quiet, InstallKept, Under
<1>2. CASE InstallDeploys
  <2>1. /\ client.op = "install" /\ client.at = "deploy" /\ UNCHANGED <<hooks, db, fn>>
        /\ client' = [client EXCEPT !.at = "invoke"]
        /\ \E given \in Given : project' = SecretsSet(given, Functions)
    BY <1>2 DEF InstallDeploys
  <2>2. /\ client'.at = "invoke" /\ client'.op = "install" /\ client'.result = client.result
        /\ client'.faulted = client.faulted /\ client'.quiet = client.quiet
    BY <2>1 DEF ClientRecord
  <2>3. project'.functions = Functions /\ project'.key
    <3>1. Functions \in SUBSET Functions
      OBVIOUS
    <3> QED BY <2>1, <3>1, SecretsAre
  <2> QED BY <2>1, <2>2, <2>3, NobodyAtWork DEF Kept, Promised, Alone, InstallKept, Under
<1>3. CASE InstallInvokes
  <2>1. PICK i \in Instance :
          /\ Invoke(i, "post", "look")
          /\ client' = [client EXCEPT !.at = "wait", !.instance = i]
    BY <1>3 DEF InstallInvokes
  <2>2. client.op = "install" /\ client.at = "invoke" /\ UNCHANGED <<hooks, db, project>>
    BY <1>3 DEF InstallInvokes
  <2>3. /\ client'.at = "wait" /\ client'.op = "install" /\ client'.result = client.result
        /\ client'.faulted = client.faulted /\ client'.quiet = client.quiet /\ client'.instance = i
    BY <2>1, <2>2 DEF ClientRecord
  <2>4. /\ fn'[i].op = "post" /\ fn'[i].at = "look"
        /\ \A j \in Instance \ {i} : fn'[j] = fn[j]
    BY <2>1 DEF Invoke, NoInstance, WellTyped
  <2> QED BY <2>2, <2>3, <2>4, NobodyAtWork
          DEF Kept, Promised, Alone, Awaited, InstallKept, Under, Posted
<1>4. CASE InstallSchedules
  <2>1. /\ client.op = "install" /\ client.at = "schedule" /\ UNCHANGED <<hooks, db, fn>>
        /\ client' = [client EXCEPT !.at = "mark"]
        /\ project' = [project EXCEPT !.cron = TRUE, !.vault = client.calls, !.queue = TRUE]
    BY <1>4 DEF InstallSchedules
  <2>2. /\ client'.at = "mark" /\ client'.op = "install" /\ client'.result = client.result
        /\ client'.faulted = client.faulted /\ client'.quiet = client.quiet
    BY <2>1 DEF ClientRecord
  <2>3. /\ project'.functions = project.functions /\ (project'.key <=> project.key)
        /\ project'.cron /\ project'.vault # 0
    BY <2>1 DEF Deployment
  <2> QED BY <2>1, <2>2, <2>3, NobodyAtWork
          DEF Kept, Promised, Alone, InstallKept, Under, Migrated, Live
<1>5. CASE InstallMarks
  <2>1. /\ client.op = "install" /\ client.at = "mark" /\ UNCHANGED <<hooks, project, fn>>
        /\ client' = Ended("installed") /\ db' = Commented(db, "installed") /\ db.there
    BY <1>5 DEF InstallMarks
  <2>2. /\ EndedAs(client', "installed") /\ client'.faulted = client.faulted
    BY <2>1, EndIs
  <2>3. /\ db'.there /\ (db'.table <=> db.table) /\ db'.applied = db.applied
    BY <2>1, CommentIs DEF SameBut, Comments
  <2> QED BY <2>1, <2>2, <2>3, NobodyAtWork
          DEF EndedAs, Kept, Promised, Alone, InstallKept, Under, Migrated, Live
<1>6. CASE InstallFails
  <2>1. /\ client.op = "install" /\ client.at \in {"deploy", "invoke", "schedule", "mark"}
        /\ UNCHANGED <<hooks, fn>> /\ db' = Commented(db, "install-error")
        /\ \/ CannotGoOn /\ client' = Ended("failed") 
           \/ client' = Disturbed(Ended("failed"))
    BY <1>6 DEF InstallFails
  <2>2. SUFFICES ASSUME client'.quiet PROVE Promised'
    BY DEF Kept
  <2>3. client.quiet
    BY <2>1, <2>2, EndIs DEF EndedAs
  <2>4. ~CannotGoOn
    BY <2>1, <2>3 DEF CannotGoOn, Kept, Promised, InstallKept, Under, Functions
  <2>5. EndedAs(client', "failed") /\ client'.faulted
    BY <2>1, <2>4, EndIs
  <2>6. db'.comment # "installed"
    <3>1. db.comment # "installed"
      BY <2>1, <2>3, NobodyAtWork DEF Kept, Promised, InstallKept
    <3>2. db'.comment = IF db.there THEN "install-error" ELSE db.comment
      BY <2>1, CommentIs DEF Comments
    <3> QED BY <3>1, <3>2
  <2> QED BY <2>1, <2>5, <2>6 DEF EndedAs, Promised, InstallKept, Under
<1>7. CASE UninstallBegins
  <2>1. client.calls < MaxCalls /\ UNCHANGED <<hooks, project>>
    BY <1>7 DEF UninstallBegins
  <2>2. CASE "stripe-setup" \in project.functions
    <3>1. PICK i \in Instance :
            /\ Invoke(i, "delete", "unhook")
            /\ client' = [Called("uninstall", "wait") EXCEPT !.instance = i]
      BY <1>7, <2>2 DEF UninstallBegins
    <3> DEFINE c == Called("uninstall", "wait")
    <3>2. c \in ClientRecord /\ Begun(c, "uninstall", "wait")
      BY <2>1, CallIs
    <3>3. client' = [c EXCEPT !.instance = i]
      BY <3>1
    <3> HIDE DEF c
    <3>4. /\ client'.op = "uninstall" /\ client'.at = "wait" /\ client'.instance = i
          /\ client'.result = "none" /\ ~client'.faulted /\ (client'.quiet <=> Quiet)
      BY <3>2, <3>3 DEF Begun, ClientRecord
    <3>5. /\ fn'[i].op = "delete" /\ fn'[i].at = "unhook"
          /\ \A j \in Instance \ {i} : fn'[j] = fn[j]
      BY <3>1 DEF Invoke, NoInstance, WellTyped
    <3> QED BY <3>4, <3>5
            DEF Kept, Promised, Alone, Awaited, Quiet, UninstallKept, Deleting
  <2>3. CASE "stripe-setup" \notin project.functions
    <3> DEFINE c == Called("uninstall", "idle")
    <3>1. client' = [c EXCEPT !.result = "failed"] /\ UNCHANGED fn
      BY <1>7, <2>3 DEF UninstallBegins
    <3>2. c \in ClientRecord /\ Begun(c, "uninstall", "idle")
      BY <2>1, CallIs
    <3> HIDE DEF c
    <3>3. /\ client'.op = "uninstall" /\ client'.at = "idle"
          /\ client'.result = "failed" /\ ~client'.faulted /\ (client'.quiet <=> Quiet)
      BY <3>1, <3>2 DEF Begun, ClientRecord
    <3> QED BY <2>1, <2>3, <3>1, <3>3 DEF Kept, Promised, Alone, Quiet, UninstallKept
  <2> QED BY <2>2, <2>3
<1>8. CASE LoseAnswer
  <2>1. /\ client.at = "wait" /\ client' = Disturbed(Ended("failed")) /\ UNCHANGED <<hooks, project, fn>>
        /\ db' = Commented(db, Errored)
    BY <1>8 DEF LoseAnswer
  <2>2. EndedAs(client', "failed") /\ client'.faulted
    BY <2>1, EndIs
  <2> QED BY <2>1, <2>2, GivenUpKeeps
<1> QED BY <1>1, <1>2, <1>3, <1>4, <1>5, <1>6, <1>7, <1>8 DEF ClientNext

\* What an instance can make of the promises of the call in progress.  If that
\* call is quiet and waits for it, the step is accounted for (Promised'); if it
\* does not wait for it, the call has been given up.
LEMMA InstanceKeeps ==
    ASSUME WellTyped, Kept, NEW i \in Instance, fn[i].op # "none",
           client'.quiet = client.quiet,
           ~Awaited(i) =>
               /\ client'.op = client.op /\ client'.at = client.at
               /\ client'.result = client.result /\ (client.faulted => client'.faulted)
               /\ db'.comment \in {db.comment, "none"},
           client.quiet /\ Promised /\ Awaited(i)
                 /\ (\A j \in Instance \ {i} : fn[j].op = "none") => Promised'
    PROVE  Kept'
<1>1. SUFFICES ASSUME client.quiet PROVE Promised'
  BY DEF Kept
<1>2. Promised
  BY <1>1 DEF Kept
<1>3. CASE Awaited(i)
  <2>1. client.result = "none"
    BY <1>2, <1>3 DEF Awaited, Promised
  <2>2. \A j \in Instance \ {i} : fn[j].op = "none"
    BY <1>2, <1>3, <2>1 DEF Awaited, Promised, Alone
  <2> QED BY <1>1, <1>2, <1>3, <2>2
<1>4. CASE ~Awaited(i)
  <2>1. client.faulted /\ client.result = "failed" /\ client.at = "idle"
    BY <1>2, <1>4 DEF Promised, Alone
  <2>2. /\ client'.op = client.op /\ client'.at = "idle" /\ client'.result = "failed"
        /\ client'.faulted /\ db'.comment \in {db.comment, "none"}
    BY <1>4, <2>1
  <2> QED BY <1>2, <2>1, <2>2 DEF Promised, InstallKept, UninstallKept, Under
<1> QED BY <1>3, <1>4

\* An answer ends the call or sends it on; an error answered to an install, or
\* to an uninstall that has the key, is never one of a quiet call.
LEMMA AnswerKeeps ==
    ASSUME WellTyped, Kept, NEW i \in Instance, fn[i].op # "none", NEW ok \in BOOLEAN, Answer(i, ok),
           client.quiet /\ Promised /\ Awaited(i) =>
               \/ /\ ok /\ client.op = "install" /\ fn[i].op = "post"
                  /\ Migrated /\ Live' # {}
                  /\ project'.functions = project.functions /\ (project'.key <=> project.key)
               \/ /\ ok /\ client.op = "uninstall"
                  /\ ~client.faulted => /\ Bare(project') /\ Live' = {}
                                        /\ ~db.table /\ db.comment = "none"
               \/ ~ok /\ client.op = "uninstall" /\ ~project'.key
    PROVE  Kept'
<1> /\ Sound(client) /\ db \in Database /\ client \in ClientRecord
  BY PartsAre
<1>1. /\ \A j \in Instance \ {i} : fn'[j] = fn[j]
      /\ fn'[i].op = "none"
      /\ ~Awaited(i) => UNCHANGED <<client, db>>
      /\ Awaited(i) /\ ok => client' = AnsweredOK /\ UNCHANGED db
      /\ Awaited(i) /\ ~ok => client' = Ended("failed") /\ SameBut(db', db)
  BY AnswerIs DEF NoInstance
<1>2. /\ client.op = "install" =>
           /\ AnsweredOK.at = "schedule" /\ AnsweredOK.op = "install"
           /\ AnsweredOK.result = client.result /\ AnsweredOK.faulted = client.faulted
           /\ AnsweredOK.quiet = client.quiet
      /\ client.op = "uninstall" => AnsweredOK = Ended("uninstalled")
      /\ client.op \in {"none", "install", "uninstall"}
      /\ Awaited(i) => client.op # "none"
  BY FieldsAre DEF AnsweredOK, ClientRecord, Awaited
<1>3. /\ EndedAs(Ended("uninstalled"), "uninstalled") /\ EndedAs(Ended("failed"), "failed")
      /\ Ended("uninstalled").faulted = client.faulted
  BY EndIs
<1>4. client'.quiet = client.quiet
  BY <1>1, <1>2, <1>3 DEF EndedAs
<1>5. ASSUME client.quiet, Promised, Awaited(i), \A j \in Instance \ {i} : fn[j].op = "none"
      PROVE  Promised'
  <2>0. Alone' /\ client.result = "none"
    BY <1>1, <1>5 DEF Alone, Promised, Awaited
  <2>1. CASE /\ ok /\ client.op = "install" /\ fn[i].op = "post"
             /\ Migrated /\ Live' # {}
             /\ project'.functions = project.functions /\ (project'.key <=> project.key)
    <3>1. client' = AnsweredOK /\ UNCHANGED db
      BY <1>1, <1>5, <2>1
    <3>2. InstallKept
      BY <1>5, <2>1 DEF Promised
    <3>3. /\ client'.at = "schedule" /\ client'.op = "install" /\ client'.result = "none"
      BY <1>2, <2>0, <2>1, <3>1
    <3>4. Under /\ client.at = "wait"
      BY <1>5 DEF Under, Awaited
    <3>5. InstallKept'
      BY <2>0, <2>1, <3>1, <3>2, <3>3, <3>4 DEF InstallKept, Under, Migrated
    <3> QED BY <2>0, <3>3, <3>5 DEF Promised
  <2>2. CASE /\ ok /\ client.op = "uninstall"
             /\ ~client.faulted => /\ Bare(project') /\ Live' = {}
                                   /\ ~db.table /\ db.comment = "none"
    <3>1. EndedAs(client', "uninstalled") /\ UNCHANGED db /\ client'.faulted = client.faulted
      BY <1>1, <1>2, <1>3, <1>5, <2>2
    <3> QED BY <2>0, <2>2, <3>1 DEF EndedAs, Promised, UninstallKept
  <2>3. CASE ~ok /\ client.op = "uninstall" /\ ~project'.key
    <3>1. EndedAs(client', "failed")
      BY <1>1, <1>3, <1>5, <2>3
    <3> QED BY <2>0, <2>3, <3>1 DEF EndedAs, Promised, UninstallKept
  <2> QED BY <1>5, <2>1, <2>2, <2>3
<1> QED BY <1>1, <1>4, <1>5, InstanceKeeps

\* POST /setup.
LEMMA PostKeeps ==
    ASSUME WellTyped, WellTyped', Hollow, Kept, NEW i \in Instance,
           \/ SetupLooks(i) \/ SetupResets(i) \/ SetupReadsApplied(i) \/ SetupMigrates(i)
           \/ SetupClears(i) \/ SetupLists(i) \/ SetupMakesHook(i) \/ SetupStoresSecret(i)
    PROVE  Kept'
<1> /\ db \in Database /\ fn \in [Instance -> SetupCall] /\ fn[i] \in SetupCall
    /\ Len(hooks) \in Nat /\ DOMAIN hooks = 1 .. Len(hooks)
    /\ hooks \in Seq({"enabled", "disabled", "deleted"})
  BY PartsAre DEF WellTyped
<1>0. fn[i].op = "post"
  BY DEF SetupLooks, SetupResets, SetupReadsApplied, SetupMigrates, SetupClears, SetupLists,
         SetupMakesHook, SetupStoresSecret, At
\* The call that waits for it is an install.
<1>a. ASSUME Promised, Awaited(i)
      PROVE  /\ client.op = "install" /\ InstallKept /\ Under /\ client.at = "wait"
             /\ client.instance = i /\ Posted(fn[i]) /\ db.there /\ client.result = "none"
             /\ project.functions = Functions /\ project.key /\ db.comment # "installed"
  <2>1. client.op = "install"
    BY <1>0, <1>a, FieldsAre DEF Awaited, Promised, UninstallKept
  <2> QED BY <1>a, <2>1 DEF Awaited, Promised, InstallKept, Under
\* A step that does not answer has to keep the install going.
<1>b. ASSUME UNCHANGED <<client, project>>, db'.comment \in {db.comment, "none"},
             \A j \in Instance \ {i} : fn'[j] = fn[j],
             Promised /\ Awaited(i) => Posted(fn[i])' /\ db'.there
      PROVE  Kept'
  <2>1. ASSUME client.quiet, Promised, Awaited(i), \A j \in Instance \ {i} : fn[j].op = "none"
        PROVE  Promised'
    <3>1. InstallKept'
      BY <1>a, <1>b, <2>1 DEF InstallKept, Under
    <3>2. Alone'
      BY <1>b, <2>1 DEF Alone, Awaited
    <3> QED BY <1>a, <1>b, <2>1, <3>1, <3>2 DEF Promised
  <2> QED BY <1>0, <1>b, <2>1, InstanceKeeps
<1>1. CASE SetupLooks(i)
  <2> DEFINE empty == db.table /\ db.applied = {}
  <2>1. /\ db' = Ensured /\ UNCHANGED <<client, project, hooks>> /\ fn[i].at = "look"
        /\ fn' = [fn EXCEPT ![i].empty = empty, ![i].at = IF empty THEN "reset" ELSE "table"]
    BY <1>1 DEF SetupLooks, At
  <2> HIDE DEF empty
  <2>2. /\ fn'[i].op = "post" /\ fn'[i].at \in {"reset", "table"}
        /\ \A j \in Instance \ {i} : fn'[j] = fn[j]
    BY <1>0, <2>1 DEF SetupCall
  <2>3. db'.comment \in {db.comment, "none"} /\ db'.there
    BY <2>1, SchemasAre DEF Ensured
  <2>4. Posted(fn[i])'
    BY <2>2 DEF Posted
  <2> QED BY <1>b, <2>1, <2>2, <2>3, <2>4
<1>2. CASE SetupResets(i)
  <2>1. db' = Fresh /\ Step(i, "table") /\ UNCHANGED <<client, project>>
    BY <1>2 DEF SetupResets
  <2>2. /\ fn'[i].op = "post" /\ fn'[i].at = "table"
        /\ \A j \in Instance \ {i} : fn'[j] = fn[j]
    <3>1. "table" \in FnAt
      BY DEF FnAt
    <3>2. fn'[i] = [fn[i] EXCEPT !.at = "table"] /\ \A j \in Instance \ {i} : fn'[j] = fn[j]
      BY <2>1, <3>1, StepPut
    <3> QED BY <1>0, <3>2 DEF SetupCall
  <2>3. db'.comment = "none" /\ db'.there
    BY <2>1, SchemasAre
  <2>4. Posted(fn[i])'
    BY <2>2 DEF Posted
  <2> QED BY <1>b, <2>1, <2>2, <2>3, <2>4
<1>3. CASE SetupReadsApplied(i)
  <2>1. CASE db.there
    <3>1. /\ db' = [db EXCEPT !.table = TRUE] /\ UNCHANGED <<client, project>>
          /\ fn' = [fn EXCEPT ![i].pending = Pending(db.applied), ![i].at = "migrate"]
      BY <1>3, <2>1 DEF SetupReadsApplied
    <3>2. /\ fn'[i].op = "post" /\ fn'[i].at = "migrate"
          /\ fn'[i].pending = (1 .. Migrations) \ db.applied
          /\ \A j \in Instance \ {i} : fn'[j] = fn[j]
      BY <1>0, <3>1 DEF SetupCall, Pending
    <3>3. db'.comment = db.comment /\ db'.there /\ db'.table /\ db'.applied = db.applied
      BY <2>1, <3>1 DEF Database
    <3>4. Posted(fn[i])'
      BY <3>2, <3>3 DEF Posted
    <3> QED BY <1>b, <3>1, <3>2, <3>3, <3>4
  <2>2. CASE ~db.there
    <3>1. Answer(i, FALSE)
      BY <1>3, <2>2 DEF SetupReadsApplied
    <3>2. ~(Promised /\ Awaited(i))
      BY <1>a, <2>2
    <3> QED BY <1>0, <3>1, <3>2, AnswerKeeps
  <2> QED BY <2>1, <2>2
<1>4. CASE SetupMigrates(i)
  <2> DEFINE m == Min(fn[i].pending)
  <2>0. m \in fn[i].pending /\ m \in 1 .. Migrations
    <3>1. fn[i].pending \in SUBSET (1 .. Migrations) /\ fn[i].pending # {}
      BY <1>4 DEF SetupMigrates, SetupCall
    <3>2. fn[i].pending \in SUBSET Nat
      BY <3>1, Sizes
    <3>3. m \in fn[i].pending
      BY <3>1, <3>2, HasLeast
    <3> QED BY <3>1, <3>3
  <2> HIDE DEF m
  <2>1. fn[i].at = "migrate"
    BY <1>4 DEF SetupMigrates, At
  <2>2. CASE db.table /\ m \notin db.applied
    <3>1. /\ db' = [db EXCEPT !.applied = @ \cup {m}] /\ fn' = [fn EXCEPT ![i].pending = @ \ {m}]
          /\ UNCHANGED <<client, project>>
      BY <1>4, <2>2 DEF SetupMigrates, m
    <3>2. /\ fn'[i].op = "post" /\ fn'[i].at = "migrate"
          /\ fn'[i].pending = fn[i].pending \ {m}
          /\ \A j \in Instance \ {i} : fn'[j] = fn[j]
      BY <1>0, <2>1, <3>1 DEF SetupCall
    <3>3. /\ db'.comment = db.comment /\ (db'.there <=> db.there) /\ (db'.table <=> db.table)
          /\ db'.applied = db.applied \cup {m}
      BY <3>1 DEF Database
    <3>4. ASSUME Promised, Awaited(i)
          PROVE  Posted(fn[i])' /\ db'.there
      <4>1. fn[i].pending = (1 .. Migrations) \ db.applied /\ db.there
        BY <1>a, <2>1, <3>4 DEF Posted
      <4>2. fn'[i].pending = (1 .. Migrations) \ db'.applied
        BY <3>2, <3>3, <4>1
      <4> QED BY <2>2, <3>2, <3>3, <4>1, <4>2 DEF Posted
    <3> QED BY <1>b, <3>1, <3>2, <3>3, <3>4
  <2>3. CASE ~(db.table /\ m \notin db.applied)
    <3>1. Answer(i, FALSE)
      BY <1>4, <2>3, Zenon DEF SetupMigrates, m
    <3>2. ~(Promised /\ Awaited(i))
      BY <1>a, <2>0, <2>1, <2>3 DEF Posted
    <3> QED BY <1>0, <3>1, <3>2, AnswerKeeps
  <2> QED BY <2>2, <2>3
<1>5. CASE SetupClears(i)
  <2>1. /\ db' = [db EXCEPT !.state = NoState] /\ Step(i, "list") /\ UNCHANGED <<client, project>>
        /\ fn[i].at = "migrate" /\ fn[i].pending = {}
    BY <1>5 DEF SetupClears, At
  <2>2. /\ fn'[i].op = "post" /\ fn'[i].at = "list"
        /\ \A j \in Instance \ {i} : fn'[j] = fn[j]
    <3>1. "list" \in FnAt
      BY DEF FnAt
    <3>2. fn'[i] = [fn[i] EXCEPT !.at = "list"] /\ \A j \in Instance \ {i} : fn'[j] = fn[j]
      BY <2>1, <3>1, StepPut
    <3> QED BY <1>0, <3>2 DEF SetupCall
  <2>3. /\ db'.comment = db.comment /\ (db'.there <=> db.there) /\ (db'.table <=> db.table)
        /\ db'.applied = db.applied
    BY <2>1 DEF Database
  <2>4. ASSUME Promised, Awaited(i)
        PROVE  Posted(fn[i])' /\ db'.there
    <3>1. db.table /\ db.there /\ (1 .. Migrations) \ db.applied = {}
      BY <1>a, <2>1, <2>4 DEF Posted
    <3>2. db.applied = 1 .. Migrations
      BY <3>1, FieldsAre
    <3> QED BY <2>2, <2>3, <3>1, <3>2 DEF Posted, Migrated
  <2> QED BY <1>b, <2>1, <2>2, <2>3, <2>4
<1>6. CASE SetupLists(i)
  <2>1. UNCHANGED <<hooks, db, client, project>> /\ fn[i].at = "list"
    BY <1>6 DEF SetupLists, At
  <2> DEFINE old == IF Live = {} THEN 0 ELSE Max(Live)
  <2>2. old \in Live \cup {0}
    <3>1. Live \in SUBSET (1 .. Len(hooks))
      BY DEF Live
    <3>2. Live # {} => Max(Live) \in Live
      BY <3>1, HasGreatest
    <3> QED BY <3>2
  <2>3. \/ fn' = [fn EXCEPT ![i].at = "store"] /\ Live # {}
        \/ fn' = [fn EXCEPT ![i].at = "hook", ![i].hook = old]
    BY <1>6 DEF SetupLists
  <2> HIDE DEF old
  <2>4. /\ fn'[i].op = "post" /\ \A j \in Instance \ {i} : fn'[j] = fn[j]
        /\ \/ fn'[i].at = "store" /\ Live # {}
           \/ fn'[i].at = "hook" /\ fn'[i].hook = old
    BY <1>0, <2>3 DEF SetupCall
  <2>5. ASSUME Promised, Awaited(i)
        PROVE  Posted(fn[i])' /\ db'.there
    <3>1. Migrated /\ db.there
      BY <1>a, <2>1, <2>5 DEF Posted
    <3>2. Live' = Live
      BY <2>1 DEF Live
    <3> QED BY <2>1, <2>2, <2>4, <3>1, <3>2 DEF Posted, Migrated
  <2> QED BY <1>b, <2>1, <2>4, <2>5
<1>7. CASE SetupMakesHook(i)
  <2> DEFINE old == fn[i].hook
  <2>1. fn[i].at = "hook" /\ UNCHANGED project
    BY <1>7 DEF SetupMakesHook, At
  <2>2. CASE old # 0 /\ hooks[old] = "deleted"
    <3>1. Answer(i, FALSE)
      BY <1>7, <2>2 DEF SetupMakesHook
    <3>2. ~(Promised /\ Awaited(i))
      BY <1>a, <2>1, <2>2 DEF Posted, Live
    <3> QED BY <1>0, <3>1, <3>2, AnswerKeeps
  <2>3. CASE ~(old # 0 /\ hooks[old] = "deleted")
    <3> DEFINE n == Len(hooks) + 1
               left == IF old = 0 THEN hooks ELSE [hooks EXCEPT ![old] = "deleted"]
    <3>1. /\ hooks' = Append(left, "enabled") /\ UNCHANGED <<client, db>>
          /\ fn' = [fn EXCEPT ![i].hook = n, ![i].at = "store"]
      BY <1>7, <2>3 DEF SetupMakesHook
    <3>2. left \in Seq({"enabled", "disabled", "deleted"}) /\ Len(left) = Len(hooks)
      <4>1. CASE old \in 1 .. Len(hooks)
        <5>1. /\ [hooks EXCEPT ![old] = "deleted"] \in Seq({"enabled", "disabled", "deleted"})
              /\ Len([hooks EXCEPT ![old] = "deleted"]) = Len(hooks)
          BY <4>1, ExceptSeq
        <5> QED BY <5>1
      <4>2. CASE old \notin 1 .. Len(hooks)
        <5>1. [hooks EXCEPT ![old] = "deleted"] = hooks
          BY <4>2
        <5> QED BY <5>1
      <4> QED BY <4>1, <4>2
    <3>3. n \in Nat
      OBVIOUS
    <3> HIDE DEF left
    <3>4. DOMAIN hooks' = 1 .. n /\ hooks'[n] = "enabled"
      <4>1. Len(Append(left, "enabled")) = Len(left) + 1 /\ Append(left, "enabled")[Len(left) + 1] = "enabled"
        BY <3>2, AppendProperties
      <4>2. Append(left, "enabled") \in Seq({"enabled", "disabled", "deleted"})
        BY <3>2, AppendProperties
      <4>3. DOMAIN Append(left, "enabled") = 1 .. Len(Append(left, "enabled"))
        BY <4>2, LenProperties
      <4> QED BY <3>1, <3>2, <4>1, <4>3
    <3>5. Live' # {}
      <4>1. n \in 1 .. n
        BY <3>3
      <4> QED BY <3>4, <4>1 DEF Live
    <3> HIDE DEF n
    <3>6. /\ fn'[i].op = "post" /\ fn'[i].at = "store" /\ \A j \in Instance \ {i} : fn'[j] = fn[j]
      BY <1>0, <3>1, <3>3 DEF SetupCall
    <3>7. ASSUME Promised, Awaited(i)
          PROVE  Posted(fn[i])' /\ db'.there
      BY <1>a, <2>1, <3>1, <3>5, <3>6, <3>7 DEF Posted, Migrated
    <3> QED BY <1>b, <2>1, <3>1, <3>6, <3>7
  <2> QED BY <2>2, <2>3
<1>8. CASE SetupStoresSecret(i)
  <2>1. /\ Answer(i, TRUE) /\ fn[i].at = "store" /\ UNCHANGED hooks
        /\ project' = [project EXCEPT !.secret = IF fn[i].hook = 0 THEN @ ELSE fn[i].hook]
    BY <1>8 DEF SetupStoresSecret, At
  <2>2. project'.functions = project.functions /\ (project'.key <=> project.key)
    BY <2>1, PartsAre DEF Deployment
  <2>3. Promised /\ Awaited(i) => client.op = "install" /\ Migrated /\ Live' # {}
    BY <1>a, <2>1 DEF Posted, Live
  <2> QED BY <1>0, <2>1, <2>2, <2>3, AnswerKeeps
<1> QED BY <1>1, <1>2, <1>3, <1>4, <1>5, <1>6, <1>7, <1>8

\* DELETE /setup, and an instance that fails.
LEMMA DeleteKeeps ==
    ASSUME WellTyped, WellTyped', Hollow, Kept, NEW i \in Instance,
           \/ SetupUnhooks(i) \/ SetupUnschedules(i) \/ SetupForgetsSecret(i)
           \/ SetupDrops(i) \/ SetupPurgesSecrets(i) \/ SetupPurgesFunctions(i)
    PROVE  Kept'
<1> /\ db \in Database /\ fn \in [Instance -> SetupCall] /\ fn[i] \in SetupCall
    /\ project \in Deployment /\ Sound(client) /\ DOMAIN hooks = 1 .. Len(hooks)
    /\ project' \in Deployment
  BY PartsAre DEF WellTyped
<1>0. fn[i].op = "delete"
  BY DEF SetupUnhooks, SetupUnschedules, SetupForgetsSecret, SetupDrops, SetupPurgesSecrets,
         SetupPurgesFunctions, At
\* The call that waits for it is an uninstall.
<1>a. ASSUME Promised, Awaited(i)
      PROVE  /\ client.op = "uninstall" /\ UninstallKept /\ client.at = "wait"
             /\ client.instance = i /\ client.result = "none"
             /\ ~client.faulted => Deleting(fn[i])
  <2>1. client.op = "uninstall"
    BY <1>0, <1>a, FieldsAre DEF Awaited, Promised, InstallKept, Posted
  <2> QED BY <1>a, <2>1 DEF Awaited, Promised, UninstallKept
\* A step that does not answer moves on, or leaves something and has disturbed the call.
<1>b. ASSUME NEW some \in BOOLEAN, Leaves(some), NEW at \in FnAt, Step(i, at),
             db'.comment \in {db.comment, "none"},
             Promised /\ Awaited(i) /\ ~some /\ ~client.faulted => Deleting(fn[i])'
      PROVE  Kept'
  <2>1. /\ fn'[i].op = "delete" /\ \A j \in Instance \ {i} : fn'[j] = fn[j]
    <3>1. fn'[i] = [fn[i] EXCEPT !.at = at] /\ \A j \in Instance \ {i} : fn'[j] = fn[j]
      BY <1>b, StepPut
    <3> QED BY <1>0, <3>1 DEF SetupCall
  <2>2. /\ client'.op = client.op /\ client'.at = client.at /\ client'.result = client.result
        /\ client'.quiet = client.quiet /\ client'.instance = client.instance
        /\ (client.faulted => client'.faulted) /\ (some => client'.faulted)
    BY <1>b, DisturbedIs DEF Leaves
  <2>3. ASSUME client.quiet, Promised, Awaited(i), \A j \in Instance \ {i} : fn[j].op = "none"
        PROVE  Promised'
    <3>1. UninstallKept'
      BY <1>a, <1>b, <2>1, <2>2, <2>3 DEF UninstallKept
    <3>2. Alone'
      BY <2>1, <2>2, <2>3 DEF Alone, Awaited
    <3> QED BY <1>a, <2>2, <2>3, <3>1, <3>2 DEF Promised
  <2> QED BY <1>0, <1>b, <2>1, <2>2, <2>3, InstanceKeeps
<1>c. UNCHANGED <<client, faults>> => Leaves(FALSE)
  BY DEF Leaves
\* What the instance stands at afterwards.
<1>d. ASSUME NEW at \in FnAt, Step(i, at)
      PROVE  fn'[i].at = at
  <2>1. fn'[i] = [fn[i] EXCEPT !.at = at]
    BY <1>d, StepPut
  <2> QED BY <2>1 DEF SetupCall
<1>e. {"unschedule", "vault", "drop", "secrets", "functions"} \subseteq FnAt
  BY DEF FnAt
<1>1. CASE SetupUnhooks(i)
  <2>1. CASE project.key
    <3>1. PICK left \in SUBSET Live :
            /\ Leaves(left # {})
            /\ hooks' = [h \in DOMAIN hooks |-> IF h \in Live \ left THEN "deleted" ELSE hooks[h]]
      BY <1>1, <2>1 DEF SetupUnhooks
    <3>2. Step(i, "unschedule") /\ UNCHANGED db
      BY <1>1, <2>1 DEF SetupUnhooks
    <3>3. left = {} => Live' = {}
      BY <3>1 DEF Live
    <3>4. fn'[i].at = "unschedule"
      BY <1>d, <1>e, <3>2
    <3>5. left = {} => Deleting(fn[i])'
      BY <3>3, <3>4 DEF Deleting
    <3> DEFINE some == left # {}
    <3>6. some \in BOOLEAN /\ Leaves(some)
      BY <3>1, Zenon
    <3>7. ~some => Deleting(fn[i])'
      BY <3>5
    <3> HIDE DEF some
    <3> QED BY <1>b, <1>e, <3>2, <3>6, <3>7
  <2>2. CASE ~project.key
    <3>1. Answer(i, FALSE) /\ UNCHANGED project
      BY <1>1, <2>2 DEF SetupUnhooks
    <3> QED BY <1>0, <1>a, <2>2, <3>1, AnswerKeeps
  <2> QED BY <2>1, <2>2
<1>2. CASE SetupUnschedules(i)
  <2>1. PICK left \in {FALSE, project.cron} :
          Leaves(left) /\ project' = [project EXCEPT !.cron = left]
    BY <1>2 DEF SetupUnschedules
  <2>2. Step(i, "vault") /\ UNCHANGED <<hooks, db>> /\ fn[i].at = "unschedule"
    BY <1>2 DEF SetupUnschedules, At
  <2>3. left \in BOOLEAN
    BY DEF Deployment
  <2>4. ASSUME Promised, Awaited(i), ~left, ~client.faulted
        PROVE  Deleting(fn[i])'
    <3>1. fn'[i].at = "vault" /\ ~project'.cron
      BY <1>d, <1>e, <2>1, <2>2, <2>4 DEF Deployment
    <3> QED BY <1>a, <2>2, <2>4, <3>1 DEF Deleting, Live
  <2> QED BY <1>b, <1>e, <2>1, <2>2, <2>3, <2>4
<1>3. CASE SetupForgetsSecret(i)
  <2>1. PICK left \in {0, project.vault} :
          Leaves(left # 0) /\ project' = [project EXCEPT !.vault = left]
    BY <1>3 DEF SetupForgetsSecret
  <2>2. Step(i, "drop") /\ UNCHANGED <<hooks, db>> /\ fn[i].at = "vault"
    BY <1>3 DEF SetupForgetsSecret, At
  <2> DEFINE some == left # 0
  <2>3. some \in BOOLEAN /\ Leaves(some)
    BY <2>1, Zenon
  <2>4. ASSUME Promised, Awaited(i), ~some, ~client.faulted
        PROVE  Deleting(fn[i])'
    <3>1. fn'[i].at = "drop" /\ project'.vault = 0 /\ (project'.cron <=> project.cron)
      BY <1>d, <1>e, <2>1, <2>2, <2>4 DEF Deployment
    <3> QED BY <1>a, <2>2, <2>4, <3>1 DEF Deleting, Live
  <2> HIDE DEF some
  <2> QED BY <1>b, <1>e, <2>2, <2>3, <2>4
<1>4. CASE SetupDrops(i)
  <2>1. /\ db' = Dropped /\ Step(i, "secrets") /\ fn[i].at = "drop"
        /\ UNCHANGED <<hooks, project, client, faults>>
    BY <1>4 DEF SetupDrops, At
  <2>2. db'.comment = "none" /\ ~db'.table
    BY <2>1, SchemasAre
  <2>3. ASSUME Promised, Awaited(i), ~client.faulted
        PROVE  Deleting(fn[i])'
    <3>1. fn'[i].at = "secrets"
      BY <1>d, <1>e, <2>1
    <3> QED BY <1>a, <2>1, <2>2, <2>3, <3>1 DEF Deleting, Live
  <2>4. Leaves(FALSE)
    BY <1>c, <2>1
  <2> QED BY <1>b, <1>e, <2>1, <2>2, <2>3, <2>4
<1>5. CASE SetupPurgesSecrets(i)
  <2>1. PICK key \in {FALSE, project.key}, secret \in {0, project.secret},
             url \in SUBSET (project.options \cap Purged) :
          /\ Leaves(key \/ secret # 0 \/ url # {})
          /\ project' = [project EXCEPT !.key = key, !.secret = secret,
                                        !.options = (project.options \ Purged) \cup url]
    BY <1>5 DEF SetupPurgesSecrets
  <2>2. Step(i, "functions") /\ UNCHANGED <<hooks, db>> /\ fn[i].at = "secrets"
    BY <1>5 DEF SetupPurgesSecrets, At
  <2> DEFINE some == key \/ secret # 0 \/ url # {}
  <2>3. some \in BOOLEAN /\ Leaves(some)
    BY <2>1, Zenon
  <2>4. ASSUME Promised, Awaited(i), ~some, ~client.faulted
        PROVE  Deleting(fn[i])'
    <3>1. /\ fn'[i].at = "functions" /\ ~project'.key /\ project'.secret = 0
          /\ project'.vault = project.vault /\ (project'.cron <=> project.cron)
          /\ project'.options = project.options \ Purged
      BY <1>d, <1>e, <2>1, <2>2, <2>4 DEF Deployment
    <3>2. project'.options \subseteq Spared
      BY <3>1, ProjectIs DEF Options
    <3> QED BY <1>a, <2>2, <2>4, <3>1, <3>2 DEF Deleting, Live
  <2> HIDE DEF some
  <2> QED BY <1>b, <1>e, <2>2, <2>3, <2>4
<1>6. CASE SetupPurgesFunctions(i)
  <2>1. PICK left \in SUBSET project.functions :
          /\ project' = [project EXCEPT !.functions = left]
          /\ IF left = {}
             THEN Answer(i, TRUE) /\ UNCHANGED faults
             ELSE /\ Fault /\ fn' = [fn EXCEPT ![i] = NoInstance]
                  /\ client' = Disturbed(IF Awaited(i) THEN AnsweredOK ELSE client)
                  /\ UNCHANGED db
    BY <1>6 DEF SetupPurgesFunctions
  <2>2. UNCHANGED hooks /\ fn[i].at = "functions"
    BY <1>6 DEF SetupPurgesFunctions, At
  <2>3. CASE left = {}
    <3>1. ASSUME Promised, Awaited(i), ~client.faulted
          PROVE  Bare(project') /\ Live' = {} /\ ~db.table /\ db.comment = "none"
      <4>1. Deleting(fn[i])
        BY <1>a, <3>1
      <4>2. /\ Live = {} /\ ~project.cron /\ project.vault = 0 /\ ~db.table /\ db.comment = "none"
            /\ ~project.key /\ project.secret = 0 /\ project.options \subseteq Spared
        BY <2>2, <4>1 DEF Deleting
      <4>3. Bare(project')
        BY <2>1, <2>3, <4>2 DEF Deployment, Bare
      <4> QED BY <2>2, <4>2, <4>3 DEF Live
    <3> QED BY <1>0, <1>a, <2>1, <2>3, <3>1, AnswerKeeps
  <2>4. CASE left # {}
    <3>1. /\ fn'[i].op = "none" /\ \A j \in Instance \ {i} : fn'[j] = fn[j]
          /\ client' = Disturbed(IF Awaited(i) THEN AnsweredOK ELSE client) /\ UNCHANGED db
      <4>1. /\ fn' = [fn EXCEPT ![i] = NoInstance] /\ UNCHANGED db
            /\ client' = Disturbed(IF Awaited(i) THEN AnsweredOK ELSE client)
        BY <2>1, <2>4
      <4>2. NoInstance.op = "none"
        BY DEF NoInstance
      <4>3. fn'[i].op = "none" /\ \A j \in Instance \ {i} : fn'[j] = fn[j]
        BY <4>1, <4>2
      <4> QED BY <4>1, <4>3
    <3>2. ASSUME ~Awaited(i)
          PROVE  /\ client'.op = client.op /\ client'.at = client.at
                 /\ client'.result = client.result /\ client'.faulted
                 /\ client'.quiet = client.quiet
      BY <3>1, <3>2, DisturbedIs
    <3>3. ASSUME Awaited(i), client.op = "uninstall"
          PROVE  EndedAs(client', "uninstalled") /\ client'.faulted
      BY <3>1, <3>3, EndIs DEF AnsweredOK
    <3>4. client'.quiet = client.quiet
      BY <3>1, <3>2, HalfAnswerIs
    <3>5. ASSUME client.quiet, Promised, Awaited(i), \A j \in Instance \ {i} : fn[j].op = "none"
          PROVE  Promised'
      <4>1. EndedAs(client', "uninstalled") /\ client'.faulted /\ client.op = "uninstall"
        BY <1>a, <3>3, <3>5
      <4>2. Alone'
        BY <3>1, <3>5 DEF Alone
      <4> QED BY <4>1, <4>2 DEF EndedAs, Promised, UninstallKept
    <3> QED BY <1>0, <3>1, <3>2, <3>4, <3>5, InstanceKeeps
  <2> QED BY <2>3, <2>4
<1> QED BY <1>1, <1>2, <1>3, <1>4, <1>5, <1>6

\* An instance that fails, awaited or not.
LEMMA FailureKeeps ==
    ASSUME WellTyped, Kept, NEW i \in Instance, InstanceFails(i)
    PROVE  Kept'
<1> fn \in [Instance -> SetupCall] /\ Sound(client)
  BY DEF WellTyped
<1>1. /\ fn[i].op # "none" /\ fn' = [fn EXCEPT ![i] = NoInstance]
      /\ UNCHANGED <<hooks, project>>
  BY DEF InstanceFails
<1>2. CASE Awaited(i)
  <2>1. client' = Disturbed(Ended("failed")) /\ db' = Commented(db, Errored)
    BY <1>2 DEF InstanceFails
  <2>2. EndedAs(client', "failed") /\ client'.faulted
    BY <2>1, EndIs
  <2> QED BY <1>2, <2>1, <2>2, GivenUpKeeps DEF Awaited
<1>3. CASE ~Awaited(i)
  <2>1. client' = Disturbed(client) /\ UNCHANGED db
    BY <1>3 DEF InstanceFails
  <2> QED BY <1>1, <1>3, <2>1, DisturbedIs, InstanceKeeps
<1> QED BY <1>2, <1>3

\* Every step keeps what calls promise.
LEMMA KeptStep ==
    WellTyped /\ Hollow /\ Kept /\ [Next]_vars => Kept'
<1> SUFFICES ASSUME WellTyped, Hollow, Kept, [Next]_vars PROVE Kept'
  OBVIOUS
<1>0. WellTyped'
  BY TypesStep
<1>1. CASE \/ \E o \in Object : Change(o) \/ RejectEvent(o)
           \/ \E h \in DOMAIN hooks : Disable(h)
  BY <1>1, StripeKeeps
<1>2. CASE \/ InstallBegins \/ ClientNext \/ InstallFails \/ UninstallBegins \/ LoseAnswer
  BY <1>2, ClientKeeps
<1>3. CASE \E i \in Instance : InstanceNext(i) \/ InstanceFails(i)
  BY <1>0, <1>3, PostKeeps, DeleteKeeps, FailureKeeps DEF InstanceNext
<1>4. CASE \E w \in Worker : WorkerStarts(w) \/ WorkerNext(w) \/ WorkerDies(w)
  BY <1>4, WorkersKeep
<1>5. CASE UNCHANGED vars
  <2>1. UNCHANGED <<client, fn, project, hooks, db>>
    BY <1>5 DEF vars
  <2> QED BY <2>1, KeptApart DEF Live
<1> QED BY <1>1, <1>2, <1>3, <1>4, <1>5 DEF Next

\* What a run checks is what the invariant says.
LEMMA InvGives == Inv => CallsKeepPromises
<1> SUFFICES ASSUME WellTyped, Hollow, Covers, Kept PROVE CallsKeepPromises
  BY DEF Inv
<1> /\ db \in Database /\ project \in Deployment /\ Sound(client)
    /\ \A i \in Instance : fn[i] \in SetupCall
    /\ \A w \in Worker : worker[w] \in WorkerCall
  BY PartsAre
<1>1. TypeOK
  <2>1. /\ db.applied \subseteq 1 .. Migrations /\ db.state \in Checkpoint
        /\ db.rows \in [Object -> 0 .. MaxVersion]
        /\ db.comment \in {"none", "installing", "installed", "install-error",
                           "uninstalling", "uninstall-error"}
    BY DEF Database, Comments
  <2>2. /\ project.functions \subseteq Functions /\ project.vault \in 0 .. MaxCalls
        /\ project.options \subseteq Purged \cup Spared
    BY ProjectIs DEF Options
  <2>3. client.calls \in 0 .. MaxCalls /\ (client.at = "wait" <=> client.instance # 0)
    BY DEF Sound, ClientRecord
  <2>4. \A i \in Instance : fn[i].pending \subseteq 1 .. Migrations
    BY DEF SetupCall
  <2>5. \A w \in Worker : [upto |-> worker[w].upto, left |-> worker[w].left] \in Checkpoint
    BY DEF WorkerCall, Checkpoint
  <2>6. /\ version \in [Object -> 0 .. MaxVersion] /\ events \subseteq Object
        /\ Len(hooks) <= MaxHooks
        /\ \A h \in DOMAIN hooks : hooks[h] \in {"enabled", "disabled", "deleted"}
    BY PartsAre
  <2> QED BY <2>1, <2>2, <2>3, <2>4, <2>5, <2>6 DEF TypeOK
<1>2. InstalledIsComplete
  BY DEF InstalledIsComplete, Idle, IsInstalled, Kept, Promised, InstallKept, Under, Migrated
<1>a. ASSUME Idle, client.quiet
      PROVE  /\ Promised
             /\ client.op = "none" => client.result = "none"
             /\ client.op \in {"none", "install", "uninstall"}
  BY <1>a DEF Kept, Sound, ClientRecord
<1>3. CallsGoThrough
  <2> SUFFICES ASSUME Idle, client.quiet, ~client.faulted, client.result = "failed"
               PROVE  /\ client.op = "uninstall"
                      /\ ~project.key \/ "stripe-setup" \notin project.functions
    BY DEF CallsGoThrough
  <2>1. client.op # "none"
    BY <1>a
  <2>2. client.op # "install"
    BY <1>a DEF Promised, InstallKept
  <2>3. client.op = "uninstall"
    BY <1>a, <2>1, <2>2
  <2> QED BY <1>a, <2>3 DEF Promised, UninstallKept
<1>4. UninstallCleans
  <2> SUFFICES ASSUME Idle, client.result = "uninstalled", client.quiet, ~client.faulted
               PROVE  /\ Bare(project) /\ \A h \in DOMAIN hooks : hooks[h] = "deleted"
                      /\ ~db.table /\ db.comment = "none"
    BY DEF UninstallCleans, Uninstalled, Bare
  <2>1. client.op = "uninstall"
    BY <1>a DEF Promised, InstallKept
  <2>2. Bare(project) /\ Live = {} /\ ~db.table /\ db.comment = "none"
    BY <1>a, <2>1 DEF Promised, UninstallKept
  <2> QED BY <2>2 DEF Live
<1> QED BY <1>1, <1>2, <1>3, <1>4 DEF CallsKeepPromises

\* The inductive invariant.
THEOREM InvHolds == Spec => []Inv
<1>1. Init => Inv
  BY Starts DEF Inv
<1>2. Inv /\ [Next]_vars => Inv'
  BY TypesStep, CoversStep, KeptStep DEF Inv
<1> QED BY <1>1, <1>2, PTL DEF Spec

\* Whatever failed before: an install that nothing disturbs goes through and is
\* complete, an uninstall fails only without the function or the key that it needs, and
\* one that nothing disturbs leaves two secrets, the queue and no more.
THEOREM CallsKeepTheirPromises == Spec => []CallsKeepPromises
BY InvHolds, InvGives, PTL
=============================================================================
